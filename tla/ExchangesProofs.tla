--------------------------- MODULE ExchangesProofs ---------------------------
(***************************************************************************)
(* What Exchanges promises, for any jobs and modules, any cap and any       *)
(* number of exchanges.                                                     *)
(*                                                                         *)
(* The invariant follows each job through its life (JobInv): which of its   *)
(* exchanges are open, which kind they are and how they were answered.  A   *)
(* trim keeps it (Trim) as it evicts nothing that is open, and of what is   *)
(* answered nothing before something older.                                 *)
(***************************************************************************)
EXTENDS Exchanges, TLAPS, FiniteSetTheorems, WellFoundedInduction

State == [job : Job, cmd : {"invoke", "job_update"}, module : Module, caller : Module,
          says : {"none", "running", "done", "failed"},
          response : {"none", "ok", "accepted", "error"}]

Shape ==
    /\ records \in [DOMAIN records -> State] /\ DOMAIN records \subseteq 1 .. last
    /\ last \in 0 .. MaxExchanges
    /\ started \subseteq Job
    /\ phase \in [Job -> {"new", "waiting", "busy", "accepted", "ended"}]
    /\ asked \in [Job -> 0 .. last] /\ hop \in [Job -> 0 .. last]

\* Exchange i is an open invoke of job t.
OpenInvoke(t, i) ==
    i \in Ids(t) /\ records[i].cmd = "invoke" /\ ~Done(records[i])

\* The caller waits: its exchange is the first of the job, which has no reports.
Asking(t) ==
    /\ OpenInvoke(t, asked[t])
    /\ \A i \in Ids(t) : asked[t] <= i /\ records[i].cmd = "invoke"

\* Exchange i of t says how the job went, and is its last.
Verdict(t, i) ==
    /\ i \in Ids(t) /\ records[i].cmd = "job_update" /\ records[i].says \in {"done", "failed"}
    /\ \A k \in Ids(t) : k <= i

Answered(r) == r.cmd = "invoke" /\ r.response \in {"ok", "error"}

\* All that is left of t is invokes that were answered for good; or it is all
\* answered, and what is left of it ends with a verdict.
Over(t) ==
    \/ \A i \in Ids(t) : Answered(records[i])
    \/ \A i \in Ids(t) : Done(records[i]) /\ \E j \in Ids(t) : i <= j /\ Verdict(t, j)

JobInv(t) ==
    /\ phase[t] = "new" => Ids(t) = {} /\ hop[t] = 0 /\ t \notin started
    /\ phase[t] = "waiting" => Asking(t) /\ hop[t] = 0 /\ t \notin started /\ Ids(t) = {asked[t]}
    /\ phase[t] = "busy" =>
           /\ Asking(t) /\ t \in started /\ hop[t] # asked[t]
           /\ \A i \in Ids(t) \ {asked[t], hop[t]} : Answered(records[i])
    /\ phase[t] = "accepted" => \A i \in Ids(t) \ {hop[t]} : Done(records[i])
    /\ phase[t] = "ended" => Over(t) /\ hop[t] = 0
    /\ phase[t] \notin {"waiting", "busy"} => asked[t] = 0
    /\ hop[t] # 0 => OpenInvoke(t, hop[t])

IInv == Shape /\ \A t \in Job : JobInv(t)

------------------------------------------------------------------------------
\* What opening an exchange r does to the store, its trim included.  The opened
\* exchange and all others that are open stay; of the answered ones the younger
\* outlive the older; a stamp stays with a job that has an open exchange.
LEMMA Trim ==
    ASSUME Shape, NEW r \in State, ~Done(r), NEW kept, kept = Kept(Opened(r)), ExchangesAssumption
    PROVE  /\ kept \in [DOMAIN kept -> State]
           /\ last + 1 \in DOMAIN kept /\ kept[last + 1] = r
           /\ \A i \in DOMAIN kept : i # last + 1 => i \in DOMAIN records /\ kept[i] = records[i]
           /\ \A i \in DOMAIN records : ~Done(records[i]) => i \in DOMAIN kept
           /\ \A i \in DOMAIN kept, j \in DOMAIN records :
                  i <= j /\ Done(kept[i]) => j \in DOMAIN kept
           /\ Stamps(Opened(r)) \subseteq started
           /\ \A u \in started : (\E i \in DOMAIN records : records[i].job = u /\ ~Done(records[i]))
                  => u \in Stamps(Opened(r))
<1> DEFINE recs == Opened(r)
           done == {i \in DOMAIN recs : Done(recs[i])}
           excess == Cardinality(DOMAIN recs) - Cap
           upto(i) == {k \in done : k < i}
<1>1. /\ recs \in [DOMAIN records \cup {last + 1} -> State]
      /\ DOMAIN recs = DOMAIN records \cup {last + 1} /\ last + 1 \notin DOMAIN records
      /\ recs[last + 1] = r /\ \A i \in DOMAIN records : recs[i] = records[i]
      /\ last + 1 \in Nat /\ DOMAIN recs \subseteq 1 .. last + 1
  BY SMT DEF Shape, Opened, ExchangesAssumption
<1>2. IsFiniteSet(done)
  <2>1. IsFiniteSet(1 .. last + 1)
    BY <1>1, FS_Interval
  <2>2. done \subseteq 1 .. last + 1
    BY <1>1
  <2> QED BY <2>1, <2>2, FS_Subset
<1>3. IsFiniteSet(DOMAIN recs) /\ excess \in Int
  <2>1. IsFiniteSet(1 .. last + 1)
    BY <1>1, FS_Interval
  <2>2. IsFiniteSet(DOMAIN recs)
    BY <1>1, <2>1, FS_Subset
  <2>3. Cardinality(DOMAIN recs) \in Nat /\ Cap \in Nat
    BY <2>2, FS_CardinalityType DEF ExchangesAssumption
  <2> QED BY <2>2, <2>3
<1>4. ASSUME NEW i \in DOMAIN recs, NEW j \in DOMAIN recs, i <= j, j \in Old(recs), i \in done
      PROVE  i \in Old(recs)
  <2>1. upto(i) \subseteq upto(j) /\ IsFiniteSet(upto(j))
    <3>1. upto(i) \subseteq upto(j)
      BY <1>1, <1>4, SMT
    <3>2. upto(j) \subseteq done
      OBVIOUS
    <3> QED BY <3>1, <3>2, <1>2, FS_Subset
  <2>2. Cardinality(upto(i)) <= Cardinality(upto(j)) /\ Cardinality(upto(i)) \in Nat /\ Cardinality(upto(j)) \in Nat
    BY <2>1, FS_Subset, FS_CardinalityType
  <2>3. Cardinality(upto(j)) < excess
    BY <1>4 DEF Old
  <2>4. Cardinality(upto(i)) < excess
    BY <2>2, <2>3, <1>3, SMT
  <2> QED BY <2>4, <1>4 DEF Old
<1>5. Old(recs) \subseteq done
  BY DEF Old
<1>6. CASE Full(recs)
  <2>1. DOMAIN kept = DOMAIN recs \ Old(recs) /\ kept = [i \in DOMAIN recs \ Old(recs) |-> recs[i]]
    BY <1>6 DEF Kept
  <2>2. kept \in [DOMAIN kept -> State] /\ \A i \in DOMAIN kept : i \in DOMAIN recs /\ kept[i] = recs[i]
    BY <2>1, <1>1
  <2>3. \A i \in DOMAIN recs : ~Done(recs[i]) => i \in DOMAIN kept
    BY <2>1, <1>5
  <2>4. ASSUME NEW i \in DOMAIN kept, NEW j \in DOMAIN records, i <= j, Done(kept[i])
        PROVE  j \in DOMAIN kept
    BY <2>1, <2>2, <1>1, <1>4, <2>4
  <2>5. Stamps(recs) = {t \in started : \E i \in DOMAIN recs \ Old(recs) : recs[i].job = t}
    BY <1>6 DEF Stamps
  <2>6. Stamps(recs) \subseteq started
    BY <2>5
  <2>7. ASSUME NEW u \in started, NEW i \in DOMAIN records, records[i].job = u, ~Done(records[i])
        PROVE  u \in Stamps(recs)
    BY <2>7, <2>5, <2>1, <2>3, <1>1
  <2> HIDE DEF recs
  <2> QED BY <2>2, <2>3, <2>4, <2>6, <2>7, <1>1 DEF recs
<1>7. CASE ~Full(recs)
  <2>1. kept = recs /\ Stamps(recs) = started
    BY <1>7 DEF Kept, Stamps
  <2> HIDE DEF recs
  <2> QED BY <2>1, <1>1 DEF recs
<1> QED BY <1>6, <1>7

------------------------------------------------------------------------------
\* What a step leaves of the exchanges of job u, new ones aside: nothing changes,
\* what is open stays, and of what is answered the younger outlives the older.
Keeps(u) ==
    /\ Ids(u)' \subseteq Ids(u) /\ \A i \in Ids(u)' : records'[i] = records[i]
    /\ \A i \in Ids(u) : ~Done(records[i]) => i \in Ids(u)'
    /\ \A i \in Ids(u)', j \in Ids(u) : i <= j /\ Done(records[i]) => j \in Ids(u)'
    /\ u \in started' => u \in started
    /\ u \in started /\ (\E i \in Ids(u) : ~Done(records[i])) => u \in started'
    /\ phase'[u] = phase[u] /\ asked'[u] = asked[u] /\ hop'[u] = hop[u]

\* A job that a step only keeps stays what it is.
LEMMA KeptJob ==
    ASSUME Shape, NEW u \in Job, JobInv(u), Keeps(u)
    PROVE  JobInv(u)'
<1>1. \A i \in Ids(u) : i \in Nat
  BY SMT DEF Ids, Shape
<1>2. \A i : OpenInvoke(u, i) => OpenInvoke(u, i)'
  BY DEF Keeps, OpenInvoke, Done
<1>3. Asking(u) => Asking(u)'
  BY <1>2 DEF Keeps, Asking
<1>4. Over(u) => Over(u)'
  <2>1. CASE \A i \in Ids(u) : Answered(records[i])
    BY <2>1 DEF Keeps, Over, Answered
  <2>2. CASE \A i \in Ids(u) : Done(records[i]) /\ \E j \in Ids(u) : i <= j /\ Verdict(u, j)
    <3>1. ASSUME NEW i \in Ids(u)'
          PROVE  Done(records'[i]) /\ \E j \in Ids(u)' : i <= j /\ Verdict(u, j)'
      <4>1. i \in Ids(u) /\ records'[i] = records[i]
        BY DEF Keeps
      <4>2. PICK j \in Ids(u) : i <= j /\ Verdict(u, j)
        BY <4>1, <2>2
      <4>3. Done(records[i])
        BY <4>1, <2>2
      <4>4. j \in Ids(u)'
        BY <4>1, <4>2, <4>3 DEF Keeps
      <4>5. Verdict(u, j)'
        BY <4>2, <4>4 DEF Verdict, Keeps
      <4> QED BY <4>1, <4>2, <4>3, <4>4, <4>5 DEF Done
    <3> QED BY <3>1 DEF Over, Done
  <2> QED BY <2>1, <2>2 DEF Over
<1>5. phase[u] = "waiting" /\ Ids(u) = {asked[u]} => Ids(u)' = {asked'[u]}
  BY <1>3 DEF JobInv, Keeps, Asking, OpenInvoke
<1>6. phase[u] = "busy" => u \in started'
  BY DEF JobInv, Keeps, Asking, OpenInvoke
<1>7. \A i \in Ids(u)' : /\ Done(records[i]) => Done(records'[i])
                         /\ Answered(records[i]) => Answered(records'[i])
  BY DEF Keeps, Done, Answered
<1> QED BY <1>2, <1>3, <1>4, <1>5, <1>6, <1>7 DEF JobInv, Keeps

\* A step that opens exchange r for job t, and may answer it at once: the other
\* jobs stay what they are; t has one exchange more, after all it had.
LEMMA OpeningStep ==
    ASSUME ExchangesAssumption, IInv, NEW t \in Job, NEW r \in State, r.job = t, ~Done(r),
           last < MaxExchanges, last' = last + 1,
           DOMAIN records' = DOMAIN Kept(Opened(r)), records' \in [DOMAIN records' -> State],
           records'[last + 1].job = t,
           \A i \in DOMAIN records' : i # last + 1 => records'[i] = Kept(Opened(r))[i],
           started' = Stamps(Opened(r)),
           \A u \in Job \ {t} : phase'[u] = phase[u] /\ asked'[u] = asked[u] /\ hop'[u] = hop[u]
    PROVE  /\ \A u \in Job \ {t} : JobInv(u)'
           /\ DOMAIN records' \subseteq 1 .. last' /\ last' \in 0 .. MaxExchanges /\ started' \subseteq Job
           /\ last + 1 \in Ids(t)' /\ \A i \in Ids(t) : i < last + 1 /\ i \in Nat
           /\ \A i \in Ids(t)' : i # last + 1 => i \in Ids(t) /\ records'[i] = records[i]
           /\ \A i \in Ids(t) : ~Done(records[i]) => i \in Ids(t)'
           /\ started' \subseteq started
           /\ t \in started /\ (\E i \in Ids(t) : ~Done(records[i])) => t \in started'
<1> DEFINE kept == Kept(Opened(r))
           n == last + 1
<1>1. Shape
  BY DEF IInv
<1>2. /\ n \in DOMAIN kept /\ kept[n] = r
      /\ \A i \in DOMAIN kept : i # n => i \in DOMAIN records /\ kept[i] = records[i]
      /\ \A i \in DOMAIN records : ~Done(records[i]) => i \in DOMAIN kept
      /\ \A i \in DOMAIN kept, j \in DOMAIN records : i <= j /\ Done(kept[i]) => j \in DOMAIN kept
      /\ started' \subseteq started
      /\ \A u \in started : (\E i \in DOMAIN records : records[i].job = u /\ ~Done(records[i]))
             => u \in started'
  BY <1>1, Trim
<1>3. /\ DOMAIN records \subseteq 1 .. last /\ n \notin DOMAIN records /\ last \in Nat /\ MaxExchanges \in Nat
      /\ \A i \in DOMAIN records : i \in Nat /\ i < n
  BY <1>1, SMT DEF Shape, ExchangesAssumption
<1> HIDE DEF kept, n
<1>4. /\ DOMAIN records' = DOMAIN kept /\ records'[n].job = t
      /\ \A i \in DOMAIN records' : i # n => records'[i] = kept[i]
  BY DEF kept, n
<1>5. \A i \in DOMAIN records' : i # n => i \in DOMAIN records /\ records'[i] = records[i]
  BY <1>2, <1>4
<1>6. ASSUME NEW u \in Job \ {t}
      PROVE  JobInv(u)'
  <2>1. Ids(u)' \subseteq Ids(u) /\ \A i \in Ids(u)' : records'[i] = records[i]
    BY <1>4, <1>5 DEF Ids
  <2>2. \A i \in Ids(u) : ~Done(records[i]) => i \in Ids(u)'
    <3>1. \A i \in Ids(u) : i \in DOMAIN records' => i \in Ids(u)'
      BY <1>3, <1>5 DEF Ids
    <3> QED BY <3>1, <1>2, <1>4 DEF Ids
  <2>3. \A i \in Ids(u)', j \in Ids(u) : i <= j /\ Done(records[i]) => j \in Ids(u)'
    <3>1. \A i \in Ids(u) : i \in DOMAIN records' => i \in Ids(u)'
      BY <1>3, <1>5 DEF Ids
    <3>2. \A i \in Ids(u)' : i \in DOMAIN kept /\ i # n /\ kept[i] = records[i]
      BY <1>2, <1>4 DEF Ids
    <3> QED BY <3>1, <3>2, <1>2, <1>4 DEF Ids
  <2>4. Keeps(u)
    BY <2>1, <2>2, <2>3, <1>2 DEF Keeps, Ids
  <2> QED BY <2>4, <1>1, KeptJob DEF IInv
<1>7. DOMAIN records' \subseteq 1 .. last' /\ last' \in 0 .. MaxExchanges
  BY <1>3, <1>5, SMT DEF n
<1>8. started' \subseteq Job
  BY <1>1, <1>2 DEF Shape
<1>9. n \in Ids(t)' /\ \A i \in Ids(t) : i < n /\ i \in Nat
  BY <1>2, <1>3, <1>4 DEF Ids
<1>10. \A i \in Ids(t)' : i # n => i \in Ids(t) /\ records'[i] = records[i]
  BY <1>5 DEF Ids
<1>11. \A i \in Ids(t) : ~Done(records[i]) => i \in Ids(t)'
  BY <1>2, <1>3, <1>4, <1>5 DEF Ids
<1>12. t \in started /\ (\E i \in Ids(t) : ~Done(records[i])) => t \in started'
  BY <1>2 DEF Ids
<1> QED BY <1>2, <1>6, <1>7, <1>8, <1>9, <1>10, <1>11, <1>12 DEF n

\* A step that answers the open exchange i of job t.
LEMMA AnsweringStep ==
    ASSUME IInv, NEW t \in Job, NEW i, OpenInvoke(t, i),
           NEW response \in {"ok", "accepted", "error"}, Complete(i, response),
           UNCHANGED <<started, last>>,
           \A u \in Job \ {t} : phase'[u] = phase[u] /\ asked'[u] = asked[u] /\ hop'[u] = hop[u]
    PROVE  /\ \A u \in Job \ {t} : JobInv(u)'
           /\ records' \in [DOMAIN records' -> State] /\ DOMAIN records' \subseteq 1 .. last'
           /\ Ids(t)' = Ids(t) /\ Done(records'[i])
           /\ records'[i].cmd = "invoke" /\ records'[i].response = response
           /\ \A k \in Ids(t) : k # i => records'[k] = records[k]
           /\ \A k \in Ids(t) : records'[k].cmd = records[k].cmd
<1>1. /\ records' = [records EXCEPT ![i].response = response]
      /\ records \in [DOMAIN records -> State] /\ DOMAIN records \subseteq 1 .. last
      /\ i \in DOMAIN records /\ records[i].job = t /\ records[i].cmd = "invoke"
  BY DEF Complete, OpenInvoke, Lookup, Ids, IInv, Shape
<1>2. /\ DOMAIN records' = DOMAIN records
      /\ \A k \in DOMAIN records : k # i => records'[k] = records[k]
      /\ records'[i].job = t /\ records'[i].cmd = "invoke" /\ records'[i].response = response
      /\ records' \in [DOMAIN records' -> State]
  BY <1>1 DEF State
<1>3. ASSUME NEW u \in Job \ {t}
      PROVE  JobInv(u)'
  <2>1. Ids(u)' = Ids(u) /\ \A k \in Ids(u) : records'[k] = records[k]
    BY <1>1, <1>2 DEF Ids
  <2>2. Keeps(u)
    BY <2>1 DEF Keeps
  <2> QED BY <2>2, KeptJob DEF IInv
<1>4. Ids(t)' = Ids(t)
  BY <1>1, <1>2 DEF Ids
<1>5. Done(records'[i])
  BY <1>2 DEF Done
<1> QED BY <1>1, <1>2, <1>3, <1>4, <1>5 DEF Ids

------------------------------------------------------------------------------
\* Initially nothing is kept, and every job is new.
LEMMA InitInv == ASSUME ExchangesAssumption PROVE Init => IInv
<1> SUFFICES ASSUME Init PROVE IInv
  OBVIOUS
<1>1. DOMAIN records = {} /\ records \in [DOMAIN records -> State]
  BY DEF Init
<1>2. Shape
  BY <1>1, SMT DEF Init, Shape, ExchangesAssumption
<1>3. \A t \in Job : JobInv(t)
  BY <1>1 DEF Init, JobInv, Ids
<1> QED BY <1>2, <1>3 DEF IInv

\* Each action keeps the invariant: a new job gets its originating exchange,
LEMMA InvokeInv == ASSUME ExchangesAssumption, IInv, NEW t \in Job, Invoke(t) PROVE IInv'
<1> DEFINE r == Exchange(t, "invoke", Target[t], System, "none")
           n == last + 1
<1>1. r \in State /\ r.job = t /\ r.cmd = "invoke" /\ ~Done(r) /\ Open(r) /\ Shape
  BY DEF Exchange, State, Done, Invoke, IInv, ExchangesAssumption
<1>2. /\ phase' = [phase EXCEPT ![t] = "waiting"] /\ asked' = [asked EXCEPT ![t] = n] /\ hop' = hop
      /\ phase[t] = "new" /\ Ids(t) = {} /\ hop[t] = 0 /\ t \notin started /\ JobInv(t)
  BY DEF Invoke, IInv, JobInv
<1>3. /\ records' = Kept(Opened(r)) /\ started' = Stamps(Opened(r))
      /\ last' = last + 1 /\ last < MaxExchanges
  BY <1>1 DEF Open
<1> HIDE DEF r
<1>4. records' \in [DOMAIN records' -> State] /\ records'[n] = r
  BY <1>1, <1>3, Trim
<1>5. \A u \in Job \ {t} : phase'[u] = phase[u] /\ asked'[u] = asked[u] /\ hop'[u] = hop[u]
  BY <1>1, <1>2 DEF Shape
<1>6. /\ \A u \in Job \ {t} : JobInv(u)'
      /\ DOMAIN records' \subseteq 1 .. last' /\ last' \in 0 .. MaxExchanges /\ started' \subseteq Job
      /\ n \in Ids(t)' /\ \A i \in Ids(t)' : i # n => i \in Ids(t)
      /\ started' \subseteq started
  BY <1>1, <1>3, <1>4, <1>5, OpeningStep
<1>7. Ids(t)' = {n} /\ n \in 0 .. last' /\ n \in Nat
  BY <1>1, <1>2, <1>3, <1>6, SMT DEF Shape
<1>8. /\ phase'[t] = "waiting" /\ asked'[t] = n /\ hop'[t] = 0
  BY <1>1, <1>2 DEF Shape
<1>9. JobInv(t)'
  <2>1. Asking(t)'
    BY <1>1, <1>4, <1>7, <1>8 DEF Asking, OpenInvoke, Done
  <2> QED BY <2>1, <1>2, <1>6, <1>7, <1>8 DEF JobInv
<1>10. Shape'
  <2>1. asked' \in [Job -> 0 .. last'] /\ hop' \in [Job -> 0 .. last']
    BY <1>1, <1>2, <1>3, <1>7, SMT DEF Shape
  <2>2. phase' \in [Job -> {"new", "waiting", "busy", "accepted", "ended"}]
    BY <1>1, <1>2 DEF Shape
  <2> QED BY <2>1, <2>2, <1>4, <1>6 DEF Shape
<1> QED BY <1>6, <1>9, <1>10 DEF IInv

\* a queued one its stamp,
LEMMA StartInv == ASSUME ExchangesAssumption, IInv, NEW t \in Job, Start(t) PROVE IInv'
<1>1. /\ Shape /\ JobInv(t) /\ phase[t] = "waiting"
      /\ started' = started \cup {t} /\ phase' = [phase EXCEPT ![t] = "busy"]
      /\ UNCHANGED <<records, last, asked, hop>>
  BY DEF Start, IInv
<1>2. Shape' /\ phase'[t] = "busy" /\ \A u \in Job : u # t => phase'[u] = phase[u]
  BY <1>1 DEF Shape
<1>3. Asking(t) /\ hop[t] = 0 /\ Ids(t) = {asked[t]}
  BY <1>1 DEF JobInv
<1>4. asked[t] # 0
  BY <1>1, <1>3, SMT DEF Asking, OpenInvoke, Ids, Shape
<1>5. JobInv(t)'
  <2>1. Asking(t)' /\ Ids(t)' = Ids(t)
    BY <1>1, <1>3 DEF Asking, OpenInvoke, Ids, Done
  <2> QED BY <2>1, <1>1, <1>2, <1>3, <1>4 DEF JobInv
<1>6. ASSUME NEW u \in Job, u # t PROVE JobInv(u)'
  <2>1. Keeps(u)
    BY <1>1, <1>2, <1>6 DEF Keeps, Ids
  <2> QED BY <2>1, KeptJob DEF IInv
<1> QED BY <1>2, <1>5, <1>6 DEF IInv

\* and whatever answers its caller settles the originating exchange.
LEMMA AnswerInv ==
    ASSUME ExchangesAssumption, IInv, NEW t \in Job, NEW response \in {"ok", "accepted", "error"},
           phase[t] \in {"waiting", "busy"}, hop[t] = 0, Answer(t, response)
    PROVE  IInv'
<1>1. /\ Shape /\ JobInv(t)
      /\ Complete(asked[t], response) /\ asked' = [asked EXCEPT ![t] = 0]
      /\ phase' = [phase EXCEPT ![t] = IF response = "accepted" THEN "accepted" ELSE "ended"]
      /\ UNCHANGED <<started, last, hop>>
  BY DEF Answer, IInv
<1>2. Asking(t) /\ OpenInvoke(t, asked[t])
  BY <1>1 DEF JobInv, Asking
<1>3. \A u \in Job \ {t} : phase'[u] = phase[u] /\ asked'[u] = asked[u] /\ hop'[u] = hop[u]
  BY <1>1 DEF Shape
<1>4. /\ \A u \in Job \ {t} : JobInv(u)'
      /\ records' \in [DOMAIN records' -> State] /\ DOMAIN records' \subseteq 1 .. last'
      /\ Ids(t)' = Ids(t) /\ Done(records'[asked[t]])
      /\ records'[asked[t]].cmd = "invoke" /\ records'[asked[t]].response = response
      /\ \A k \in Ids(t) : k # asked[t] => records'[k] = records[k]
  BY <1>1, <1>2, <1>3, AnsweringStep
<1>5. Shape'
  BY <1>1, <1>4, SMT DEF Shape
<1>6. phase'[t] = (IF response = "accepted" THEN "accepted" ELSE "ended") /\ asked'[t] = 0 /\ hop'[t] = 0
  BY <1>1 DEF Shape
<1>7. \A i \in Ids(t) \ {asked[t]} : Answered(records[i])
  <2>1. \A i \in Ids(t) : i # 0
    BY <1>1, SMT DEF Shape, Ids
  <2> QED BY <2>1, <1>1 DEF JobInv
<1>8. \A i \in Ids(t)' : Done(records'[i])
  BY <1>4, <1>7 DEF Answered, Done
<1>9. response # "accepted" => Over(t)'
  BY <1>4, <1>7 DEF Over, Answered
<1>10. JobInv(t)'
  BY <1>6, <1>8, <1>9 DEF JobInv
<1> QED BY <1>4, <1>5, <1>10 DEF IInv

\* What a step must leave for a job that runs to stay what it is.
LEMMA BusyJob ==
    ASSUME NEW t \in Job, phase'[t] = "busy", Asking(t)', t \in started', hop'[t] # asked'[t],
           \A i \in Ids(t)' : i # asked'[t] /\ i # hop'[t] => Answered(records'[i]),
           hop'[t] # 0 => OpenInvoke(t, hop[t])'
    PROVE  JobInv(t)'
BY DEF JobInv

\* The same for one that was accepted.
LEMMA AcceptedJob ==
    ASSUME NEW t \in Job, phase'[t] = "accepted", asked'[t] = 0,
           \A i \in Ids(t)' : i # hop'[t] => Done(records'[i]),
           hop'[t] # 0 => OpenInvoke(t, hop[t])'
    PROVE  JobInv(t)'
BY DEF JobInv

\* A call is one more open invoke of its job,
LEMMA HopOutInv == ASSUME ExchangesAssumption, IInv, NEW t \in Job, HopOut(t) PROVE IInv'
<1> DEFINE r == Exchange(t, "invoke", HopTarget[t], Target[t], "none")
           n == last + 1
<1>1. r \in State /\ r.job = t /\ r.cmd = "invoke" /\ ~Done(r) /\ Open(r) /\ Shape /\ JobInv(t)
  BY DEF Exchange, State, Done, HopOut, IInv, ExchangesAssumption
<1>2. /\ hop' = [hop EXCEPT ![t] = n] /\ phase' = phase /\ asked' = asked
      /\ phase[t] \in {"busy", "accepted"} /\ hop[t] = 0
  BY DEF HopOut
<1>3. /\ records' = Kept(Opened(r)) /\ started' = Stamps(Opened(r))
      /\ last' = last + 1 /\ last < MaxExchanges
  BY <1>1 DEF Open
<1> HIDE DEF r
<1>4. records' \in [DOMAIN records' -> State] /\ records'[n] = r
  BY <1>1, <1>3, Trim
<1>5. \A u \in Job \ {t} : phase'[u] = phase[u] /\ asked'[u] = asked[u] /\ hop'[u] = hop[u]
  BY <1>1, <1>2 DEF Shape
<1>6. /\ \A u \in Job \ {t} : JobInv(u)'
      /\ DOMAIN records' \subseteq 1 .. last' /\ last' \in 0 .. MaxExchanges /\ started' \subseteq Job
      /\ n \in Ids(t)' /\ \A i \in Ids(t) : i < n /\ i \in Nat
      /\ \A i \in Ids(t)' : i # n => i \in Ids(t) /\ records'[i] = records[i]
      /\ \A i \in Ids(t) : ~Done(records[i]) => i \in Ids(t)'
      /\ t \in started /\ (\E i \in Ids(t) : ~Done(records[i])) => t \in started'
  BY <1>1, <1>3, <1>4, <1>5, OpeningStep
<1>7. n \in 0 .. last' /\ n # 0 /\ \A i \in Ids(t) : i # 0 /\ i # n
  BY <1>1, <1>3, <1>6, SMT DEF Shape, Ids
<1>8. phase'[t] = phase[t] /\ asked'[t] = asked[t] /\ hop'[t] = n
  BY <1>1, <1>2 DEF Shape
<1>9. Shape'
  <2>1. asked' \in [Job -> 0 .. last'] /\ hop' \in [Job -> 0 .. last']
    BY <1>1, <1>2, <1>3, <1>7, SMT DEF Shape
  <2>2. phase' \in [Job -> {"new", "waiting", "busy", "accepted", "ended"}]
    BY <1>1, <1>2 DEF Shape
  <2> QED BY <2>1, <2>2, <1>4, <1>6 DEF Shape
<1>10. OpenInvoke(t, hop[t])'
  BY <1>1, <1>4, <1>6, <1>8 DEF OpenInvoke, Done
<1>11. CASE phase[t] = "busy"
  <2>1. Asking(t) /\ t \in started /\ OpenInvoke(t, asked[t])
    BY <1>1, <1>11 DEF JobInv, Asking
  <2>2. asked[t] \in Ids(t)' /\ asked[t] # n /\ asked[t] < n /\ t \in started'
    BY <2>1, <1>6, <1>7 DEF OpenInvoke
  <2>3. OpenInvoke(t, asked[t])'
    BY <2>1, <2>2, <1>6, <1>8 DEF OpenInvoke, Done
  <2>4. \A i \in Ids(t)' : asked[t] <= i /\ records'[i].cmd = "invoke"
    <3>1. asked[t] <= n
      BY <1>1, <2>2, SMT DEF Shape
    <3> QED BY <3>1, <2>1, <1>1, <1>4, <1>6 DEF Asking
  <2>5. Asking(t)'
    BY <2>3, <2>4, <1>8 DEF Asking
  <2>6. \A i \in Ids(t)' : i # asked[t] /\ i # n => Answered(records'[i])
    BY <1>1, <1>2, <1>6, <1>7, <1>11 DEF JobInv
  <2>7. phase'[t] = "busy" /\ hop'[t] # asked'[t] /\ asked'[t] = asked[t] /\ hop'[t] = n
    BY <2>2, <1>8, <1>11
  <2> HIDE DEF n
  <2>8. \A i \in Ids(t)' : i # asked'[t] /\ i # hop'[t] => Answered(records'[i])
    BY <2>6, <2>7
  <2>9. JobInv(t)'
    BY <2>2, <2>5, <2>7, <2>8, <1>10, BusyJob
  <2> QED BY <2>9, <1>6, <1>9 DEF IInv
<1>12. CASE phase[t] = "accepted"
  <2>1. \A i \in Ids(t)' : i # n => Done(records'[i])
    BY <1>1, <1>2, <1>6, <1>7, <1>12 DEF JobInv, Done
  <2>2. phase'[t] = "accepted" /\ asked'[t] = 0 /\ hop'[t] = n
    BY <1>1, <1>8, <1>12 DEF JobInv
  <2> HIDE DEF n
  <2>3. \A i \in Ids(t)' : i # hop'[t] => Done(records'[i])
    BY <2>1, <2>2
  <2>4. JobInv(t)'
    BY <2>2, <2>3, <1>10, AcceptedJob
  <2> QED BY <2>4, <1>6, <1>9 DEF IInv
<1> QED BY <1>2, <1>6, <1>9, <1>11, <1>12 DEF IInv

\* its answer settles it,
LEMMA HopBackInv == ASSUME ExchangesAssumption, IInv, NEW t \in Job, HopBack(t) PROVE IInv'
<1>1. PICK response \in {"ok", "error"} : Complete(hop[t], response)
  BY DEF HopBack
<1>2. /\ Shape /\ JobInv(t) /\ hop[t] # 0 /\ hop' = [hop EXCEPT ![t] = 0]
      /\ UNCHANGED <<started, last, phase, asked>>
  BY DEF HopBack, IInv
<1>3. OpenInvoke(t, hop[t])
  BY <1>2 DEF JobInv
<1>4. \A u \in Job \ {t} : phase'[u] = phase[u] /\ asked'[u] = asked[u] /\ hop'[u] = hop[u]
  BY <1>2 DEF Shape
<1>5. /\ \A u \in Job \ {t} : JobInv(u)'
      /\ records' \in [DOMAIN records' -> State] /\ DOMAIN records' \subseteq 1 .. last'
      /\ Ids(t)' = Ids(t) /\ Done(records'[hop[t]])
      /\ records'[hop[t]].cmd = "invoke" /\ records'[hop[t]].response = response
      /\ \A k \in Ids(t) : k # hop[t] => records'[k] = records[k]
      /\ \A k \in Ids(t) : records'[k].cmd = records[k].cmd
  BY <1>1, <1>2, <1>3, <1>4, AnsweringStep
<1>6. Shape'
  BY <1>2, <1>5, SMT DEF Shape
<1>7. phase'[t] = phase[t] /\ asked'[t] = asked[t] /\ hop'[t] = 0
  BY <1>2 DEF Shape
<1>8. hop[t] \in Ids(t) /\ phase[t] \in {"busy", "accepted"}
  BY <1>2, <1>3 DEF JobInv, OpenInvoke, Shape
<1>9. CASE phase[t] = "busy"
  <2>1. Asking(t) /\ t \in started /\ hop[t] # asked[t] /\ OpenInvoke(t, asked[t])
    BY <1>2, <1>9 DEF JobInv, Asking
  <2>2. Asking(t)'
    BY <2>1, <1>5, <1>7 DEF Asking, OpenInvoke, Done
  <2>3. \A i \in Ids(t)' : i # asked'[t] => Answered(records'[i])
    BY <1>2, <1>5, <1>7, <1>9 DEF JobInv, Answered
  <2>4. asked[t] # 0
    BY <2>1, <1>2, SMT DEF Shape, OpenInvoke, Ids
  <2>5. phase'[t] = "busy" /\ t \in started' /\ hop'[t] # asked'[t] /\ hop'[t] = 0
    BY <2>1, <2>4, <1>2, <1>7, <1>9
  <2>6. JobInv(t)'
    BY <2>2, <2>3, <2>5, BusyJob
  <2> QED BY <2>6, <1>5, <1>6 DEF IInv
<1>10. CASE phase[t] = "accepted"
  <2>1. \A i \in Ids(t)' : Done(records'[i])
    BY <1>2, <1>5, <1>10 DEF JobInv, Done
  <2>2. phase'[t] = "accepted" /\ asked'[t] = 0 /\ hop'[t] = 0
    BY <1>2, <1>7, <1>10 DEF JobInv
  <2>3. JobInv(t)'
    BY <2>1, <2>2, AcceptedJob
  <2> QED BY <2>3, <1>5, <1>6 DEF IInv
<1> QED BY <1>5, <1>6, <1>8, <1>9, <1>10 DEF IInv

\* and a report is an exchange that is answered at once; the last is the verdict.
LEMMA ReportInv ==
    ASSUME ExchangesAssumption, IInv, NEW t \in Job, NEW says \in {"running", "done", "failed"},
           Report(t, says)
    PROVE  IInv'
<1> DEFINE r == Exchange(t, "job_update", Target[t], Target[t], says)
           n == last + 1
           recs == Opened(r)
<1>1. r \in State /\ r.job = t /\ r.cmd = "job_update" /\ r.says = says /\ ~Done(r) /\ Shape /\ JobInv(t)
  BY DEF Exchange, State, Done, IInv, ExchangesAssumption
<1>2. /\ phase[t] = "accepted" /\ hop[t] = 0 /\ asked' = asked /\ hop' = hop
      /\ phase' = [phase EXCEPT ![t] = IF says = "running" THEN "accepted" ELSE "ended"]
  BY DEF Report
<1>3. /\ phase'[t] = (IF says = "running" THEN "accepted" ELSE "ended")
      /\ asked'[t] = 0 /\ hop'[t] = 0
      /\ \A u \in Job \ {t} : phase'[u] = phase[u] /\ asked'[u] = asked[u] /\ hop'[u] = hop[u]
      /\ phase' \in [Job -> {"new", "waiting", "busy", "accepted", "ended"}]
  BY <1>1, <1>2 DEF Shape, JobInv
<1>4. \A i \in Ids(t) : Done(records[i])
  <2>1. \A i \in Ids(t) : i # 0
    BY <1>1, SMT DEF Shape, Ids
  <2> QED BY <2>1, <1>1, <1>2 DEF JobInv
<1>5. CASE Ids(t) = {} /\ UNCHANGED <<records, started, last>>
  <2>1. Shape' /\ Ids(t)' = {}
    BY <1>1, <1>2, <1>3, <1>5 DEF Shape, Ids
  <2>2. ASSUME NEW u \in Job, u # t PROVE JobInv(u)'
    <3>1. Keeps(u)
      BY <1>3, <1>5, <2>2 DEF Keeps, Ids
    <3> QED BY <3>1, <1>1, KeptJob DEF IInv
  <2>3. JobInv(t)'
    BY <2>1, <1>3 DEF JobInv, Over
  <2> QED BY <2>1, <2>2, <2>3 DEF IInv
<1>6. CASE /\ last < MaxExchanges /\ last' = last + 1
           /\ records' = [Kept(recs) EXCEPT ![n].response = "ok"] /\ started' = Stamps(recs)
  <2> HIDE DEF r
  <2>1. Kept(recs) \in [DOMAIN Kept(recs) -> State] /\ n \in DOMAIN Kept(recs) /\ Kept(recs)[n] = r
    BY <1>1, Trim
  <2>2. /\ DOMAIN records' = DOMAIN Kept(recs) /\ records' \in [DOMAIN records' -> State]
        /\ \A i \in DOMAIN records' : i # n => records'[i] = Kept(recs)[i]
        /\ records'[n] = [r EXCEPT !.response = "ok"]
    BY <2>1, <1>6 DEF State
  <2>3. /\ records'[n].job = t /\ records'[n].cmd = "job_update" /\ records'[n].says = says
        /\ Done(records'[n])
    BY <2>2, <1>1 DEF Done, State
  <2>4. /\ \A u \in Job \ {t} : JobInv(u)'
        /\ DOMAIN records' \subseteq 1 .. last' /\ last' \in 0 .. MaxExchanges /\ started' \subseteq Job
        /\ n \in Ids(t)' /\ \A i \in Ids(t) : i < n /\ i \in Nat
        /\ \A i \in Ids(t)' : i # n => i \in Ids(t) /\ records'[i] = records[i]
    BY <1>1, <1>3, <1>6, <2>2, <2>3, OpeningStep
  <2>5. Shape'
    <3>1. asked' \in [Job -> 0 .. last'] /\ hop' \in [Job -> 0 .. last']
      BY <1>1, <1>2, <1>6, SMT DEF Shape
    <3> QED BY <3>1, <1>3, <2>2, <2>4 DEF Shape
  <2>6. \A i \in Ids(t)' : Done(records'[i])
    BY <1>4, <2>3, <2>4
  <2>7. \A i \in Ids(t)' : i <= n
    BY <1>1, <2>4, SMT DEF Shape
  <2> PICK j : j = n
    OBVIOUS
  <2>8. says # "running" => Verdict(t, j)'
    BY <2>3, <2>4, <2>7 DEF Verdict
  <2>9. says # "running" => Over(t)'
    BY <2>4, <2>6, <2>7, <2>8 DEF Over
  <2>10. JobInv(t)'
    BY <1>3, <2>6, <2>9 DEF JobInv
  <2> QED BY <2>4, <2>5, <2>10 DEF IInv
<1> QED BY <1>5, <1>6 DEF Report

\* The invariant is inductive.
LEMMA Inductive == ASSUME ExchangesAssumption, IInv, [Next]_vars PROVE IInv'
<1>1. CASE UNCHANGED vars
  <2>1. UNCHANGED <<records, started, last, phase, asked, hop>>
    BY <1>1 DEF vars
  <2>2. Shape'
    BY <2>1 DEF IInv, Shape
  <2>3. ASSUME NEW u \in Job PROVE JobInv(u)'
    <3>1. Keeps(u)
      BY <2>1 DEF Keeps, Ids
    <3> QED BY <3>1, KeptJob DEF IInv
  <2> QED BY <2>2, <2>3 DEF IInv
<1>2. ASSUME NEW t \in Job, AdmitTimeout(t) PROVE IInv'
  <2>1. phase[t] = "waiting" /\ hop[t] = 0
    BY <1>2 DEF AdmitTimeout, IInv, JobInv
  <2> QED BY <2>1, <1>2, AnswerInv DEF AdmitTimeout
<1>3. ASSUME NEW t \in Job, Respond(t) PROVE IInv'
  BY <1>3, AnswerInv DEF Respond
<1> QED BY <1>1, <1>2, <1>3, InvokeInv, StartInv, HopOutInv, HopBackInv, ReportInv DEF Next

\* So it holds throughout.
LEMMA Invariant == ASSUME ExchangesAssumption PROVE Spec => []IInv
BY InitInv, Inductive, PTL DEF Spec

------------------------------------------------------------------------------
\* Min and Max, where they are known.
LEMMA MinOf ==
    ASSUME NEW S \in SUBSET Nat, NEW m \in S, \A x \in S : m <= x
    PROVE  Min(S) = m
<1>1. \A x \in S : (\A y \in S : x <= y) => x = m
  OBVIOUS
<1> QED BY <1>1 DEF Min

\* Dually.
LEMMA MaxOf ==
    ASSUME NEW S \in SUBSET Nat, NEW m \in S, \A x \in S : x <= m
    PROVE  Max(S) = m
<1>1. \A x \in S : (\A y \in S : x >= y) => x = m
  OBVIOUS
<1> QED BY <1>1 DEF Max

\* A nonempty set of numbers has a least one, and Min chooses it.
LEMMA MinLeast ==
    ASSUME NEW S \in SUBSET Nat, S # {}
    PROVE  Min(S) \in S /\ \A x \in S : Min(S) <= x
<1>1. PICK m \in S : \A x \in S : ~ (<<x, m>> \in OpToRel(<, Nat))
  BY NatLessThanWellFounded, WFMin
<1>2. \A x \in S : ~(x < m)
  BY <1>1, Zenon DEF OpToRel
<1>3. \A x \in S : m <= x
  BY <1>2
<1> QED BY <1>3, MinOf

------------------------------------------------------------------------------
\* Every variable has its type, and an answer finds its exchange, still open,
\* however long it took and however often the store was trimmed
\* (trimLocked, Store.Complete).
THEOREM LateAnswersLand == ASSUME ExchangesAssumption PROVE Spec => []AnswersLand
<1>1. IInv => AnswersLand
  <2> SUFFICES ASSUME IInv PROVE AnswersLand
    OBVIOUS
  <2>1. TypeOK
    BY DEF IInv, Shape, TypeOK
  <2>2. ASSUME NEW t \in Job, NEW i \in {asked[t], hop[t]} \ {0}
        PROVE  OpenInvoke(t, i)
    BY DEF IInv, Shape, JobInv, Asking
  <2> QED BY <2>1, <2>2 DEF AnswersLand, OpenInvoke, Ids
<1> QED BY <1>1, Invariant, PTL

\* While its caller waits a job is what it is, queued or running, whatever of it
\* was trimmed (Store.Job, handleJobStatus).
THEOREM CallersAreToldTrue == ASSUME ExchangesAssumption PROVE Spec => []WaitedForStands
<1>1. ASSUME IInv, NEW t \in Job, Asking(t)
      PROVE  JobState(t) = IF t \in started THEN "running" ELSE "queued"
  <2>1. asked[t] \in Ids(t) /\ ~Done(records[asked[t]]) /\ Ids(t) \subseteq Nat
    BY <1>1, SMT DEF Asking, OpenInvoke, IInv, Shape, Ids
  <2>2. {i \in Ids(t) : records[i].cmd = "job_update"} = {} /\ {i \in Ids(t) : records[i].cmd = "invoke"} = Ids(t)
    BY <1>1 DEF Asking
  <2>3. Reported(t) = "none"
    BY <2>2 DEF Reported
  <2>4. Origin(t) = asked[t]
    <3>1. Min(Ids(t)) = asked[t]
      BY <1>1, <2>1, MinOf DEF Asking
    <3> QED BY <2>2, <3>1 DEF Origin
  <2>5. records[Origin(t)].response = "none"
    BY <2>1, <2>4 DEF Done
  <2> QED BY <2>1, <2>3, <2>5 DEF JobState
<1>2. IInv => WaitedForStands
  <2> SUFFICES ASSUME IInv, NEW t \in Job
               PROVE  /\ phase[t] = "waiting" => JobStatus(t) = [state |-> "queued",  started |-> FALSE]
                      /\ phase[t] = "busy"    => JobStatus(t) = [state |-> "running", started |-> TRUE]
    BY DEF WaitedForStands
  <2>1. JobInv(t)
    BY DEF IInv
  <2>2. phase[t] = "waiting" => JobState(t) = "queued" /\ t \notin started
    BY <2>1, <1>1 DEF JobInv
  <2>3. phase[t] = "busy" => JobState(t) = "running" /\ t \in started
    BY <2>1, <1>1 DEF JobInv
  <2>4. JobState(t) # "none" => JobStatus(t) = [state |-> JobState(t), started |-> t \in started]
    BY Zenon DEF JobStatus
  <2>5. "queued" # "none" /\ "running" # "none"
    OBVIOUS
  <2>6. /\ t \notin started => (t \in started) = FALSE
        /\ t \in started => (t \in started) = TRUE
    OBVIOUS
  <2> QED BY <2>2, <2>3, <2>4, <2>5, <2>6, Zenon
<1> QED BY <1>2, Invariant, PTL

\* A job that has ended is never seen to wait or to run again: it is terminal, or
\* forgotten (Store.Job, foldUpdate, trimLocked).
THEOREM EndedForGood == ASSUME ExchangesAssumption PROVE Spec => []EndStands
<1>1. ASSUME IInv, NEW t \in Job, Over(t), Ids(t) # {}
      PROVE  JobState(t) \in {"done", "failed"}
  <2> DEFINE reports == {i \in Ids(t) : records[i].cmd = "job_update"}
  <2>1. Ids(t) \subseteq Nat
    BY <1>1, SMT DEF IInv, Shape, Ids
  <2>2. CASE \A i \in Ids(t) : Answered(records[i])
    <3>1. reports = {} /\ {i \in Ids(t) : records[i].cmd = "invoke"} = Ids(t)
      BY <2>2 DEF Answered
    <3>2. Reported(t) = "none" /\ Origin(t) \in Ids(t)
      BY <3>1, <2>1, <1>1, MinLeast DEF Reported, Origin
    <3>3. records[Origin(t)].response \in {"ok", "error"}
      BY <3>2, <2>2 DEF Answered
    <3> QED BY <3>2, <3>3, <1>1 DEF JobState
  <2>3. CASE \A i \in Ids(t) : Done(records[i]) /\ \E j \in Ids(t) : i <= j /\ Verdict(t, j)
    <3>1. PICK j \in Ids(t) : Verdict(t, j)
      BY <2>3, <1>1
    <3>2. Max(reports) = j /\ reports # {}
      BY <3>1, <2>1, MaxOf DEF Verdict
    <3>3. Reported(t) \in {"done", "failed"}
      BY <3>1, <3>2 DEF Reported, Verdict
    <3> QED BY <3>3, <1>1 DEF JobState
  <2> QED BY <2>2, <2>3, <1>1 DEF Over
<1>2. ASSUME NEW t \in Job, Ids(t) = {} PROVE JobState(t) = "none"
  BY <1>2 DEF JobState
<1>3. IInv => EndStands
  BY <1>1, <1>2 DEF IInv, JobInv, EndStands
<1> QED BY <1>3, Invariant, PTL

------------------------------------------------------------------------------
\* A trim brings the store back under its cap, or leaves nothing that is answered:
\* what comes before the oldest answered exchange it keeps is what it had to evict.
LEMMA TrimBound ==
    ASSUME ExchangesAssumption, Shape, NEW r \in State, NEW kept, kept = Kept(Opened(r))
    PROVE  /\ IsFiniteSet(DOMAIN kept)
           /\ \/ Cardinality(DOMAIN kept) < 2 * Cap
              \/ \A i \in DOMAIN kept : ~Done(kept[i])
<1> DEFINE recs == Opened(r)
           done == {i \in DOMAIN recs : Done(recs[i])}
           excess == Cardinality(DOMAIN recs) - Cap
           upto(i) == {k \in done : k < i}
<1>1. DOMAIN recs \subseteq 1 .. last + 1 /\ last \in Nat
  BY SMT DEF Shape, Opened, ExchangesAssumption
<1>2. IsFiniteSet(DOMAIN recs)
  <2>1. IsFiniteSet(1 .. last + 1)
    BY <1>1, FS_Interval
  <2> QED BY <1>1, <2>1, FS_Subset
<1>3. Cardinality(DOMAIN recs) \in Nat /\ Cap \in Nat /\ Cap > 0
  BY <1>2, FS_CardinalityType DEF ExchangesAssumption
<1>4. CASE ~Full(recs)
  <2>1. kept = recs
    BY <1>4 DEF Kept
  <2>2. Cardinality(DOMAIN recs) < 2 * Cap
    BY <1>3, <1>4 DEF Full
  <2> HIDE DEF recs
  <2> QED BY <2>1, <2>2, <1>2
<1>5. CASE Full(recs)
  <2>1. DOMAIN kept = DOMAIN recs \ Old(recs) /\ \A i \in DOMAIN kept : kept[i] = recs[i]
    BY <1>5 DEF Kept
  <2>2. Old(recs) = {i \in done : Cardinality(upto(i)) < excess}
    BY DEF Old
  <2> HIDE DEF recs
  <2>3. IsFiniteSet(DOMAIN kept)
    BY <2>1, <1>2, FS_Subset
  <2>4. CASE done \subseteq Old(recs)
    BY <2>1, <2>3, <2>4
  <2>5. CASE done \ Old(recs) # {}
    <3> DEFINE i == Min(done \ Old(recs))
    <3>1. done \subseteq Nat
      BY <1>1
    <3>2. i \in done \ Old(recs)
      BY <3>1, <2>5, MinLeast
    <3>3. \A k \in done \ Old(recs) : i <= k
      BY <3>1, <2>5, MinLeast
    <3> HIDE DEF i
    <3>4. upto(i) \subseteq Old(recs) /\ Old(recs) \subseteq DOMAIN recs
      <4>1. ASSUME NEW k \in upto(i) PROVE k \in Old(recs)
        BY <3>1, <3>2, <3>3
      <4> QED BY <4>1, <2>2
    <3>5. IsFiniteSet(Old(recs)) /\ Cardinality(upto(i)) <= Cardinality(Old(recs))
      BY <3>4, <1>2, FS_Subset
    <3>6. Cardinality(Old(recs)) \in Nat /\ Cardinality(upto(i)) \in Nat
      BY <3>4, <3>5, FS_Subset, FS_CardinalityType
    <3>7. Cardinality(upto(i)) >= excess
      BY <3>2, <3>6, <2>2, <1>3
    <3>8. Cardinality(DOMAIN kept) = Cardinality(DOMAIN recs) - Cardinality(Old(recs))
      <4>1. DOMAIN recs \cap Old(recs) = Old(recs)
        BY <3>4
      <4> QED BY <4>1, <2>1, <1>2, FS_Difference
    <3>9. Cardinality(DOMAIN kept) < 2 * Cap
      <4> HIDE DEF upto
      <4> QED BY <3>5, <3>6, <3>7, <3>8, <1>3
    <3> QED BY <3>9, <2>3
  <2> QED BY <2>4, <2>5
<1> QED BY <1>4, <1>5

\* The store stays under twice its cap, or holds nothing but open exchanges and the
\* newest (trimLocked).
THEOREM StoreIsBounded == ASSUME ExchangesAssumption PROVE Spec => Bounded
<1> DEFINE opens == {i \in DOMAIN records : ~Done(records[i])}
           bound == Max({2 * Cap, Cardinality(opens) + 2})
<1>1. ASSUME NEW a \in Nat, NEW b \in Nat PROVE Max({a, b}) \in Nat /\ Max({a, b}) >= a /\ Max({a, b}) >= b
  <2>1. CASE a <= b
    <3>1. Max({a, b}) = b
      BY <2>1, MaxOf
    <3> QED BY <2>1, <3>1
  <2>2. CASE b <= a
    <3>1. Max({a, b}) = a
      BY <2>2, MaxOf
    <3> QED BY <2>2, <3>1
  <2> QED BY <2>1, <2>2
<1>2. ASSUME IInv, NEW r \in State, ~Done(r), DOMAIN records' = DOMAIN Kept(Opened(r))
      PROVE  Cardinality(DOMAIN records') < bound
  <2> DEFINE n == last + 1
             kept == Kept(Opened(r))
             left == DOMAIN records' \ {n}
  <2>1. IsFiniteSet(DOMAIN records') /\ Cardinality(DOMAIN records') \in Nat /\ Cap \in Nat
    BY <1>2, TrimBound, FS_CardinalityType DEF IInv, ExchangesAssumption
  <2>2. IsFiniteSet(opens) /\ Cardinality(opens) \in Nat
    <3>1. opens \subseteq 1 .. last /\ last \in Nat
      BY <1>2, SMT DEF IInv, Shape, ExchangesAssumption
    <3>2. IsFiniteSet(1 .. last)
      BY <3>1, FS_Interval
    <3> QED BY <3>1, <3>2, FS_Subset, FS_CardinalityType
  <2>3. bound >= 2 * Cap /\ bound >= Cardinality(opens) + 2 /\ bound \in Nat
    <3> HIDE DEF opens
    <3>1. 2 * Cap \in Nat /\ Cardinality(opens) + 2 \in Nat
      BY <2>1, <2>2
    <3> QED BY <3>1, <1>1
  <2>4. CASE Cardinality(DOMAIN kept) < 2 * Cap
    <3> HIDE DEF bound
    <3> QED BY <2>1, <2>3, <2>4, <1>2
  <2>5. CASE \A i \in DOMAIN kept : ~Done(kept[i])
    <3>1. \A i \in DOMAIN kept : i # n => i \in DOMAIN records /\ kept[i] = records[i]
      BY <1>2, Trim DEF IInv
    <3>2. left \subseteq opens
      BY <1>2, <2>5, <3>1
    <3>3. Cardinality(left) <= Cardinality(opens) /\ Cardinality(left) \in Nat
      BY <3>2, <2>2, FS_Subset, FS_CardinalityType
    <3>4. Cardinality(left) = IF n \in DOMAIN records' THEN Cardinality(DOMAIN records') - 1
                              ELSE Cardinality(DOMAIN records')
      BY <2>1, FS_RemoveElement
    <3> HIDE DEF bound, opens, left, n
    <3> QED BY <2>1, <2>2, <2>3, <3>3, <3>4
  <2> QED BY <2>4, <2>5, <1>2, TrimBound DEF IInv
<1>3. ASSUME IInv, [Next]_vars, last' # last
      PROVE  \E r \in State : ~Done(r) /\ DOMAIN records' = DOMAIN Kept(Opened(r))
  <2>1. PICK t \in Job : \/ Invoke(t) \/ HopOut(t) \/ \E says \in {"running", "done", "failed"} : Report(t, says)
    BY <1>3 DEF Next, vars, Start, AdmitTimeout, Respond, Answer, HopBack
  <2>2. CASE Invoke(t)
    <3>1. PICK r \in State : ~Done(r) /\ Open(r)
      BY <2>2 DEF Invoke, Exchange, State, Done, ExchangesAssumption
    <3> QED BY <3>1 DEF Open
  <2>3. CASE HopOut(t)
    <3>1. PICK r \in State : ~Done(r) /\ Open(r)
      BY <2>3 DEF HopOut, Exchange, State, Done, ExchangesAssumption
    <3> QED BY <3>1 DEF Open
  <2>4. ASSUME NEW says \in {"running", "done", "failed"}, Report(t, says)
        PROVE  \E r \in State : ~Done(r) /\ DOMAIN records' = DOMAIN Kept(Opened(r))
    <3> DEFINE q == Exchange(t, "job_update", Target[t], Target[t], says)
    <3>1. q \in State /\ ~Done(q)
      BY DEF Exchange, State, Done, ExchangesAssumption
    <3>2. records' = [Kept(Opened(q)) EXCEPT ![last + 1].response = "ok"]
      BY <2>4, <1>3 DEF Report
    <3> HIDE DEF q
    <3>3. PICK r \in State : r = q
      BY <3>1
    <3> QED BY <3>1, <3>2, <3>3
  <2> QED BY <2>1, <2>2, <2>3, <2>4
<1> HIDE DEF bound
<1>4. IInv /\ [Next]_vars => [last' # last => Cardinality(DOMAIN records') < bound]_vars
  BY <1>2, <1>3
<1> QED BY <1>4, Invariant, PTL DEF Spec, Bounded, bound

\* The surfaces draw one boundary (replJobsSurvey, replJobsFocus, ownsExchange).
THEOREM OneBoundary == ASSUME ExchangesAssumption PROVE Spec => []SameBoundary
<1>1. ASSUME NEW t \in Job PROVE JobState(t) # "none" <=> Ids(t) # {}
  BY DEF JobState
<1>2. ASSUME NEW t \in Job, NEW i \in Ids(t) PROVE records[i].job = t /\ i \in DOMAIN records
  BY DEF Ids
<1>3. SameBoundary
  BY <1>1, <1>2 DEF SameBoundary, JobsSurvey, Jobs, JobsFocus, JobMessages, MessagesFocus, Messages, Owns, Lookup
<1> QED BY <1>3, PTL
==============================================================================
