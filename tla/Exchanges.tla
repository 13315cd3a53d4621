----------------------------- MODULE Exchanges -----------------------------
(***************************************************************************)
(* The messages store (internal/messages) and what is read from it: the     *)
(* state of the jobs, the job and the message surfaces (internal/system),   *)
(* job_status.                                                              *)
(*                                                                         *)
(* An exchange is a request and its response.  "A job is not stored": it is *)
(* the exchanges that share its token, folded on demand.  The store is      *)
(* trimmed, so that what is derived may change when nothing has happened.   *)
(* Which queued job is started is Broker's question: here any may be.       *)
(***************************************************************************)
EXTENDS Naturals, FiniteSets, FiniteSetsExt

CONSTANTS
    Job,              \* job tokens
    Async, Calling,   \* those whose capability is async; those that call another module
    Module, System,   \* the modules; core itself, one of them
    Target,           \* Target[t]: the module of the capability t invokes
    HopTarget,        \* HopTarget[t]: the module it calls
    Cap,              \* maxRecords
    MaxExchanges      \* bound: exchanges that are opened

ASSUME ExchangesAssumption ==
    /\ Async \subseteq Job /\ Calling \subseteq Job /\ System \in Module
    /\ Target \in [Job -> Module] /\ HopTarget \in [Job -> Module]
    /\ Cap \in Nat \ {0} /\ MaxExchanges \in Nat

VARIABLES
    records,          \* records[i]: the i-th exchange that was opened, while it is kept
    started,          \* the tokens with a promotion stamp
    last,             \* how many have been opened
    phase,            \* phase[t]: where the work of the job really is
    asked, hop        \* the exchanges the caller and the handler of t wait for, or 0

vars == <<records, started, last, phase, asked, hop>>

------------------------------------------------------------------------------
Done(r) == r.response # "none"

\* mutant: the oldest go, answered or not
Old_open(recs) ==
    LET excess == Cardinality(DOMAIN recs) - Cap
    IN  {i \in DOMAIN recs : Cardinality({k \in DOMAIN recs : k < i}) < excess}

\* mutant: eviction stops at the oldest exchange that is still open
Old_blocked(recs) ==
    LET excess == Cardinality(DOMAIN recs) - Cap
    IN  {i \in DOMAIN recs : \A k \in DOMAIN recs : k <= i => Done(recs[k]) /\ Cardinality({j \in DOMAIN recs : j < i}) < excess}

\* trimLocked: the oldest of the answered exchanges, as many as are too many.
Old(recs) ==
    LET done   == {i \in DOMAIN recs : Done(recs[i])}
        excess == Cardinality(DOMAIN recs) - Cap
    IN  {i \in done : Cardinality({k \in done : k < i}) < excess}

Full(recs) == Cardinality(DOMAIN recs) >= 2 * Cap

Kept(recs) == IF Full(recs) THEN [i \in DOMAIN recs \ Old(recs) |-> recs[i]] ELSE recs

\* mutant: the stamp goes with the first exchange of its job that is evicted
Stamps_evicted(recs) ==
    IF Full(recs) THEN started \ {recs[i].job : i \in Old(recs)} ELSE started

\* A stamp goes with the last exchange of its job.
Stamps(recs) ==
    IF Full(recs) THEN {t \in started : \E i \in DOMAIN recs \ Old(recs) : recs[i].job = t} ELSE started

Exchange(t, cmd, module, caller, says) ==
    [job |-> t, cmd |-> cmd, module |-> module, caller |-> caller, says |-> says, response |-> "none"]

\* Store.Open: the records with r, before they are trimmed.
Opened(r) == [i \in DOMAIN records \cup {last + 1} |-> IF i = last + 1 THEN r ELSE records[i]]

Open(r) ==
    /\ last < MaxExchanges                             \* bound
    /\ last' = last + 1
    /\ records' = Kept(Opened(r))
    /\ started' = Stamps(Opened(r))

\* Store.Lookup: whether it finds i.
Lookup(i) == i \in DOMAIN records

\* Store.Complete: an orphan response is dropped.
Complete(i, response) ==
    records' = IF Lookup(i) THEN [records EXCEPT ![i].response = response] ELSE records

------------------------------------------------------------------------------
\* Store.ByToken.
Ids(t) == {i \in DOMAIN records : records[i].job = t}

\* The originating exchange: the first invoke, or else the first of all.
Origin(t) ==
    LET invokes == {i \in Ids(t) : records[i].cmd = "invoke"}
    IN  Min(IF invokes # {} THEN invokes ELSE Ids(t))

\* mutant: the first report counts
Reported_first(t) ==
    LET reports == {i \in Ids(t) : records[i].cmd = "job_update"}
    IN  IF reports = {} THEN "none" ELSE records[Min(reports)].says

\* foldUpdate: the last report counts.
Reported(t) ==
    LET reports == {i \in Ids(t) : records[i].cmd = "job_update"}
    IN  IF reports = {} THEN "none" ELSE records[Max(reports)].says

\* Store.Job: an accepted job is not terminal.
JobState(t) ==
    IF Ids(t) = {}                                THEN "none"
    ELSE IF Reported(t) \in {"done", "failed"}    THEN Reported(t)
    ELSE IF records[Origin(t)].response = "error" THEN "failed"
    ELSE IF records[Origin(t)].response = "ok"    THEN "done"
    ELSE IF t \in started                         THEN "running"
    ELSE "queued"

Owner(t) == records[Origin(t)].module

\* handleJobStatus: what a caller who asks is told; started_at goes with the stamp.
JobStatus(t) ==
    IF JobState(t) = "none" THEN "JOB_NOT_FOUND" ELSE [state |-> JobState(t), started |-> t \in started]

\* Store.Jobs, for caller c: core sees them all.
Jobs(c) == {t \in Job : JobState(t) # "none" /\ c \in {System, Owner(t)}}

\* replJobsSurvey: the rows caller c sees, with those of core or without.
JobsSurvey(c, showSystem) == {t \in Jobs(c) : showSystem \/ Owner(t) # System}

\* replJobsFocus: whether it finds t.
JobsFocus(c, t) == JobState(t) # "none" /\ c \in {System, Owner(t)}

\* mutant: an exchange belongs to the module it was routed to
Owns_routed(c, i) == c \in {System, records[i].module}

\* ownsExchange: an exchange belongs to the module of its job.
Owns(c, i) == c \in {System, Owner(records[i].job)}

\* replMessagesSurvey: of one job, or of them all.
JobMessages(c, t) == IF Ids(t) # {} /\ c \in {System, Owner(t)} THEN Ids(t) ELSE {}
Messages(c)       == {i \in DOMAIN records : Owns(c, i)}

\* replMessagesFocus: whether it finds i.
MessagesFocus(c, i) == Lookup(i) /\ Owns(c, i)

------------------------------------------------------------------------------
\* handleInvoke: the originating exchange enters the store before it is queued.
Invoke(t) ==
    /\ phase[t] = "new"
    /\ Open(Exchange(t, "invoke", Target[t], System, "none"))
    /\ phase' = [phase EXCEPT ![t] = "waiting"]
    /\ asked' = [asked EXCEPT ![t] = last + 1]
    /\ UNCHANGED hop

\* Store.Start.
Start(t) ==
    /\ phase[t] = "waiting"
    /\ started' = started \cup {t}
    /\ phase' = [phase EXCEPT ![t] = "busy"]
    /\ UNCHANGED <<records, last, asked, hop>>

\* The caller is answered.
Answer(t, response) ==
    /\ Complete(asked[t], response)
    /\ asked' = [asked EXCEPT ![t] = 0]
    /\ phase' = [phase EXCEPT ![t] = IF response = "accepted" THEN "accepted" ELSE "ended"]
    /\ UNCHANGED <<started, last, hop>>

AdmitTimeout(t) == phase[t] = "waiting" /\ Answer(t, "error")

Respond(t) ==
    /\ phase[t] = "busy" /\ hop[t] = 0
    /\ \/ t \notin Async /\ Answer(t, "ok")
       \/ t \in Async /\ Answer(t, "accepted")
       \/ Answer(t, "error")

\* The handler calls another module, under the token of its job.
HopOut(t) ==
    /\ t \in Calling /\ phase[t] \in {"busy", "accepted"} /\ hop[t] = 0
    /\ Open(Exchange(t, "invoke", HopTarget[t], Target[t], "none"))
    /\ hop' = [hop EXCEPT ![t] = last + 1]
    /\ UNCHANGED <<phase, asked>>

HopBack(t) ==
    /\ hop[t] # 0
    /\ \E response \in {"ok", "error"} : Complete(hop[t], response)
    /\ hop' = [hop EXCEPT ![t] = 0]
    /\ UNCHANGED <<started, last, phase, asked>>

\* handleJobUpdate: a report is an exchange of its own, answered at once; of a job
\* with no exchange left it is refused.
Report(t, says) ==
    /\ phase[t] = "accepted" /\ hop[t] = 0
    /\ \/ /\ Ids(t) # {}
          /\ last < MaxExchanges                       \* bound
          /\ last' = last + 1
          /\ LET recs == Opened(Exchange(t, "job_update", Target[t], Target[t], says))
             IN  /\ records' = [Kept(recs) EXCEPT ![last + 1].response = "ok"]
                 /\ started' = Stamps(recs)
       \/ Ids(t) = {} /\ UNCHANGED <<records, started, last>>
    /\ phase' = [phase EXCEPT ![t] = IF says = "running" THEN "accepted" ELSE "ended"]
    /\ UNCHANGED <<asked, hop>>

Init ==
    /\ records = [i \in {} |-> Exchange(0, "", System, System, "")]
    /\ started = {} /\ last = 0
    /\ phase = [t \in Job |-> "new"]
    /\ asked = [t \in Job |-> 0] /\ hop = [t \in Job |-> 0]

Next == \E t \in Job :
    \/ Invoke(t) \/ Start(t) \/ AdmitTimeout(t) \/ Respond(t) \/ HopOut(t) \/ HopBack(t)
    \/ \E says \in {"running", "done", "failed"} : Report(t, says)

Spec == Init /\ [][Next]_vars

------------------------------------------------------------------------------
\* Every variable has its type.
TypeOK ==
    /\ DOMAIN records \subseteq 1 .. last /\ last \in 0 .. MaxExchanges
    /\ started \subseteq Job
    /\ phase \in [Job -> {"new", "waiting", "busy", "accepted", "ended"}]
    /\ asked \in [Job -> 0 .. last] /\ hop \in [Job -> 0 .. last]

\* Every variable has its type, and "non-terminal (open) records are never
\* evicted": an answer finds its exchange, still open, however long it took and
\* however often the store was trimmed.
AnswersLand ==
    /\ TypeOK
    /\ \A t \in Job : \A i \in {asked[t], hop[t]} \ {0} : i \in DOMAIN records /\ ~Done(records[i])

\* While its caller waits a job is what it is, queued or running, whatever of it
\* was trimmed: the queue does not start it twice, nor lose its footprint, and who
\* asks for its status is told so.
WaitedForStands ==
    \A t \in Job :
        /\ phase[t] = "waiting" => JobStatus(t) = [state |-> "queued",  started |-> FALSE]
        /\ phase[t] = "busy"    => JobStatus(t) = [state |-> "running", started |-> TRUE]

\* A job that has ended is never seen to wait or to run again, and so holds no
\* module again: it is terminal, or forgotten.
EndStands == \A t \in Job : phase[t] = "ended" => JobState(t) \in {"done", "failed", "none"}

\* An async job runs until it is reported done or failed ("an accepted async ack
\* leaves it running", Store.Job).  TLC refutes it (README, section 5).
RunsUntilReported == \A t \in Job : phase[t] = "accepted" => JobState(t) = "running"

\* The store stays under twice its cap, or holds nothing but open exchanges and
\* the newest.
Bounded ==
    [][last' # last =>
          Cardinality(DOMAIN records') <
              Max({2 * Cap, Cardinality({i \in DOMAIN records : ~Done(records[i])}) + 2})]_vars

\* The surfaces draw one boundary: the jobs a caller is shown are those it can
\* open and whose exchanges it is shown, and those are the ones it can open.
SameBoundary == \A c \in Module, t \in Job :
    /\ t \in JobsSurvey(c, TRUE) <=> JobsFocus(c, t)
    /\ JobsFocus(c, t) <=> JobMessages(c, t) # {}
    /\ \A i \in Ids(t) : MessagesFocus(c, i) <=> i \in JobMessages(c, t)
    /\ JobMessages(c, t) = Messages(c) \cap Ids(t)
=============================================================================
