---------------------------- MODULE Correlation ----------------------------
(***************************************************************************)
(* How an answer finds its way back to the screen: the surface orchestrator *)
(* (internal/surface), which mints a token and fires a capability, and the *)
(* REPL's own (internal/repl/orchestrator.go), which correlates the stream *)
(* of job updates with the loads it is waiting for.                        *)
(*                                                                         *)
(* One mod is modelled: a survey with one column that is filled by a       *)
(* capability of its own.  A token is a number; they are minted in order.  *)
(* Each call runs in a goroutine and answers inline, with an error, or     *)
(* with the acknowledgement of an async job, whose reports come over the   *)
(* stream, before the answer or after it.  Messages of different           *)
(* goroutines reach the Update loop in any order.                          *)
(***************************************************************************)
EXTENDS Naturals, Sequences, FiniteSets, SequencesExt

CONSTANTS
    MaxLoads,         \* bound: surveys that are loaded
    MaxTokens,        \* bound: calls that are made, surveys and fills
    UpdatesBuffer,    \* depth of the stream (64)
    ParkedCap         \* distinct tokens the parking area holds (64)

ASSUME CorrelationAssumption ==
    MaxLoads \in Nat /\ MaxTokens \in Nat /\ UpdatesBuffer \in Nat \ {0} /\ ParkedCap \in Nat \ {0}

Token == 1 .. MaxTokens
None == 0

VARIABLES
    minted,           \* tokens minted so far
    kind,             \* of a token: what its call loads, survey or cells
    call,             \* of a token: calling, answered (a message waits), folded
    answer,           \* the answer: inline, error or accepted
    job,              \* of an accepted call: its job, running or ended
    stream,           \* job updates on their way to the Update loop
    known, cellKnown, \* tokens whose accept has been folded, and not their end
    parked, order,    \* updates nobody claims yet, by token; tokens in that order
    loading, err,     \* of the mod
    shows,            \* the load whose rows the mod shows, or None
    cells,            \* the filled column of those rows
    superseded        \* history: tokens that forget has dropped

calls       == <<minted, kind, call, answer>>
mod         == <<loading, err, shows, cells>>
inbox       == <<known, cellKnown, parked, order>>
surfaceVars == <<calls, job, stream, inbox, mod, superseded>>

IsTerminal(s) == s \in {"done", "failed"}

------------------------------------------------------------------------------
\* Records of the Update loop's working state, so that a handler that makes
\* several changes can be written as a chain of functions, in the code's order.

Screen == [loading |-> loading, err |-> err, shows |-> shows, cells |-> cells]

\* projectSurvey with rows.
Projected(s, t) == [loading |-> FALSE, err |-> FALSE, shows |-> t, cells |-> "plain"]

\* mutant: the error is shown and the spinner stays
Failed_spinning(s) == [s EXCEPT !.err = TRUE]

\* projectSurvey with an error, and a failed job: what is shown stays.
Failed(s) == [s EXCEPT !.loading = FALSE, !.err = TRUE]

\* fillCellColumns and applyCellError: no rows, nothing to paint.
Painted(s, how) == IF s.shows = None THEN s ELSE [s EXCEPT !.cells = how]

\* apply and applyCell: one update of token t, a load's or a fill's.
Apply(s, t, state) ==
    CASE state = "done" -> Projected(s, t) [] state = "failed" -> Failed(s) [] OTHER -> s

ApplyCell(s, state) ==
    CASE state = "done" -> Painted(s, "filled") [] state = "failed" -> Painted(s, "error") [] OTHER -> s

Applied(s, t, state) == IF kind[t] = "survey" THEN Apply(s, t, state) ELSE ApplyCell(s, state)

\* Every update in the order it was parked.
Replay(s, t) ==
    LET replay[n \in 0 .. Len(parked[t])] ==
            IF n = 0 THEN s ELSE Applied(replay[n - 1], t, parked[t][n])
    IN  replay[Len(parked[t])]

\* The survey has resolved cleanly and has rows: one fill per distinct column.
WantsFill(s) == ~s.loading /\ ~s.err /\ s.shows # None

Show(s) ==
    /\ loading' = s.loading /\ err' = s.err
    /\ shows' = s.shows /\ cells' = s.cells

\* A call is fired: a token is minted and the goroutine is under way.
Fire(k) ==
    /\ minted' = minted + 1
    /\ kind' = [kind EXCEPT ![minted + 1] = k]

\* afterSurvey: shows s, and fires the fill when there is something to fill.
\* newCall is what the handler itself has changed of call.  Bound: the fills past
\* MaxTokens are answered before anything else happens.
AfterSurvey(s, newCall) ==
    \/ /\ ~WantsFill(s) \/ minted = MaxTokens
       /\ Show(IF WantsFill(s) THEN Painted(s, "filled") ELSE s)
       /\ call' = newCall
       /\ UNCHANGED <<minted, kind>>
    \/ /\ WantsFill(s) /\ minted < MaxTokens
       /\ Fire("cells")
       /\ call' = [newCall EXCEPT ![minted + 1] = "calling"]
       /\ Show([s EXCEPT !.cells = "pending"])

------------------------------------------------------------------------------
\* Outbound.

Loads == Cardinality({t \in Token : kind[t] = "survey"})

\* mutant: the load before stays correlated
Forget_nothing ==
    /\ superseded' = superseded \cup known \cup cellKnown
    /\ UNCHANGED <<known, cellKnown>>

\* forget: what was being waited for is not waited for any more.
Forget ==
    /\ superseded' = superseded \cup known \cup cellKnown
    /\ known' = {} /\ cellKnown' = {}

\* beginLoad: any page entry, refresh or return to a page.
BeginLoad ==
    /\ Loads < MaxLoads /\ minted < MaxTokens         \* bounds
    /\ Forget
    /\ Fire("survey")
    /\ call' = [call EXCEPT ![minted + 1] = "calling"]
    /\ loading' = TRUE /\ shows' = None /\ cells' = "plain"
    /\ UNCHANGED <<answer, job, stream, parked, order, err>>

\* The module takes the call async; its job may report at once.
Accept(t) ==
    /\ call[t] = "calling" /\ answer[t] = "none"
    /\ answer' = [answer EXCEPT ![t] = "accepted"]
    /\ job' = [job EXCEPT ![t] = "running"]
    /\ UNCHANGED <<minted, kind, call, stream, inbox, mod, superseded>>

\* LoadSurvey, FillCells: the call returns, and its Cmd posts the message.
Answer(t) ==
    /\ call[t] = "calling"
    /\ IF answer[t] = "accepted"
       THEN UNCHANGED answer
       ELSE \E a \in {"inline", "error"} : answer' = [answer EXCEPT ![t] = a]
    /\ call' = [call EXCEPT ![t] = "answered"]
    /\ UNCHANGED <<minted, kind, job, stream, inbox, mod, superseded>>

\* Deliver: a report of a job goes into the stream, or, when it is full, is lost.
Deliver(t, state) ==
    /\ job[t] = "running"
    /\ job' = IF IsTerminal(state) THEN [job EXCEPT ![t] = "ended"] ELSE job
    /\ stream' = IF Len(stream) < UpdatesBuffer
                 THEN Append(stream, [token |-> t, state |-> state]) ELSE stream
    /\ UNCHANGED <<calls, inbox, mod, superseded>>

\* One report of work under way stands for any number: the face ignores it,
\* unless it overtakes the answer and has to be parked.
Progress(t) ==
    /\ call[t] = "calling" /\ parked[t] = <<>>            \* bound
    /\ ~\E i \in DOMAIN stream : stream[i].token = t      \* bound
    /\ Deliver(t, "running")

------------------------------------------------------------------------------
\* Inbound: the handlers of the Update loop.

\* park, with the eviction of the oldest token when there are too many.
Park(t, state) ==
    LET fifo  == IF parked[t] = <<>> THEN Append(order, t) ELSE order
        over  == Len(fifo) > ParkedCap
        evict == Head(fifo)
        kept  == IF over THEN [parked EXCEPT ![evict] = <<>>] ELSE parked
    IN  /\ order' = IF over THEN Tail(fifo) ELSE fifo
        /\ parked' = [kept EXCEPT ![t] = Append(@, state)]

\* mutant: the parked updates are replayed and stay parked
Unpark_kept(t) == UNCHANGED <<parked, order>>

Unpark(t) ==
    /\ parked' = [parked EXCEPT ![t] = <<>>]
    /\ order' = RemoveFirst(order, t)

\* register, registerCell: the token's owner is known until its end is.
Register(t) ==
    LET ended == \E i \in DOMAIN parked[t] : IsTerminal(parked[t][i]) IN
    /\ IF kind[t] = "survey"
       THEN known' = (IF ended THEN known \ {t} ELSE known \cup {t}) /\ UNCHANGED cellKnown
       ELSE cellKnown' = (IF ended THEN cellKnown \ {t} ELSE cellKnown \cup {t}) /\ UNCHANGED known
    /\ Unpark(t)

\* applyLoad.
ApplyLoad(t) ==
    /\ call[t] = "answered" /\ kind[t] = "survey"
    /\ LET folded == [call EXCEPT ![t] = "folded"] IN
       \/ /\ answer[t] = "accepted"
          /\ Register(t)
          /\ AfterSurvey(Replay(Screen, t), folded)
       \/ /\ answer[t] = "inline"
          /\ AfterSurvey(Projected(Screen, t), folded)
          /\ UNCHANGED inbox
       \/ /\ answer[t] = "error"
          /\ AfterSurvey(Failed(Screen), folded)
          /\ UNCHANGED inbox
    /\ UNCHANGED <<answer, job, stream, superseded>>

\* applyCellLoad.
ApplyCellLoad(t) ==
    /\ call[t] = "answered" /\ kind[t] = "cells"
    /\ call' = [call EXCEPT ![t] = "folded"]
    /\ \/ answer[t] = "accepted" /\ Register(t) /\ Show(Replay(Screen, t))
       \/ answer[t] = "inline" /\ Show(Painted(Screen, "filled")) /\ UNCHANGED inbox
       \/ answer[t] = "error" /\ Show(Painted(Screen, "error")) /\ UNCHANGED inbox
    /\ UNCHANGED <<minted, kind, answer, job, stream, superseded>>

\* listen: the update the loop is handed next; root asks again after each.
Listened == Head(stream)

\* ingest.
Ingest ==
    /\ stream # <<>>
    /\ stream' = Tail(stream)
    /\ LET t == Listened.token
           state == Listened.state
       IN  \/ /\ t \in known
              /\ known' = IF IsTerminal(state) THEN known \ {t} ELSE known
              /\ IF IsTerminal(state)
                 THEN AfterSurvey(Apply(Screen, t, state), call)
                 ELSE Show(Apply(Screen, t, state)) /\ UNCHANGED <<minted, kind, call>>
              /\ UNCHANGED <<cellKnown, parked, order>>
           \/ /\ t \in cellKnown
              /\ cellKnown' = IF IsTerminal(state) THEN cellKnown \ {t} ELSE cellKnown
              /\ Show(ApplyCell(Screen, state))
              /\ UNCHANGED <<minted, kind, call, known, parked, order>>
           \/ /\ t \notin known \cup cellKnown
              /\ Park(t, state)
              /\ UNCHANGED <<minted, kind, call, known, cellKnown, mod>>
    /\ UNCHANGED <<answer, job, superseded>>

------------------------------------------------------------------------------
SurfaceInit ==
    /\ minted = 0
    /\ kind = [t \in Token |-> "none"] /\ call = [t \in Token |-> "none"]
    /\ answer = [t \in Token |-> "none"] /\ job = [t \in Token |-> "none"]
    /\ stream = <<>> /\ known = {} /\ cellKnown = {}
    /\ parked = [t \in Token |-> <<>>] /\ order = <<>>
    /\ loading = FALSE /\ err = FALSE /\ shows = None /\ cells = "plain"
    /\ superseded = {}

Update == Ingest \/ \E t \in Token : ApplyLoad(t) \/ ApplyCellLoad(t)

SurfaceNext ==
    \/ BeginLoad \/ Update
    \/ \E t \in Token :
           \/ Accept(t) \/ Answer(t) \/ Progress(t)
           \/ Deliver(t, "done") \/ Deliver(t, "failed")

\* Calls have a deadline, jobs end (Broker), and the Update loop handles what
\* it is sent: root re-arms the listener after every update.
Fairness ==
    /\ WF_surfaceVars(Ingest)
    /\ \A t \in Token :
           /\ WF_surfaceVars(Answer(t)) /\ WF_surfaceVars(ApplyLoad(t)) /\ WF_surfaceVars(ApplyCellLoad(t))
           /\ WF_surfaceVars(Deliver(t, "done") \/ Deliver(t, "failed"))

SurfaceSpec == SurfaceInit /\ [][SurfaceNext]_surfaceVars /\ Fairness

------------------------------------------------------------------------------
\* Every variable has its type.
SurfaceTypeOK ==
    /\ minted \in 0 .. MaxTokens
    /\ kind \in [Token -> {"none", "survey", "cells"}]
    /\ call \in [Token -> {"none", "calling", "answered", "folded"}]
    /\ answer \in [Token -> {"none", "inline", "error", "accepted"}]
    /\ job \in [Token -> {"none", "running", "ended"}]
    /\ stream \in Seq([token : Token, state : {"running", "done", "failed"}])
    /\ {known, cellKnown, superseded} \subseteq SUBSET Token
    /\ parked \in [Token -> Seq({"running", "done", "failed"})] /\ order \in Seq(Token)
    /\ loading \in BOOLEAN /\ err \in BOOLEAN /\ shows \in Token \cup {None}
    /\ cells \in {"plain", "pending", "filled", "error"}

\* The report that ends t's job is still to reach the Update loop.
EndToCome(t) ==
    job[t] = "running" \/ \E i \in DOMAIN stream : stream[i].token = t /\ IsTerminal(stream[i].state)

\* Every variable has its type, and correlation is ephemeral: a token that is
\* waited for is one whose end is still to come, and none of its updates lies in
\* the parking area, where it would never be looked for again.
WaitsForAnEnd ==
    /\ SurfaceTypeOK
    /\ \A t \in known \cup cellKnown : EndToCome(t) /\ parked[t] = <<>>

\* A load that was waited for when a fresh one superseded it never paints again:
\* forget makes its late terminal an orphan.
SupersededNeverPaints ==
    [][ \A t \in superseded : shows' = t => shows = t ]_surfaceVars

\* A survey that is loading resolves, to rows or to an error, whatever overtakes
\* what on the way.
LoadResolves == loading ~> ~loading

\* A spinner in a cell goes away: filled, failed or replaced.
CellsResolve == (cells = "pending") ~> (cells # "pending")

\* No spinner turns for ever.
SpinnersStop == LoadResolves /\ CellsResolve

\* When all calls, jobs and updates are through, the mod shows the newest load,
\* or that it failed: "rather than painting stale data onto the reload" (forget).
\* A load whose accept has not been folded is not in known, forget does not see
\* it, and its rows come after the newer ones.  TLC refutes it (README, section 5).
ShowsNewest ==
    (/\ \A t \in Token : call[t] \in {"none", "folded"} /\ job[t] # "running"
     /\ stream = <<>> /\ ~err /\ shows # None)
        => \A t \in Token : kind[t] = "survey" => shows >= t
==============================================================================
