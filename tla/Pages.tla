------------------------------- MODULE Pages -------------------------------
(***************************************************************************)
(* The page stack of the REPL (internal/repl): boot at the bottom, home,   *)
(* a survey of one mod, the focus of one subject, and the flow of an       *)
(* action through CONFIRM, RUNNING and RESULT.                             *)
(*                                                                         *)
(* A page never changes the stack itself.  It returns a Cmd, which runs in *)
(* a goroutine and posts a message, and so do the loads and the calls it   *)
(* starts: flight holds what is under way, and it arrives in any order.    *)
(* A key that is pressed while a page change is in flight is handled by    *)
(* the page that is still on top.                                          *)
(*                                                                         *)
(* Facets are one more filter; drills, which push a survey of the same     *)
(* shape, and the cursor of the home page are left out.                    *)
(***************************************************************************)
EXTENDS Naturals, Sequences, FiniteSets, SequencesExt, Bags

CONSTANTS
    Subject,          \* ids of the survey's rows
    Matching,         \* those the filter, when there is one, lets through
    Listings,         \* what a survey may answer: sequences of subjects
    Patient,          \* the operator waits for the page change before the next key
    MaxFlight         \* bound: a key is pressed with fewer messages under way

ASSUME PagesAssumption ==
    Matching \subseteq Subject /\ Listings \subseteq Seq(Subject) /\ Patient \in BOOLEAN /\ MaxFlight \in Nat

NoSubject == "none"

VARIABLES
    stack,               \* root.pages; the last one is on top
    flight,              \* messages under way to root.Update: a bag
    rows, modLoading     \* of the mod: its Subjects, and whether a load is awaited

vars == <<stack, flight, rows, modLoading>>

------------------------------------------------------------------------------
Boot == [kind |-> "boot"]
Home == [kind |-> "home"]

\* The cursor is on the filter, on a row, or on the exit row; key is selectedKey.
SurveyPage == [kind |-> "survey", on |-> "row", row |-> 1, key |-> NoSubject, filter |-> FALSE]

\* offers: whose actions the page shows.
FocusPage(s) == [kind |-> "focus", subject |-> s, loading |-> TRUE, err |-> FALSE, offers |-> NoSubject]

\* pendingAction.  For the properties it also keeps whose action it is, and the
\* depth and the kind of the page it comes from.
Pending(act, s, owner) ==
    [act |-> act, subject |-> s, owner |-> owner, confirm |-> FALSE,
     depth |-> Len(stack), from |-> Last(stack).kind]

ActionPage(kind, pa) == [kind |-> kind, pending |-> pa]
CascadePage(pa)      == ActionPage("cascade", pa)
ResultPage(pa, of)   == [kind |-> "result", pending |-> pa, of |-> of]

Top == Last(stack)
SetTop(p) == Append(Front(stack), p)

Send(m)     == flight' = flight (+) SetToBag({m})
Handled(m)  == flight (-) SetToBag({m})
IsNav(m)    == m.to \in {"push", "pop", "replace"}
Push(p)     == [to |-> "push", page |-> p]
Replace(p)  == [to |-> "replace", page |-> p]
Pop         == [to |-> "pop"]
Survey      == [to |-> "survey"]
JobUpdate   == [to |-> "job"]
Focus(s)    == [to |-> "focus", subject |-> s]
Done(pa)    == [to |-> "done", pending |-> pa]

\* visibleSubjectsAll: of rs, what the filter of page p lets through.
Visible(rs, p) == IF p.filter THEN SelectSeq(rs, LAMBDA s : s \in Matching) ELSE rs

\* subjectKeyAt.
KeyAt(p, r) == LET vis == Visible(rows, p) IN IF r \in DOMAIN vis THEN vis[r] ELSE NoSubject

------------------------------------------------------------------------------
\* What a page starts when it is entered (Init): the message that will come back.
Started(p) ==
    CASE p.kind \in {"home", "survey"} -> SetToBag({Survey})
      [] p.kind = "focus"              -> SetToBag({Focus(p.subject)})
      [] p.kind = "running"            -> SetToBag({Done(p.pending)})
      [] OTHER                         -> EmptyBag

\* beginLoad, for the pages that load the mod; left is what is still in flight.
Enter(p, left) ==
    /\ flight' = left (+) Started(p)
    /\ IF p.kind \in {"home", "survey"} THEN rows' = <<>> /\ modLoading' = TRUE ELSE UNCHANGED <<rows, modLoading>>

\* mutant: the page is put in place, and what it starts is not run
ReceiveReplace_inert(m) ==
    /\ m.to = "replace"
    /\ stack' = SetTop(m.page) /\ flight' = Handled(m)
    /\ UNCHANGED <<rows, modLoading>>

ReceiveReplace(m) ==
    /\ m.to = "replace"
    /\ stack' = SetTop(m.page)
    /\ Enter(m.page, Handled(m))

ReceivePush(m) ==
    /\ m.to = "push"
    /\ stack' = Append(stack, m.page)
    /\ Enter(m.page, Handled(m))

\* becameActiveMsg: the page below is on top again and reads its data anew.
Revive(p, left) ==
    /\ stack' = Append(Front(Front(stack)), IF p.kind = "focus" THEN FocusPage(p.subject) ELSE p)
    /\ Enter(p, left)

ReceivePop(m) ==
    /\ m.to = "pop"
    /\ \/ Len(stack) > 1 /\ Revive(stack[Len(stack) - 1], Handled(m))
       \/ Len(stack) = 1 /\ flight' = Handled(m) /\ UNCHANGED <<stack, rows, modLoading>>

\* resolveSelectedKey: where the selected subject stands in all of rs; 0: nowhere.
RowOf(key, rs) == IF key \in Range(rs) THEN CHOOSE i \in DOMAIN rs : rs[i] = key ELSE 0

\* The survey page finds its selected subject again, filter or not.
Reselected(p, rs) ==
    IF p.kind # "survey" \/ p.key = NoSubject THEN p
    ELSE IF RowOf(p.key, rs) > 0 THEN [p EXCEPT !.row = RowOf(p.key, rs)]
    ELSE [p EXCEPT !.row = 1, !.key = NoSubject]

\* applyLoad, then the page on top: rows, an error, or the acceptance of a job.
\* The survey page looks for its selection in the rows there are by then.
ReceiveSurvey(m) ==
    /\ m = Survey
    /\ \/ /\ rows' \in Listings
          /\ modLoading' = FALSE /\ flight' = Handled(m)
       \/ /\ modLoading' = FALSE /\ flight' = Handled(m)
          /\ UNCHANGED rows
       \/ /\ flight' = Handled(m) (+) SetToBag({JobUpdate})
          /\ UNCHANGED <<rows, modLoading>>
    /\ stack' = SetTop(Reselected(Top, rows'))

\* ingest: the end of an accepted load, whichever page is on top.
ReceiveJobUpdate(m) ==
    /\ m = JobUpdate
    /\ flight' = Handled(m)
    /\ modLoading' = FALSE
    /\ rows' \in Listings \cup {rows}
    /\ UNCHANGED stack

\* applyFocusLoaded, on the page on top if it is a focus page: nothing says for
\* which subject the answer is.  Any other page ignores it.
ReceiveFocus(m) ==
    /\ m.to = "focus"
    /\ flight' = Handled(m)
    /\ \/ Top.kind = "focus" /\ stack' = SetTop([Top EXCEPT !.loading = FALSE, !.offers = m.subject, !.err = FALSE])
       \/ Top.kind = "focus" /\ stack' = SetTop([Top EXCEPT !.loading = FALSE, !.err = TRUE])
       \/ Top.kind # "focus" /\ UNCHANGED stack
    /\ UNCHANGED <<rows, modLoading>>

\* frameActionDoneMsg: the running page morphs into the result, or into the
\* question whether the providers are to be activated too.
ReceiveDone(m) ==
    /\ m.to = "done"
    /\ \/ /\ Top.kind = "running"
          /\ flight' = Handled(m) (+) SetToBag({Replace(ResultPage(Top.pending, m.pending))})
       \/ /\ Top.kind = "running" /\ m.pending.act = "safe" /\ ~m.pending.confirm
          /\ flight' = Handled(m) (+) SetToBag({Replace(CascadePage(Top.pending))})
       \/ /\ Top.kind # "running"
          /\ flight' = Handled(m)
    /\ UNCHANGED <<stack, rows, modLoading>>

Receive ==
    \E m \in BagToSet(flight) :
        \/ ReceivePush(m) \/ ReceivePop(m) \/ ReceiveReplace(m)
        \/ ReceiveSurvey(m) \/ ReceiveJobUpdate(m) \/ ReceiveFocus(m) \/ ReceiveDone(m)

------------------------------------------------------------------------------
\* Keys.  The operator can press one at any time, or, if patient, when the page
\* that the last one called for is there.
Press(kind) ==
    /\ Top.kind = kind
    /\ BagCardinality(flight) < MaxFlight                          \* bound
    /\ Patient => \A m \in BagToSet(flight) : ~IsNav(m)

\* A key that makes the page send m and changes nothing.
Sends(m) == Send(m) /\ UNCHANGED <<stack, rows, modLoading>>

\* A key that changes the page on top and nothing else.
Turns(p) == stack' = SetTop(p) /\ UNCHANGED <<flight, rows, modLoading>>

\* mutant: esc leaves the home page too
HomeKey_esc ==
    /\ Press("home")
    /\ \/ Sends(Push(SurveyPage))
       \/ Enter(Home, flight) /\ UNCHANGED stack
       \/ Sends(Pop)

\* home: enter on a mod, refresh.
HomeKey ==
    /\ Press("home")
    /\ \/ Sends(Push(SurveyPage))
       \/ Enter(Home, flight) /\ UNCHANGED stack

\* survey: typing, clearing, moving.  The row keeps its number when the filter
\* changes what the number stands for.
SurveyMove ==
    /\ Press("survey")
    /\ \/ Turns([Top EXCEPT !.filter = TRUE, !.on = "filter"])
       \/ Top.filter /\ Turns([Top EXCEPT !.filter = FALSE])
       \/ Top.on = "filter" /\ Turns([Top EXCEPT !.on = "row", !.row = 1, !.key = KeyAt(Top, 1)])
       \/ \E r \in DOMAIN Visible(rows, Top) : Turns([Top EXCEPT !.on = "row", !.row = r, !.key = KeyAt(Top, r)])
       \/ Top.on = "row" /\ Turns([Top EXCEPT !.on = "exit"])

\* triggerAction: straight to RUNNING, unless the action is destructive.
Trigger(pa) == Sends(Push(ActionPage(IF pa.act = "danger" THEN "confirm" ELSE "running", pa)))

\* enter on a row: its focus, or one of its inline actions.
SurveyEnter ==
    /\ Press("survey") /\ Top.on = "row" /\ Top.row \in DOMAIN Visible(rows, Top)
    /\ LET s == Visible(rows, Top)[Top.row]
       IN  \/ /\ stack' = SetTop([Top EXCEPT !.key = s])
              /\ Send(Push(FocusPage(s)))
              /\ UNCHANGED <<rows, modLoading>>
           \/ \E act \in {"safe", "danger"} : Trigger(Pending(act, s, s))

\* esc without a filter, and enter on the exit row: home, refresh, or an action on
\* all that is visible, which is always confirmed (triggerSurveyAction); alt+r.
SurveyExit ==
    /\ Press("survey")
    /\ \/ ~Top.filter /\ Sends(Pop)
       \/ Top.on = "exit" /\ Sends(Pop)
       \/ Top.on = "exit" /\ Enter(Top, flight) /\ UNCHANGED stack
       \/ Enter(Top, flight) /\ stack' = SetTop([Top EXCEPT !.filter = FALSE])
       \/ /\ Top.on = "exit" /\ Visible(rows, Top) # <<>>
          /\ Sends(Push(ActionPage("confirm", Pending("bulk", NoSubject, NoSubject))))

\* focus: esc always, the action row once it is loaded; back is its first field.
FocusKey ==
    /\ Press("focus")
    /\ \/ Sends(Pop)
       \/ /\ ~Top.loading /\ ~Top.err
          /\ \E act \in {"safe", "danger"} : Trigger(Pending(act, Top.subject, Top.offers))

\* confirm: no goes back, yes takes the place of the question.
ConfirmKey ==
    /\ Press("confirm")
    /\ \/ Sends(Pop)
       \/ Sends(Replace(ActionPage("running", Top.pending)))

\* cascade: likewise, and yes goes along with the call (withConfirm).
CascadeKey ==
    /\ Press("cascade")
    /\ \/ Sends(Pop)
       \/ Sends(Replace(ActionPage("running", [Top.pending EXCEPT !.confirm = TRUE])))

\* mutant: esc leaves the running page
ResultKey_early ==
    /\ Press("result") \/ Press("running")
    /\ Sends(Pop)

\* result: esc, enter.  The running page has no key.
ResultKey ==
    /\ Press("result")
    /\ Sends(Pop)

Key ==
    \/ HomeKey \/ SurveyMove \/ SurveyEnter \/ SurveyExit \/ FocusKey
    \/ ConfirmKey \/ CascadeKey \/ ResultKey

------------------------------------------------------------------------------
\* boot has finished: its page stays below the home page.
Init ==
    /\ stack = <<Boot>>
    /\ flight = SetToBag({Push(Home)})
    /\ rows = <<>> /\ modLoading = FALSE

Next == Receive \/ Key

\* The Update loop handles what it is sent, and every call returns (Broker).
Spec == Init /\ [][Next]_vars /\ WF_vars(Receive)

------------------------------------------------------------------------------
Kinds == [i \in DOMAIN stack |-> stack[i].kind]

\* The pages on which an action is under way.
Acting == {"confirm", "cascade", "running", "result"}

\* Every variable has its type.
TypeOK ==
    /\ Range(Kinds) \subseteq {"boot", "home", "survey", "focus"} \cup Acting
    /\ \A m \in BagToSet(flight) : m.to \in {"push", "pop", "replace", "survey", "job", "focus", "done"}
    /\ IsABag(flight)
    /\ rows \in Listings \cup {<<>>} /\ modLoading \in BOOLEAN

\* Boot and home below everything, then at most one survey, one focus and one page
\* of an action.
Descends ==
    \E survey \in {<<>>, <<"survey">>}, focus \in {<<>>, <<"focus">>},
       act \in {<<>>} \cup {<<k>> : k \in Acting} :
        /\ Kinds = <<"boot", "home">> \o survey \o focus \o act
        /\ focus # <<>> \/ act # <<>> => survey # <<>>

\* Every variable has its type, and the stack is a path down from home, or the home
\* page is under way.  Whatever is popped, the operator is on a page that answers to
\* keys, or on RUNNING.
IsAPath ==
    /\ TypeOK
    /\ \/ stack = <<Boot>> /\ BagToSet(flight) = {Push(Home)}
       \/ Descends

\* "popping the result lands on the page that originated the action"
\* (page_confirm.go): below a page of an action is the page it was started from.
ReturnsToOrigin ==
    \A i \in DOMAIN stack : stack[i].kind \in Acting =>
        /\ i = stack[i].pending.depth + 1
        /\ stack[i - 1].kind = stack[i].pending.from

\* A result is the outcome of the action the page names: the answer carries no
\* mark of whose it is, so there must never be two in flight.
ResultIsOwn == \A i \in DOMAIN stack : stack[i].kind = "result" => stack[i].of = stack[i].pending

\* Where an action's page stands and what it shows are both its own.
ResultLands == ReturnsToOrigin /\ ResultIsOwn

\* Popping the focus discards its state cleanly (data.go): the actions a focus page
\* offers are those of its own subject.  TLC refutes it (README, section 5).
OffersItsOwn == \A i \in DOMAIN stack :
    stack[i].kind = "focus" /\ stack[i].offers # NoSubject => stack[i].offers = stack[i].subject

\* RUNNING has no key but quit: it must end by itself.
RunningResolves == (Top.kind = "running") ~> (Top.kind # "running")

\* A focus page gets its answer, or is left, however often it becomes active again.
FocusResolves == (Top.kind = "focus" /\ Top.loading) ~> ~(Top.kind = "focus" /\ Top.loading)

\* No page waits for ever.
EveryPageResolves == RunningResolves /\ FocusResolves
==============================================================================
