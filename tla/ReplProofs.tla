----------------------------- MODULE ReplProofs -----------------------------
(***************************************************************************)
(* Proofs about the REPL: its page stack and the correlation of job        *)
(* reports with the loads that wait for them.                              *)
(*                                                                         *)
(* Pages, for any subjects, filters and answers and any number of messages *)
(* in flight, when the operator waits for each page change (Patient).  Of  *)
(* all that is in flight at most one message moves the pages, or will: a   *)
(* page change, or the answer RUNNING waits for.  MoveInv says so, and     *)
(* that it is meant for the page that is on top.  IInv is what every step  *)
(* keeps; IsAPath and ResultLands follow from it.                          *)
(*                                                                         *)
(* Correlation, for any number of calls.  A superseded load is one whose   *)
(* accept has been folded and that nobody waits for (TokenInv): it paints  *)
(* nothing.  That whatever is waited for still ends needs room (Roomy) for *)
(* the report a job sends next and for the update that is parked next;     *)
(* EndInv follows each end from the job to the stream, the parking area    *)
(* and the handler.  CountInv counts what the buffers hold, and so shows   *)
(* that buffers of a fitting depth (Deep) always have that room.           *)
(***************************************************************************)
EXTENDS Pages, Correlation, SequenceTheorems, FiniteSetTheorems, WellFoundedInduction, TLAPS

------------------------------------------------------------------------------
\* The page stack.

Moves(m) == IsNav(m) \/ m.to = "done"

\* One copy of m is in bag B, and nothing else there moves the pages.
Alone(B, m) ==
    /\ m \in DOMAIN B /\ B[m] = 1
    /\ \A n \in DOMAIN B : Moves(n) => n = m

Quiet(B) == \A n \in DOMAIN B : ~Moves(n)

\* The pages are a sequence, each of them with a kind and, on an action, a
\* pending action that knows where it came from.
IsPage(p) ==
    /\ "kind" \in DOMAIN p
    /\ p.kind \in {"boot", "home", "survey", "focus"} \cup Acting
    /\ p.kind \in Acting => {"depth", "from"} \subseteq DOMAIN p.pending

PageInv ==
    /\ stack \in Seq(Range(stack)) /\ stack # <<>>
    /\ \A i \in DOMAIN stack : IsPage(stack[i])

\* Which kinds of pages can be where.
PathInv ==
    /\ Len(stack) <= 5
    /\ stack[1] = Boot
    /\ Len(stack) >= 2 => stack[2].kind = "home"
    /\ Len(stack) >= 3 => stack[3].kind = "survey"
    /\ Len(stack) >= 4 => stack[4].kind \in {"focus"} \cup Acting
    /\ Len(stack) >= 5 => stack[4].kind = "focus" /\ stack[5].kind \in Acting

StackInv == PageInv /\ PathInv /\ ResultLands

\* What is in flight; nothing but the home page while boot is all there is.
Messages == {"push", "pop", "replace", "survey", "job", "focus", "done"}
IsFlight(B) == IsABag(B) /\ \A m \in DOMAIN B : m.to \in Messages
BootInv == Len(stack) = 1 => DOMAIN flight = {Push(Home)}
ModInv == rows \in Listings \cup {<<>>} /\ modLoading \in BOOLEAN

\* An action that is begun on the page on top.
BegunHere(p) ==
    /\ p.kind \in {"confirm", "running"}
    /\ p.pending.depth = Len(stack) /\ p.pending.from = Top.kind

FitsPush(p) ==
    \/ Top.kind = "boot" /\ p = Home
    \/ Top.kind = "home" /\ p.kind = "survey"
    \/ Top.kind = "survey" /\ p.kind = "focus"
    \/ Top.kind \in {"survey", "focus"} /\ BegunHere(p)

FitsReplace(p) ==
    /\ Top.kind \in {"confirm", "cascade", "running"} /\ p.kind \in Acting
    /\ p.pending.depth = Top.pending.depth /\ p.pending.from = Top.pending.from
    /\ p.kind = "result" => p.of = p.pending

\* What message m is about to do suits the page on top.
Fits(m) ==
    /\ m.to = "push" => IsPage(m.page) /\ FitsPush(m.page)
    /\ m.to = "replace" => IsPage(m.page) /\ FitsReplace(m.page)
    /\ m.to = "pop" => Top.kind \in {"survey", "focus"} \cup Acting
    /\ m.to = "done" => Top.kind = "running" /\ m.pending = Top.pending

MoveInv == Quiet(flight) \/ \E m : Moves(m) /\ Alone(flight, m) /\ Fits(m)

IInv == IsFlight(flight) /\ ModInv /\ StackInv /\ BootInv /\ MoveInv

------------------------------------------------------------------------------
(* Sequences.                                                               *)

LEMMA Below ==
    ASSUME NEW n \in Nat
    PROVE  /\ \A k \in 1 .. n : k # n => k \in 1 .. n - 1
           /\ \A k \in 1 .. n - 1 : k # n - 1 => k \in 1 .. n - 2
  OBVIOUS

LEMMA SeqOfIts == ASSUME NEW S, NEW s \in Seq(S) PROVE s \in Seq(Range(s))
  BY DEF Range

LEMMA Appended ==
    ASSUME NEW s, s \in Seq(Range(s)), NEW p
    PROVE  /\ Append(s, p) \in Seq(Range(Append(s, p))) /\ Append(s, p) # <<>>
           /\ Len(Append(s, p)) = Len(s) + 1
           /\ Append(s, p)[Len(s) + 1] = p
           /\ \A k \in 1 .. Len(s) : Append(s, p)[k] = s[k]
<1>1. s \in Seq(Range(s) \cup {p})
  BY DEF Range
<1>2. Append(s, p) \in Seq(Range(s) \cup {p})
  BY <1>1
<1>3. Append(s, p) \in Seq(Range(Append(s, p)))
  BY <1>2, SeqOfIts, Zenon
<1> QED BY <1>1, <1>2, <1>3

LEMMA Fronted ==
    ASSUME NEW s, s \in Seq(Range(s)), s # <<>>
    PROVE  /\ Front(s) \in Seq(Range(Front(s)))
           /\ Len(s) \in Nat /\ Len(s) >= 1 /\ Len(Front(s)) = Len(s) - 1
           /\ \A k \in 1 .. Len(s) - 1 : Front(s)[k] = s[k]
<1>1. Len(s) \in Nat /\ Len(s) >= 1
  OBVIOUS
<1>2. Front(s) \in Seq(Range(s))
  BY <1>1 DEF Front
<1>3. Front(s) \in Seq(Range(Front(s)))
  BY <1>2, SeqOfIts, Zenon
<1>4. Len(Front(s)) = Len(s) - 1 /\ \A k \in 1 .. Len(s) - 1 : Front(s)[k] = s[k]
  <2>1. s \in Seq(Range(s)) /\ Len(s) - 1 \in 0 .. Len(s)
    BY <1>1
  <2>2. Front(s) = SubSeq(s, 1, Len(s) - 1)
    BY DEF Front
  <2>3. Len(SubSeq(s, 1, Len(s) - 1)) = Len(s) - 1
    BY <1>1, <2>1
  <2>4. ASSUME NEW k \in 1 .. Len(s) - 1 PROVE SubSeq(s, 1, Len(s) - 1)[k] = s[k]
    BY <1>1, <2>1, <2>4
  <2> QED BY <2>2, <2>3, <2>4
<1> QED BY <1>1, <1>3, <1>4

\* The stack has a page on top, and setting it leaves those below.
LEMMA TopIs ==
    ASSUME PageInv
    PROVE  /\ Len(stack) \in Nat /\ Len(stack) >= 1 /\ DOMAIN stack = 1 .. Len(stack)
           /\ Top = stack[Len(stack)] /\ IsPage(Top)
<1>1. Len(stack) \in Nat /\ Len(stack) >= 1 /\ DOMAIN stack = 1 .. Len(stack)
  BY DEF PageInv
<1> QED BY <1>1 DEF PageInv, Top, Last

LEMMA TopSet ==
    ASSUME PageInv, NEW p
    PROVE  /\ SetTop(p) \in Seq(Range(SetTop(p))) /\ SetTop(p) # <<>>
           /\ Len(SetTop(p)) = Len(stack)
           /\ SetTop(p)[Len(stack)] = p
           /\ \A k \in 1 .. Len(stack) - 1 : SetTop(p)[k] = stack[k]
           /\ p = Top => SetTop(p) = stack
<1>1. /\ stack \in Seq(Range(stack)) /\ stack # <<>>
      /\ Len(stack) \in Nat /\ Len(stack) >= 1
  BY TopIs DEF PageInv
<1>2. /\ Front(stack) \in Seq(Range(Front(stack))) /\ Len(Front(stack)) = Len(stack) - 1
      /\ \A k \in 1 .. Len(stack) - 1 : Front(stack)[k] = stack[k]
  BY <1>1, Fronted
<1>3. /\ SetTop(p) \in Seq(Range(SetTop(p))) /\ SetTop(p) # <<>>
      /\ Len(SetTop(p)) = Len(stack)
      /\ SetTop(p)[Len(stack)] = p
      /\ \A k \in 1 .. Len(stack) - 1 : SetTop(p)[k] = stack[k]
  <2> DEFINE f == Front(stack)
  <2>1. f \in Seq(Range(f)) /\ Len(f) = Len(stack) - 1
        /\ \A k \in 1 .. Len(stack) - 1 : f[k] = stack[k]
    BY <1>2
  <2> HIDE DEF f
  <2>2. /\ Append(f, p) \in Seq(Range(Append(f, p))) /\ Append(f, p) # <<>>
        /\ Len(Append(f, p)) = Len(f) + 1
        /\ Append(f, p)[Len(f) + 1] = p
        /\ \A k \in 1 .. Len(f) : Append(f, p)[k] = f[k]
    BY <2>1, Appended
  <2>3. SetTop(p) = Append(f, p)
    BY DEF SetTop, f
  <2> QED BY <1>1, <2>1, <2>2, <2>3
<1>4. ASSUME p = Top PROVE SetTop(p) = stack
  <2>1. DOMAIN SetTop(p) = 1 .. Len(stack) /\ DOMAIN stack = 1 .. Len(stack)
    BY <1>1, <1>3
  <2>2. \A k \in 1 .. Len(stack) : SetTop(p)[k] = stack[k]
    BY <1>1, <1>3, <1>4, TopIs
  <2>3. /\ SetTop(p) = [k \in DOMAIN SetTop(p) |-> SetTop(p)[k]]
        /\ stack = [k \in DOMAIN stack |-> stack[k]]
    BY <1>1, <1>3
  <2> QED BY <2>1, <2>2, <2>3
<1> QED BY <1>3, <1>4

------------------------------------------------------------------------------
(* What a change of the stack keeps.                                        *)

\* A page is where its kind can be.
LEMMA Places ==
    ASSUME StackInv
    PROVE  /\ Top.kind = "boot" <=> Len(stack) = 1
           /\ Top.kind = "home" <=> Len(stack) = 2
           /\ Top.kind = "survey" <=> Len(stack) = 3
           /\ Top.kind = "focus" => Len(stack) = 4
           /\ Top.kind \in Acting => Len(stack) \in 4 .. 5
<1>1. /\ Len(stack) \in 1 .. 5 /\ Top = stack[Len(stack)]
      /\ stack[1].kind = "boot"
  BY TopIs, SMTT(20) DEF StackInv, PathInv, Boot
<1>2. Len(stack) = 1 \/ Len(stack) = 2 \/ Len(stack) = 3 \/ Len(stack) = 4 \/ Len(stack) = 5
  BY <1>1
<1>3. CASE Len(stack) = 1
  BY <1>1, <1>3 DEF Acting
<1>4. CASE Len(stack) = 2
  BY <1>1, <1>4 DEF StackInv, PathInv, Acting
<1>5. CASE Len(stack) = 3
  BY <1>1, <1>5 DEF StackInv, PathInv, Acting
<1>6. CASE Len(stack) = 4
  BY <1>1, <1>6 DEF StackInv, PathInv, Acting
<1>7. CASE Len(stack) = 5
  BY <1>1, <1>7 DEF StackInv, PathInv, Acting
<1> QED BY <1>2, <1>3, <1>4, <1>5, <1>6, <1>7

LEMMA Pushed ==
    ASSUME StackInv, NEW p, IsPage(p), FitsPush(p), stack' = Append(stack, p)
    PROVE  StackInv' /\ Len(stack)' = Len(stack) + 1 /\ Top' = p
<1>1. Len(stack) \in Nat /\ Len(stack) >= 1 /\ DOMAIN stack = 1 .. Len(stack)
  BY TopIs DEF StackInv
<1>2. /\ stack' \in Seq(Range(stack')) /\ stack' # <<>>
      /\ Len(stack') = Len(stack) + 1 /\ stack'[Len(stack) + 1] = p
      /\ \A k \in 1 .. Len(stack) : stack'[k] = stack[k]
  BY Appended DEF StackInv, PageInv
<1>3. DOMAIN stack' = 1 .. Len(stack) + 1
  BY <1>2
<1>4. Top' = p
  BY <1>1, <1>2 DEF Top, Last
<1>5. PageInv'
  BY <1>1, <1>2, <1>3 DEF PageInv, StackInv
<1>6. PathInv'
  <2>1. /\ PathInv
        /\ \/ Len(stack) = 1 /\ p.kind = "home"
           \/ Len(stack) = 2 /\ p.kind = "survey"
           \/ Len(stack) = 3 /\ p.kind \in {"focus"} \cup Acting
           \/ Len(stack) = 4 /\ stack[4].kind = "focus" /\ p.kind \in Acting
    BY <1>1, Places, TopIs, SMTT(20) DEF StackInv, FitsPush, BegunHere, Acting, Home
  <2>2. \A k \in 1 .. 4 : k <= Len(stack) => stack'[k] = stack[k]
    BY <1>1, <1>2
  <2> QED BY <1>1, <1>2, <2>1, <2>2 DEF PathInv
<1>7. ResultLands'
  <2>1. ReturnsToOrigin'
    <3> SUFFICES ASSUME NEW i \in 1 .. Len(stack) + 1, stack'[i].kind \in Acting
                 PROVE  /\ i = stack'[i].pending.depth + 1
                        /\ stack'[i - 1].kind = stack'[i].pending.from
      BY <1>3 DEF ReturnsToOrigin
    <3>1. CASE i = Len(stack) + 1
      BY <3>1, <1>1, <1>2, TopIs DEF FitsPush, BegunHere, Acting, Home, StackInv
    <3>2. CASE i # Len(stack) + 1
      <4>1. i \in 1 .. Len(stack) /\ stack'[i] = stack[i]
        BY <3>2, <1>1, <1>2
      <4>2. i # 1
        BY <4>1 DEF StackInv, PathInv, Boot, Acting
      <4>3. stack'[i - 1] = stack[i - 1]
        BY <4>1, <4>2, <1>1, <1>2
      <4> QED BY <4>1, <4>3, <1>1 DEF StackInv, ResultLands, ReturnsToOrigin
    <3> QED BY <3>1, <3>2
  <2>2. ResultIsOwn'
    BY <1>1, <1>2, <1>3 DEF ResultIsOwn, StackInv, ResultLands, FitsPush, BegunHere, Home
  <2> QED BY <2>1, <2>2 DEF ResultLands
<1> QED BY <1>2, <1>4, <1>5, <1>6, <1>7 DEF StackInv

\* The page on top becomes one that fits its place.
LEMMA Replaced ==
    ASSUME StackInv, NEW p, IsPage(p), stack' = SetTop(p),
           \/ FitsReplace(p)
           \/ p.kind = Top.kind /\ Top.kind \in {"home", "survey", "focus"}
    PROVE  StackInv' /\ Len(stack)' = Len(stack) /\ Top' = p
<1>1. /\ Len(stack) \in Nat /\ Len(stack) >= 1 /\ DOMAIN stack = 1 .. Len(stack)
      /\ Top = stack[Len(stack)]
  BY TopIs DEF StackInv
<1>2. /\ stack' \in Seq(Range(stack')) /\ stack' # <<>>
      /\ Len(stack') = Len(stack) /\ stack'[Len(stack)] = p
      /\ \A k \in 1 .. Len(stack) - 1 : stack'[k] = stack[k]
  BY TopSet DEF StackInv
<1>3. DOMAIN stack' = 1 .. Len(stack)
  BY <1>2
<1>4. Top' = p
  BY <1>1, <1>2 DEF Top, Last
<1>5. PageInv'
  BY <1>1, <1>2, <1>3 DEF PageInv, StackInv
<1>6. Len(stack) >= 2 /\ stack'[1] = stack[1]
  BY <1>1, <1>2, Places DEF FitsReplace, Acting
<1>7. PathInv'
  BY <1>1, <1>2, <1>6, Places DEF StackInv, PathInv, FitsReplace, Acting
<1>8. ResultLands'
  <2>1. ReturnsToOrigin'
    <3> SUFFICES ASSUME NEW i \in 1 .. Len(stack), stack'[i].kind \in Acting
                 PROVE  /\ i = stack'[i].pending.depth + 1
                        /\ stack'[i - 1].kind = stack'[i].pending.from
      BY <1>3 DEF ReturnsToOrigin
    <3>1. i # 1
      BY <1>6 DEF StackInv, PathInv, Boot, Acting
    <3>2. stack'[i - 1] = stack[i - 1]
      BY <3>1, <1>1, <1>2
    <3>3. CASE i = Len(stack)
      <4>1. Top.kind \in Acting /\ p.pending.depth = Top.pending.depth /\ p.pending.from = Top.pending.from
        BY <3>3, <1>2 DEF FitsReplace, Acting
      <4> QED BY <4>1, <3>2, <3>3, <1>1, <1>2 DEF StackInv, ResultLands, ReturnsToOrigin
    <3>4. CASE i # Len(stack)
      <4>0. i \in 1 .. Len(stack) - 1
        BY <3>4, <1>1, Below
      <4>1. i \in DOMAIN stack /\ stack'[i] = stack[i]
        BY <4>0, <1>1, <1>2
      <4> QED BY <4>1, <3>2 DEF StackInv, ResultLands, ReturnsToOrigin
    <3> QED BY <3>3, <3>4
  <2>2. ResultIsOwn'
    BY <1>1, <1>2, <1>3 DEF ResultIsOwn, StackInv, ResultLands, FitsReplace
  <2> QED BY <2>1, <2>2 DEF ResultLands
<1> QED BY <1>2, <1>4, <1>5, <1>7, <1>8 DEF StackInv

\* The page on top goes, and the one below is on top again.
LEMMA Popped ==
    ASSUME StackInv, Top.kind \in {"survey", "focus"} \cup Acting, NEW q, IsPage(q),
           q.kind = stack[Len(stack) - 1].kind, stack' = Append(Front(Front(stack)), q)
    PROVE  /\ StackInv' /\ Len(stack)' = Len(stack) - 1 /\ Top' = q
           /\ q.kind \in {"home", "survey", "focus"}
<1>1. /\ Len(stack) \in Nat /\ Len(stack) >= 3 /\ DOMAIN stack = 1 .. Len(stack)
      /\ Top = stack[Len(stack)]
  BY TopIs, Places DEF StackInv
<1> DEFINE f == Front(stack)  g == Front(Front(stack))
<1>2. /\ f \in Seq(Range(f)) /\ Len(f) = Len(stack) - 1
      /\ \A k \in 1 .. Len(stack) - 1 : f[k] = stack[k]
  BY <1>1, Fronted DEF StackInv, PageInv
<1>3. f # <<>>
  BY <1>1, <1>2
<1>4. g \in Seq(Range(g)) /\ Len(g) = Len(f) - 1 /\ \A k \in 1 .. Len(f) - 1 : g[k] = f[k]
  <2> HIDE DEF f
  <2>1. Front(f) \in Seq(Range(Front(f))) /\ Len(Front(f)) = Len(f) - 1
        /\ \A k \in 1 .. Len(f) - 1 : Front(f)[k] = f[k]
    BY <1>2, <1>3, Fronted
  <2> QED BY <2>1 DEF f
<1>5. /\ stack' \in Seq(Range(stack')) /\ stack' # <<>>
      /\ Len(stack') = Len(stack) - 1 /\ stack'[Len(stack) - 1] = q
      /\ \A k \in 1 .. Len(stack) - 2 : stack'[k] = stack[k]
  <2>1. stack' = Append(g, q)
    OBVIOUS
  <2> HIDE DEF f, g
  <2>2. /\ Append(g, q) \in Seq(Range(Append(g, q))) /\ Append(g, q) # <<>>
        /\ Len(Append(g, q)) = Len(g) + 1
        /\ Append(g, q)[Len(g) + 1] = q
        /\ \A k \in 1 .. Len(g) : Append(g, q)[k] = g[k]
    BY <1>4, Appended
  <2> QED BY <1>1, <1>2, <1>4, <2>1, <2>2
<1>6. DOMAIN stack' = 1 .. Len(stack) - 1
  BY <1>5
<1>7. Top' = q
  BY <1>1, <1>5 DEF Top, Last
<1> HIDE DEF f, g
<1>8. PageInv'
  <2>1. \A i \in 1 .. Len(stack) - 1 : IsPage(stack'[i])
    <3> SUFFICES ASSUME NEW i \in 1 .. Len(stack) - 1 PROVE IsPage(stack'[i])
      OBVIOUS
    <3>1. CASE i = Len(stack) - 1
      BY <3>1, <1>5
    <3>2. CASE i # Len(stack) - 1
      <4>1. i \in 1 .. Len(stack) - 2
        BY <3>2, <1>1, Below
      <4>2. stack'[i] = stack[i] /\ i \in DOMAIN stack
        BY <4>1, <1>1, <1>5
      <4> QED BY <4>2 DEF StackInv, PageInv
    <3> QED BY <3>1, <3>2
  <2> QED BY <2>1, <1>5, <1>6 DEF PageInv
<1>9. q.kind \in {"home", "survey", "focus"}
  BY <1>1, Places DEF StackInv, PathInv, Acting
<1>10. PathInv'
  BY <1>1, <1>5, Places DEF StackInv, PathInv, Acting
<1>11. ResultLands'
  <2>1. \A i \in 1 .. Len(stack) - 1 : stack'[i].kind = stack[i].kind
    BY <1>1, <1>5, SMTT(20)
  <2>2. ASSUME NEW i \in 1 .. Len(stack) - 1, stack'[i].kind \in Acting PROVE stack'[i] = stack[i]
    <3>1. i # Len(stack) - 1
      BY <2>2, <1>5, <1>9 DEF Acting
    <3>2. i \in 1 .. Len(stack) - 2
      BY <3>1, <1>1, Below
    <3> QED BY <3>2, <1>5
  <2>3. ReturnsToOrigin'
    <3> SUFFICES ASSUME NEW i \in 1 .. Len(stack) - 1, stack'[i].kind \in Acting
                 PROVE  /\ i = stack'[i].pending.depth + 1
                        /\ stack'[i - 1].kind = stack'[i].pending.from
      BY <1>6 DEF ReturnsToOrigin
    <3>1. i # 1
      BY <2>1, <1>1 DEF StackInv, PathInv, Boot, Acting
    <3>2. i \in DOMAIN stack /\ i - 1 \in 1 .. Len(stack) - 1
      BY <3>1, <1>1
    <3>3. stack'[i] = stack[i] /\ stack'[i - 1].kind = stack[i - 1].kind
      BY <3>2, <2>1, <2>2
    <3> QED BY <3>2, <3>3 DEF StackInv, ResultLands, ReturnsToOrigin
  <2>4. ResultIsOwn'
    <3> SUFFICES ASSUME NEW i \in 1 .. Len(stack) - 1, stack'[i].kind = "result"
                 PROVE  stack'[i].of = stack'[i].pending
      BY <1>6 DEF ResultIsOwn
    <3>1. i \in DOMAIN stack
      BY <1>1
    <3>2. stack'[i] = stack[i]
      BY <2>2 DEF Acting
    <3> QED BY <3>1, <3>2 DEF StackInv, ResultLands, ResultIsOwn
  <2> QED BY <2>3, <2>4 DEF ResultLands
<1> QED BY <1>5, <1>7, <1>8, <1>9, <1>10, <1>11 DEF StackInv

LEMMA StackStays == ASSUME StackInv, stack' = stack PROVE StackInv' /\ Len(stack)' = Len(stack) /\ Top' = Top
  BY DEF StackInv, PageInv, PathInv, ResultLands, ReturnsToOrigin, ResultIsOwn, Top
------------------------------------------------------------------------------
(* What is in flight.                                                       *)

LEMMA SentBag ==
    ASSUME NEW B, IsABag(B), NEW n
    PROVE  LET C == B (+) SetToBag({n}) IN
           /\ IsABag(C) /\ DOMAIN C = DOMAIN B \cup {n}
           /\ \A x \in DOMAIN B : x # n => C[x] = B[x]
           /\ n \notin DOMAIN B => C[n] = 1
  BY DEF IsABag, SetToBag, (+)

LEMMA NothingSent == ASSUME NEW B, IsABag(B) PROVE B (+) EmptyBag = B
  BY DEF IsABag, EmptyBag, SetToBag, (+)

LEMMA HandledBag ==
    ASSUME IsABag(flight), NEW m \in DOMAIN flight
    PROVE  /\ IsABag(Handled(m)) /\ DOMAIN Handled(m) \subseteq DOMAIN flight
           /\ \A x \in DOMAIN flight : x # m => x \in DOMAIN Handled(m) /\ Handled(m)[x] = flight[x]
           /\ flight[m] = 1 => m \notin DOMAIN Handled(m)
<1> DEFINE B == [e \in DOMAIN flight |-> IF e = m THEN flight[e] - 1 ELSE flight[e]]
           H == [e \in {d \in DOMAIN B : B[d] > 0} |-> B[e]]
<1>1. \A e \in DOMAIN flight : flight[e] \in Nat /\ flight[e] > 0
  BY DEF IsABag
<1>2. Handled(m) = H
  BY DEF Handled, SetToBag, (-)
<1>3. IsABag(H)
  BY <1>1 DEF IsABag
<1>4. /\ DOMAIN H \subseteq DOMAIN flight
      /\ \A x \in DOMAIN flight : x # m => x \in DOMAIN H /\ H[x] = flight[x]
      /\ flight[m] = 1 => m \notin DOMAIN H
  BY <1>1
<1> QED BY <1>2, <1>3, <1>4, Zenon

\* The bag when m has been handled.
LEMMA AfterHandled ==
    ASSUME IsFlight(flight), NEW m \in DOMAIN flight
    PROVE  /\ IsFlight(Handled(m))
           /\ Quiet(flight) => Quiet(Handled(m))
           /\ Alone(flight, m) => Quiet(Handled(m))
           /\ \A n : Alone(flight, n) /\ n # m => Alone(Handled(m), n)
<1>1. /\ IsABag(Handled(m)) /\ DOMAIN Handled(m) \subseteq DOMAIN flight
      /\ \A x \in DOMAIN flight : x # m => x \in DOMAIN Handled(m) /\ Handled(m)[x] = flight[x]
      /\ flight[m] = 1 => m \notin DOMAIN Handled(m)
  BY HandledBag DEF IsFlight
<1> QED BY <1>1 DEF IsFlight, Quiet, Alone

\* The bag when n has been sent.
LEMMA AfterSent ==
    ASSUME NEW B, IsFlight(B), NEW n, n.to \in Messages
    PROVE  LET C == B (+) SetToBag({n}) IN
           /\ IsFlight(C)
           /\ Quiet(B) /\ ~Moves(n) => Quiet(C)
           /\ Quiet(B) /\ Moves(n) => Alone(C, n)
           /\ ~Moves(n) => \A x : Moves(x) /\ Alone(B, x) => Alone(C, x)
<1> DEFINE C == B (+) SetToBag({n})
<1>1. /\ IsABag(C) /\ DOMAIN C = DOMAIN B \cup {n}
      /\ \A x \in DOMAIN B : x # n => C[x] = B[x]
      /\ n \notin DOMAIN B => C[n] = 1
  BY SentBag DEF IsFlight
<1> HIDE DEF C
<1>2. IsFlight(C)
  BY <1>1 DEF IsFlight
<1>3. Quiet(B) /\ ~Moves(n) => Quiet(C)
  BY <1>1 DEF Quiet
<1>4. Quiet(B) /\ Moves(n) => Alone(C, n)
  BY <1>1 DEF Quiet, Alone
<1>5. ASSUME ~Moves(n), NEW x, Moves(x), Alone(B, x) PROVE Alone(C, x)
  BY <1>1, <1>5 DEF Alone
<1> QED BY <1>2, <1>3, <1>4, <1>5 DEF C

\* What a page starts: a page of an action under way waits for its answer, the
\* others send nothing that moves the pages.
LEMMA StartedIs ==
    ASSUME NEW p, IsPage(p)
    PROVE  \/ Started(p) = EmptyBag /\ p.kind # "running"
           \/ \E n : /\ Started(p) = SetToBag({n}) /\ n.to \in Messages
                     /\ Moves(n) <=> p.kind = "running"
                     /\ p.kind = "running" => n = Done(p.pending)
<1>1. CASE p.kind \in {"home", "survey"}
  <2>1. Started(p) = SetToBag({Survey})
    BY <1>1 DEF Started
  <2>2. Survey.to = "survey" /\ ~Moves(Survey)
    BY DEF Survey, Moves, IsNav
  <2> QED BY <1>1, <2>1, <2>2 DEF Messages
<1>2. CASE p.kind = "focus"
  <2>1. Started(p) = SetToBag({Focus(p.subject)})
    BY <1>2 DEF Started
  <2>2. Focus(p.subject).to = "focus" /\ ~Moves(Focus(p.subject))
    BY DEF Focus, Moves, IsNav
  <2> QED BY <1>2, <2>1, <2>2 DEF Messages
<1>3. CASE p.kind = "running"
  <2>1. Started(p) = SetToBag({Done(p.pending)})
    BY <1>3 DEF Started
  <2>2. Done(p.pending).to = "done" /\ Moves(Done(p.pending))
    BY DEF Done, Moves
  <2> QED BY <1>3, <2>1, <2>2 DEF Messages
<1>4. CASE p.kind \notin {"home", "survey", "focus", "running"}
  BY <1>4 DEF Started
<1> QED BY <1>1, <1>2, <1>3, <1>4

LEMMA AfterStarted ==
    ASSUME NEW B, IsFlight(B), NEW p, IsPage(p)
    PROVE  LET C == B (+) Started(p) IN
           /\ IsFlight(C)
           /\ Quiet(B) /\ p.kind # "running" => Quiet(C)
           /\ Quiet(B) /\ p.kind = "running" => Moves(Done(p.pending)) /\ Alone(C, Done(p.pending))
<1>1. CASE Started(p) = EmptyBag /\ p.kind # "running"
  <2>1. B (+) Started(p) = B
    BY <1>1, NothingSent DEF IsFlight
  <2> QED BY <1>1, <2>1
<1>2. ASSUME NEW n, Started(p) = SetToBag({n}), n.to \in Messages,
             Moves(n) <=> p.kind = "running", p.kind = "running" => n = Done(p.pending)
      PROVE  LET C == B (+) Started(p) IN
             /\ IsFlight(C)
             /\ Quiet(B) /\ p.kind # "running" => Quiet(C)
             /\ Quiet(B) /\ p.kind = "running" => Moves(Done(p.pending)) /\ Alone(C, Done(p.pending))
  <2> DEFINE C == B (+) SetToBag({n})
  <2>1. /\ IsFlight(C)
        /\ Quiet(B) /\ ~Moves(n) => Quiet(C)
        /\ Quiet(B) /\ Moves(n) => Alone(C, n)
    BY <1>2, AfterSent
  <2> HIDE DEF C
  <2>2. C = B (+) Started(p)
    BY <1>2 DEF C
  <2> QED BY <1>2, <2>1, <2>2
<1> QED BY <1>1, <1>2, StartedIs

------------------------------------------------------------------------------
(* What the page on top must be like for what is under way.                 *)

\* While the page on top stays what it is, what is under way goes on suiting it.
LEMMA StillFits ==
    ASSUME NEW m, Fits(m), Len(stack)' = Len(stack), Top'.kind = Top.kind,
           Top.kind \in Acting => Top' = Top
    PROVE  Fits(m)'
  BY DEF Fits, FitsPush, FitsReplace, BegunHere, Acting

\* A message that moves nothing is handled.
LEMMA Unmoved ==
    ASSUME IsFlight(flight), MoveInv, NEW m \in DOMAIN flight, ~Moves(m),
           Len(stack)' = Len(stack), Top'.kind = Top.kind, Top.kind \in Acting => Top' = Top,
           \/ flight' = Handled(m)
           \/ flight' = Handled(m) (+) SetToBag({JobUpdate})
    PROVE  IsFlight(flight') /\ MoveInv'
<1>1. /\ IsFlight(Handled(m)) /\ (Quiet(flight) => Quiet(Handled(m)))
      /\ \A n : Alone(flight, n) /\ n # m => Alone(Handled(m), n)
  BY AfterHandled
<1>2. JobUpdate.to \in Messages /\ ~Moves(JobUpdate)
  BY DEF JobUpdate, Messages, Moves, IsNav
<1>3. /\ IsFlight(flight')
      /\ Quiet(Handled(m)) => Quiet(flight')
      /\ \A n : Moves(n) /\ Alone(Handled(m), n) => Alone(flight', n)
  <2>1. CASE flight' = Handled(m)
    BY <2>1, <1>1
  <2>2. CASE flight' = Handled(m) (+) SetToBag({JobUpdate})
    <3> DEFINE B == Handled(m)
    <3>1. IsFlight(B)
      BY <1>1
    <3> HIDE DEF B
    <3>2. LET C == B (+) SetToBag({JobUpdate}) IN
          /\ IsFlight(C)
          /\ Quiet(B) /\ ~Moves(JobUpdate) => Quiet(C)
          /\ ~Moves(JobUpdate) => \A x : Moves(x) /\ Alone(B, x) => Alone(C, x)
      BY <3>1, <1>2, AfterSent
    <3> QED BY <3>2, <1>2, <2>2 DEF B
  <2> QED BY <2>1, <2>2
<1>4. CASE Quiet(flight)
  BY <1>1, <1>3, <1>4 DEF MoveInv, Quiet
<1>5. ASSUME NEW n, Moves(n), Alone(flight, n), Fits(n) PROVE MoveInv'
  <2>1. n # m
    BY <1>5
  <2>2. Alone(flight', n)
    BY <1>1, <1>3, <1>5, <2>1
  <2>3. Fits(n)'
    BY <1>5, StillFits
  <2> QED BY <1>5, <2>2, <2>3 DEF MoveInv, Alone, Moves, IsNav
<1> QED BY <1>3, <1>4, <1>5 DEF MoveInv
\* A page has just been put on top, with nothing else on its way to move it.
LEMMA Entered ==
    ASSUME NEW B, IsFlight(B), Quiet(B), NEW p, IsPage(p), Top' = p, flight' = B (+) Started(p)
    PROVE  IsFlight(flight') /\ MoveInv'
<1>1. /\ IsFlight(flight')
      /\ p.kind # "running" => Quiet(flight')
      /\ p.kind = "running" => Moves(Done(p.pending)) /\ Alone(flight', Done(p.pending))
  BY AfterStarted
<1>2. p.kind = "running" => Fits(Done(p.pending))'
  BY DEF Fits, Done
<1> QED BY <1>1, <1>2 DEF MoveInv, Alone, Quiet, Moves, IsNav

\* Message m, which moves the pages, is the only one, and suits the page on top.
LEMMA TheMove ==
    ASSUME IInv, NEW m \in DOMAIN flight, Moves(m)
    PROVE  Fits(m) /\ IsFlight(Handled(m)) /\ Quiet(Handled(m))
<1>1. Alone(flight, m) /\ Fits(m)
  BY DEF IInv, MoveInv, Quiet, Alone
<1> QED BY <1>1, AfterHandled DEF IInv

LEMMA EnterMod == ASSUME ModInv, NEW p, NEW B, Enter(p, B) PROVE ModInv' /\ flight' = B (+) Started(p)
  BY DEF ModInv, Enter

LEMMA PushStep == ASSUME IInv, NEW m \in DOMAIN flight, ReceivePush(m) PROVE IInv'
<1>1. m.to = "push" /\ stack' = Append(stack, m.page) /\ Enter(m.page, Handled(m))
  BY DEF ReceivePush
<1>2. Fits(m) /\ IsFlight(Handled(m)) /\ Quiet(Handled(m))
  BY <1>1, TheMove DEF Moves, IsNav
<1>3. IsPage(m.page) /\ FitsPush(m.page)
  BY <1>1, <1>2 DEF Fits
<1>4. StackInv' /\ Len(stack)' = Len(stack) + 1 /\ Top' = m.page
  BY <1>1, <1>3, Pushed DEF IInv
<1>5. ModInv' /\ flight' = Handled(m) (+) Started(m.page)
  BY <1>1, EnterMod DEF IInv
<1>6. IsFlight(flight') /\ MoveInv'
  BY <1>2, <1>3, <1>4, <1>5, Entered
<1>7. BootInv'
  <2>1. Len(stack) \in Nat /\ Len(stack) >= 1
    BY TopIs DEF IInv, StackInv
  <2>2. Len(stack)' # 1
    BY <2>1, <1>4
  <2> QED BY <2>2 DEF BootInv
<1> QED BY <1>4, <1>5, <1>6, <1>7 DEF IInv, IsFlight

LEMMA ReplaceStep == ASSUME IInv, NEW m \in DOMAIN flight, ReceiveReplace(m) PROVE IInv'
<1>1. m.to = "replace" /\ stack' = SetTop(m.page) /\ Enter(m.page, Handled(m))
  BY DEF ReceiveReplace
<1>2. Fits(m) /\ IsFlight(Handled(m)) /\ Quiet(Handled(m))
  BY <1>1, TheMove DEF Moves, IsNav
<1>3. IsPage(m.page) /\ FitsReplace(m.page)
  BY <1>1, <1>2 DEF Fits
<1>4. StackInv' /\ Len(stack)' = Len(stack) /\ Top' = m.page
  BY <1>1, <1>3, Replaced DEF IInv
<1>5. ModInv' /\ flight' = Handled(m) (+) Started(m.page)
  BY <1>1, EnterMod DEF IInv
<1>6. IsFlight(flight') /\ MoveInv'
  BY <1>2, <1>3, <1>4, <1>5, Entered
<1>7. BootInv'
  BY <1>3, <1>4, Places DEF BootInv, IInv, FitsReplace, Acting
<1> QED BY <1>4, <1>5, <1>6, <1>7 DEF IInv, IsFlight

LEMMA PopStep == ASSUME IInv, NEW m \in DOMAIN flight, ReceivePop(m) PROVE IInv'
<1>1. m.to = "pop"
  BY DEF ReceivePop
<1>2. Fits(m) /\ IsFlight(Handled(m)) /\ Quiet(Handled(m))
  BY <1>1, TheMove DEF Moves, IsNav
<1>3. Top.kind \in {"survey", "focus"} \cup Acting
  BY <1>1, <1>2 DEF Fits
<1>4. Len(stack) \in Nat /\ Len(stack) > 2
  BY <1>3, Places, TopIs DEF IInv, Acting, StackInv
<1> DEFINE p == stack[Len(stack) - 1]
           q == IF p.kind = "focus" THEN FocusPage(p.subject) ELSE p
<1>5. stack' = Append(Front(Front(stack)), q) /\ Enter(p, Handled(m))
  BY <1>4 DEF ReceivePop, Revive
<1>6. IsPage(p)
  BY <1>4, TopIs DEF IInv, StackInv, PageInv
<1>7. IsPage(q) /\ q.kind = p.kind
  BY <1>6 DEF IsPage, FocusPage, Acting
<1>8. /\ StackInv' /\ Len(stack)' = Len(stack) - 1 /\ Top' = q
      /\ q.kind \in {"home", "survey", "focus"}
  <2> HIDE DEF q
  <2> QED BY <1>3, <1>5, <1>7, Popped DEF IInv
<1>9. Started(q) = Started(p)
  BY <1>7 DEF Started, FocusPage
<1>10. ModInv' /\ flight' = Handled(m) (+) Started(q)
  BY <1>5, <1>9, EnterMod DEF IInv
<1>11. IsFlight(flight') /\ MoveInv'
  BY <1>2, <1>7, <1>8, <1>10, Entered
<1>12. BootInv'
  <2>1. Len(stack)' = Len(stack) - 1
    BY <1>8
  <2>2. Len(stack)' # 1
    BY <1>4, <2>1, SMTT(20)
  <2> QED BY <2>2 DEF BootInv
<1> QED BY <1>8, <1>10, <1>11, <1>12 DEF IInv, IsFlight

LEMMA ReselectedIs ==
    ASSUME NEW p, IsPage(p), NEW rs
    PROVE  /\ IsPage(Reselected(p, rs)) /\ Reselected(p, rs).kind = p.kind
           /\ p.kind # "survey" => Reselected(p, rs) = p
  BY DEF Reselected, IsPage, Acting

\* Messages other than the home page come only when there is one.
LEMMA NotBoot ==
    ASSUME IInv, NEW m \in DOMAIN flight, m.to # "push"
    PROVE  Len(stack) \in Nat /\ Len(stack) >= 2
  BY TopIs DEF IInv, BootInv, Push, StackInv

\* A message that moves nothing, and may turn the page on top within its kind.
LEMMA QuietStep ==
    ASSUME IInv, NEW m \in DOMAIN flight, ~Moves(m), NEW p, IsPage(p), p.kind = Top.kind,
           p = Top \/ Top.kind \in {"survey", "focus"}, stack' = SetTop(p),
           flight' = Handled(m) \/ flight' = Handled(m) (+) SetToBag({JobUpdate}), ModInv'
    PROVE  IInv'
<1>1. StackInv' /\ Len(stack)' = Len(stack) /\ Top' = p
  <2>1. CASE p = Top
    <3>1. stack' = stack
      BY <2>1, TopSet DEF IInv, StackInv
    <3> QED BY <2>1, <3>1, StackStays DEF IInv
  <2>2. CASE Top.kind \in {"survey", "focus"}
    BY <2>2, Replaced DEF IInv
  <2> QED BY <2>1, <2>2
<1>2. Top'.kind = Top.kind /\ (Top.kind \in Acting => Top' = Top)
  BY <1>1 DEF Acting
<1>3. IsFlight(flight') /\ MoveInv'
  BY <1>1, <1>2, Unmoved DEF IInv
<1>4. BootInv'
  BY <1>1, NotBoot DEF BootInv, Moves, IsNav
<1> QED BY <1>1, <1>3, <1>4 DEF IInv, IsFlight

LEMMA SurveyStep == ASSUME IInv, NEW m \in DOMAIN flight, ReceiveSurvey(m) PROVE IInv'
<1>1. ~Moves(m)
  BY DEF ReceiveSurvey, Survey, Moves, IsNav
<1>2. /\ IsPage(Reselected(Top, rows')) /\ Reselected(Top, rows').kind = Top.kind
      /\ Reselected(Top, rows') = Top \/ Top.kind \in {"survey", "focus"}
  BY ReselectedIs, TopIs DEF IInv, StackInv
<1>3. /\ stack' = SetTop(Reselected(Top, rows'))
      /\ flight' = Handled(m) \/ flight' = Handled(m) (+) SetToBag({JobUpdate})
      /\ ModInv'
  BY DEF ReceiveSurvey, ModInv, IInv
<1> QED BY <1>1, <1>2, <1>3, QuietStep

LEMMA JobStep == ASSUME IInv, NEW m \in DOMAIN flight, ReceiveJobUpdate(m) PROVE IInv'
<1>1. ~Moves(m)
  BY DEF ReceiveJobUpdate, JobUpdate, Moves, IsNav
<1>2. IsPage(Top) /\ stack' = SetTop(Top) /\ flight' = Handled(m) /\ ModInv'
  BY TopIs, TopSet DEF ReceiveJobUpdate, ModInv, IInv, StackInv
<1> QED BY <1>1, <1>2, QuietStep

LEMMA FocusStep == ASSUME IInv, NEW m \in DOMAIN flight, ReceiveFocus(m) PROVE IInv'
<1>1. ~Moves(m) /\ flight' = Handled(m) /\ ModInv'
  BY DEF ReceiveFocus, ModInv, IInv, Moves, IsNav
<1>2. IsPage(Top) /\ SetTop(Top) = stack
  BY TopIs, TopSet DEF IInv, StackInv
<1>3. CASE stack' = stack
  BY <1>1, <1>2, <1>3, QuietStep
<1>4. CASE Top.kind = "focus" /\ stack' = SetTop([Top EXCEPT !.loading = FALSE, !.offers = m.subject, !.err = FALSE])
  <2>1. LET p == [Top EXCEPT !.loading = FALSE, !.offers = m.subject, !.err = FALSE]
        IN  IsPage(p) /\ p.kind = "focus"
    BY <1>2, <1>4 DEF IsPage, Acting
  <2> QED BY <1>1, <1>4, <2>1, QuietStep
<1>5. CASE Top.kind = "focus" /\ stack' = SetTop([Top EXCEPT !.loading = FALSE, !.err = TRUE])
  <2>1. LET p == [Top EXCEPT !.loading = FALSE, !.err = TRUE]
        IN  IsPage(p) /\ p.kind = "focus"
    BY <1>2, <1>5 DEF IsPage, Acting
  <2> QED BY <1>1, <1>5, <2>1, QuietStep
<1> QED BY <1>3, <1>4, <1>5 DEF ReceiveFocus

\* The answer RUNNING waits for: the page it calls for takes the place of RUNNING.
LEMMA DoneStep == ASSUME IInv, NEW m \in DOMAIN flight, ReceiveDone(m) PROVE IInv'
<1>1. m.to = "done" /\ UNCHANGED <<stack, rows, modLoading>>
  BY DEF ReceiveDone
<1>2. Fits(m) /\ IsFlight(Handled(m)) /\ Quiet(Handled(m))
  BY <1>1, TheMove DEF Moves, IsNav
<1>3. Top.kind = "running" /\ m.pending = Top.pending /\ IsPage(Top)
  BY <1>1, <1>2, TopIs DEF Fits, IInv, StackInv
<1>4. PICK n : /\ n \in {Replace(ResultPage(Top.pending, m.pending)), Replace(CascadePage(Top.pending))}
               /\ flight' = Handled(m) (+) SetToBag({n})
  BY <1>3 DEF ReceiveDone
<1>5. n.to = "replace" /\ n.to \in Messages /\ Moves(n)
  BY <1>4 DEF Replace, Messages, Moves, IsNav
<1>6. /\ IsPage(n.page) /\ FitsReplace(n.page)
  BY <1>3, <1>4 DEF Replace, ResultPage, CascadePage, ActionPage, IsPage, FitsReplace, Acting
<1>7. Fits(n)
  BY <1>5, <1>6 DEF Fits
<1>8. IsFlight(flight') /\ Alone(flight', n)
  <2> DEFINE B == Handled(m)
  <2>1. IsFlight(B) /\ Quiet(B)
    BY <1>2
  <2> HIDE DEF B
  <2>2. LET C == B (+) SetToBag({n}) IN IsFlight(C) /\ (Quiet(B) /\ Moves(n) => Alone(C, n))
    BY <2>1, <1>5, AfterSent
  <2> QED BY <2>1, <2>2, <1>4, <1>5 DEF B
<1>9. StackInv' /\ Len(stack)' = Len(stack) /\ Top' = Top
  BY <1>1, StackStays DEF IInv
<1>10. Fits(n)'
  BY <1>7, <1>9, StillFits
<1>11. MoveInv'
  BY <1>5, <1>8, <1>10 DEF MoveInv, Alone, Moves, IsNav
<1>12. BootInv'
  BY <1>1, <1>9, NotBoot DEF BootInv
<1> QED BY <1>1, <1>8, <1>9, <1>11, <1>12 DEF IInv, IsFlight, ModInv
------------------------------------------------------------------------------
(* Keys.                                                                    *)

\* A patient operator presses a key when nothing is about to move the pages.
LEMMA Pressed ==
    ASSUME Patient, IInv, NEW k, Press(k), k \in {"home", "survey", "focus", "confirm", "cascade", "result"}
    PROVE  Top.kind = k /\ Quiet(flight) /\ Len(stack) # 1
<1>1. Top.kind = k /\ \A m \in DOMAIN flight : ~IsNav(m)
  BY DEF Press, BagToSet
<1>2. ASSUME NEW m \in DOMAIN flight, Moves(m) PROVE FALSE
  <2>1. m.to = "done"
    BY <1>1, <1>2 DEF Moves
  <2>2. Fits(m)
    BY <1>2, TheMove
  <2> QED BY <1>1, <2>1, <2>2 DEF Fits
<1>3. Len(stack) # 1
  BY <1>1, Places DEF IInv
<1> QED BY <1>1, <1>2, <1>3 DEF Quiet

\* A key that sends a page change which suits the page on top, and may turn that
\* page within its kind.
LEMMA KeySends ==
    ASSUME IInv, Quiet(flight), Len(stack) # 1, NEW p, IsPage(p), p.kind = Top.kind,
           p = Top \/ Top.kind \in {"survey", "focus"}, stack' = SetTop(p),
           NEW m, IsNav(m), Fits(m), Send(m), UNCHANGED <<rows, modLoading>>
    PROVE  IInv'
<1>1. StackInv' /\ Len(stack)' = Len(stack) /\ Top' = p
  <2>1. CASE p = Top
    <3>1. stack' = stack
      BY <2>1, TopSet DEF IInv, StackInv
    <3> QED BY <2>1, <3>1, StackStays DEF IInv
  <2>2. CASE Top.kind \in {"survey", "focus"}
    BY <2>2, Replaced DEF IInv
  <2> QED BY <2>1, <2>2
<1>2. m.to \in Messages /\ Moves(m)
  BY DEF IsNav, Moves, Messages
<1>3. IsFlight(flight') /\ Alone(flight', m)
  BY <1>2, AfterSent DEF IInv, Send
<1>4. Fits(m)'
  <2>1. Top'.kind = Top.kind /\ (Top.kind \in Acting => Top' = Top)
    BY <1>1 DEF Acting
  <2> QED BY <1>1, <2>1, StillFits
<1>5. MoveInv'
  BY <1>2, <1>3, <1>4 DEF MoveInv, Alone, Moves, IsNav
<1> QED BY <1>1, <1>3, <1>5 DEF IInv, IsFlight, ModInv, BootInv

\* ... or leaves the page on top as it is.
LEMMA KeySendsOnly ==
    ASSUME IInv, Quiet(flight), Len(stack) # 1, NEW m, IsNav(m), Fits(m), Sends(m)
    PROVE  IInv'
<1>1. IsPage(Top) /\ SetTop(Top) = stack
  BY TopIs, TopSet DEF IInv, StackInv
<1> QED BY <1>1, KeySends DEF Sends

\* A key that turns the survey page.
LEMMA KeyTurns ==
    ASSUME IInv, Quiet(flight), Top.kind = "survey", NEW p, IsPage(p), p.kind = "survey", Turns(p)
    PROVE  IInv'
<1>1. stack' = SetTop(p) /\ UNCHANGED <<flight, rows, modLoading>>
  BY DEF Turns
<1>2. StackInv' /\ Len(stack)' = Len(stack)
  BY <1>1, Replaced DEF IInv
<1>3. Len(stack) # 1
  BY Places DEF IInv
<1> QED BY <1>1, <1>2, <1>3 DEF IInv, IsFlight, ModInv, BootInv, MoveInv, Quiet, Moves, IsNav

\* A key that loads the mod again.
LEMMA KeyLoads ==
    ASSUME IInv, Quiet(flight), Len(stack) # 1, NEW p, IsPage(p), p.kind = Top.kind,
           p = Top \/ Top.kind = "survey", stack' = SetTop(p), NEW q, q.kind = p.kind, Enter(q, flight),
           p.kind \in {"home", "survey"}
    PROVE  IInv'
<1>1. StackInv' /\ Len(stack)' = Len(stack) /\ Top' = p
  BY Replaced DEF IInv
<1>2. Started(q) = Started(p)
  BY DEF Started
<1>3. ModInv' /\ flight' = flight (+) Started(p)
  BY <1>2, EnterMod DEF IInv
<1>4. IsFlight(flight') /\ MoveInv'
  BY <1>1, <1>3, Entered DEF IInv
<1> QED BY <1>1, <1>3, <1>4 DEF IInv, IsFlight, BootInv

\* An action begun on the page on top.
LEMMA Begun ==
    ASSUME IInv, Top.kind \in {"survey", "focus"}, NEW act, NEW s, NEW owner,
           NEW k \in {"confirm", "running"}
    PROVE  LET m == Push(ActionPage(k, Pending(act, s, owner))) IN IsNav(m) /\ Fits(m)
<1> DEFINE p == ActionPage(k, Pending(act, s, owner))
<1>1. Top = Last(stack)
  BY DEF Top
<1>2. IsPage(p) /\ FitsPush(p)
  BY <1>1 DEF ActionPage, Pending, IsPage, FitsPush, BegunHere, Acting
<1> HIDE DEF p
<1>3. IsNav(Push(p)) /\ Fits(Push(p))
  BY <1>2 DEF Push, IsNav, Fits
<1> QED BY <1>3 DEF p

LEMMA TriggerKey ==
    ASSUME IInv, Quiet(flight), Len(stack) # 1, Top.kind \in {"survey", "focus"},
           NEW act, NEW s, NEW owner, Trigger(Pending(act, s, owner))
    PROVE  IInv'
<1> DEFINE k == IF act = "danger" THEN "confirm" ELSE "running"
<1>1. Sends(Push(ActionPage(k, Pending(act, s, owner))))
  BY DEF Trigger, Pending
<1>2. k \in {"confirm", "running"}
  OBVIOUS
<1> HIDE DEF k
<1> QED BY <1>1, <1>2, Begun, KeySendsOnly

LEMMA PopFits == ASSUME Top.kind \in {"survey", "focus"} \cup Acting PROVE IsNav(Pop) /\ Fits(Pop)
  BY DEF Pop, IsNav, Fits

LEMMA HomeStep == ASSUME Patient, IInv, HomeKey PROVE IInv'
<1>1. Top.kind = "home" /\ Quiet(flight) /\ Len(stack) # 1
  BY Pressed DEF HomeKey
<1>2. CASE Sends(Push(SurveyPage))
  <2>1. IsNav(Push(SurveyPage)) /\ Fits(Push(SurveyPage))
    BY <1>1 DEF Push, SurveyPage, IsNav, Fits, FitsPush, IsPage, Acting
  <2> QED BY <1>1, <1>2, <2>1, KeySendsOnly
<1>3. CASE Enter(Home, flight) /\ UNCHANGED stack
  <2>1. IsPage(Top) /\ SetTop(Top) = stack /\ Home.kind = "home"
    BY TopIs, TopSet DEF IInv, StackInv, Home
  <2> QED BY <1>1, <1>3, <2>1, KeyLoads
<1> QED BY <1>2, <1>3 DEF HomeKey

LEMMA MoveStep == ASSUME Patient, IInv, SurveyMove PROVE IInv'
<1>1. Top.kind = "survey" /\ Quiet(flight) /\ Len(stack) # 1
  BY Pressed DEF SurveyMove
<1>2. IsPage(Top)
  BY TopIs DEF IInv, StackInv
<1>3. PICK p : Turns(p) /\ IsPage(p) /\ p.kind = "survey"
  <2>1. CASE Turns([Top EXCEPT !.filter = TRUE, !.on = "filter"])
    <3>1. LET p == [Top EXCEPT !.filter = TRUE, !.on = "filter"] IN IsPage(p) /\ p.kind = "survey"
      BY <1>1, <1>2 DEF IsPage, Acting
    <3> QED BY <2>1, <3>1
  <2>2. CASE Turns([Top EXCEPT !.filter = FALSE])
    <3>1. LET p == [Top EXCEPT !.filter = FALSE] IN IsPage(p) /\ p.kind = "survey"
      BY <1>1, <1>2 DEF IsPage, Acting
    <3> QED BY <2>2, <3>1
  <2>3. ASSUME NEW r, Turns([Top EXCEPT !.on = "row", !.row = r, !.key = KeyAt(Top, r)])
        PROVE  \E p : Turns(p) /\ IsPage(p) /\ p.kind = "survey"
    <3>1. LET p == [Top EXCEPT !.on = "row", !.row = r, !.key = KeyAt(Top, r)]
          IN  IsPage(p) /\ p.kind = "survey"
      BY <1>1, <1>2 DEF IsPage, Acting
    <3> QED BY <2>3, <3>1
  <2>4. CASE Turns([Top EXCEPT !.on = "exit"])
    <3>1. LET p == [Top EXCEPT !.on = "exit"] IN IsPage(p) /\ p.kind = "survey"
      BY <1>1, <1>2 DEF IsPage, Acting
    <3> QED BY <2>4, <3>1
  <2> QED BY <2>1, <2>2, <2>3, <2>4 DEF SurveyMove
<1> QED BY <1>1, <1>3, KeyTurns

LEMMA EnterStep == ASSUME Patient, IInv, SurveyEnter PROVE IInv'
<1>1. Top.kind = "survey" /\ Quiet(flight) /\ Len(stack) # 1
  BY Pressed DEF SurveyEnter
<1>2. IsPage(Top)
  BY TopIs DEF IInv, StackInv
<1>3. PICK s : \/ /\ stack' = SetTop([Top EXCEPT !.key = s])
                  /\ Send(Push(FocusPage(s)))
                  /\ UNCHANGED <<rows, modLoading>>
               \/ \E act \in {"safe", "danger"} : Trigger(Pending(act, s, s))
  BY DEF SurveyEnter
<1>4. CASE /\ stack' = SetTop([Top EXCEPT !.key = s])
           /\ Send(Push(FocusPage(s)))
           /\ UNCHANGED <<rows, modLoading>>
  <2>1. LET p == [Top EXCEPT !.key = s] IN IsPage(p) /\ p.kind = "survey"
    BY <1>1, <1>2 DEF IsPage, Acting
  <2>2. IsNav(Push(FocusPage(s))) /\ Fits(Push(FocusPage(s)))
    BY <1>1 DEF Push, FocusPage, IsNav, Fits, FitsPush, IsPage, Acting
  <2> QED BY <1>1, <1>4, <2>1, <2>2, KeySends
<1>5. CASE \E act \in {"safe", "danger"} : Trigger(Pending(act, s, s))
  BY <1>1, <1>5, TriggerKey
<1> QED BY <1>3, <1>4, <1>5

LEMMA ExitStep == ASSUME Patient, IInv, SurveyExit PROVE IInv'
<1>1. Top.kind = "survey" /\ Quiet(flight) /\ Len(stack) # 1
  BY Pressed DEF SurveyExit
<1>2. IsPage(Top) /\ SetTop(Top) = stack
  BY TopIs, TopSet DEF IInv, StackInv
<1>3. CASE Sends(Pop)
  BY <1>1, <1>3, PopFits, KeySendsOnly
<1>4. CASE Enter(Top, flight) /\ UNCHANGED stack
  BY <1>1, <1>2, <1>4, KeyLoads
<1>5. CASE Enter(Top, flight) /\ stack' = SetTop([Top EXCEPT !.filter = FALSE])
  <2>1. LET p == [Top EXCEPT !.filter = FALSE] IN IsPage(p) /\ p.kind = "survey"
    BY <1>1, <1>2 DEF IsPage, Acting
  <2> QED BY <1>1, <1>5, <2>1, KeyLoads
<1>6. CASE Sends(Push(ActionPage("confirm", Pending("bulk", NoSubject, NoSubject))))
  BY <1>1, <1>6, Begun, KeySendsOnly
<1> QED BY <1>3, <1>4, <1>5, <1>6 DEF SurveyExit

LEMMA FocusKeyStep == ASSUME Patient, IInv, FocusKey PROVE IInv'
<1>1. Top.kind = "focus" /\ Quiet(flight) /\ Len(stack) # 1
  BY Pressed DEF FocusKey
<1>2. CASE Sends(Pop)
  BY <1>1, <1>2, PopFits, KeySendsOnly
<1>3. CASE \E act \in {"safe", "danger"} : Trigger(Pending(act, Top.subject, Top.offers))
  BY <1>1, <1>3, TriggerKey
<1> QED BY <1>2, <1>3 DEF FocusKey

LEMMA ActingStep == ASSUME Patient, IInv, ConfirmKey \/ CascadeKey \/ ResultKey PROVE IInv'
<1>1. Top.kind \in {"confirm", "cascade", "result"} /\ Quiet(flight) /\ Len(stack) # 1
  BY Pressed DEF ConfirmKey, CascadeKey, ResultKey
<1>2. IsPage(Top) /\ Top.kind \in Acting
  BY <1>1, TopIs DEF IInv, StackInv, Acting
<1>3. CASE Sends(Pop)
  BY <1>1, <1>2, <1>3, PopFits, KeySendsOnly
<1>4. ASSUME NEW pa, pa = Top.pending \/ pa = [Top.pending EXCEPT !.confirm = TRUE],
             Top.kind # "result", Sends(Replace(ActionPage("running", pa)))
      PROVE  IInv'
  <2>1. /\ {"depth", "from"} \subseteq DOMAIN pa
        /\ pa.depth = Top.pending.depth /\ pa.from = Top.pending.from
    BY <1>2, <1>4 DEF IsPage
  <2>2. LET p == ActionPage("running", pa) IN IsPage(p) /\ FitsReplace(p)
    BY <1>1, <1>4, <2>1 DEF ActionPage, IsPage, FitsReplace, Acting
  <2>3. LET m == Replace(ActionPage("running", pa)) IN IsNav(m) /\ Fits(m)
    BY <2>2 DEF Replace, IsNav, Fits
  <2> QED BY <1>1, <1>4, <2>3, KeySendsOnly
<1>5. CASE ConfirmKey
  BY <1>3, <1>4, <1>5 DEF ConfirmKey, Press
<1>6. CASE CascadeKey
  BY <1>3, <1>4, <1>6 DEF CascadeKey, Press
<1>7. CASE ResultKey
  BY <1>3, <1>7 DEF ResultKey
<1> QED BY <1>5, <1>6, <1>7

------------------------------------------------------------------------------
LEMMA InitIInv == Init => IInv
<1> SUFFICES ASSUME Init PROVE IInv
  OBVIOUS
<1>1. stack = <<Boot>> /\ flight = SetToBag({Push(Home)}) /\ rows = <<>> /\ modLoading = FALSE
  BY DEF Init
<1>2. Len(stack) = 1 /\ stack[1] = Boot /\ DOMAIN stack = 1 .. 1 /\ Top = Boot
  BY <1>1 DEF Top, Last
<1>3. IsFlight(flight) /\ DOMAIN flight = {Push(Home)} /\ flight[Push(Home)] = 1
  BY <1>1 DEF IsFlight, IsABag, SetToBag, Push, Messages
<1>4. StackInv
  <2>1. stack \in Seq({Boot})
    BY <1>1
  <2>2. stack \in Seq(Range(stack)) /\ stack # <<>>
    BY <1>1, <2>1, SeqOfIts
  <2>3. IsPage(Boot) /\ Boot.kind = "boot"
    BY DEF IsPage, Boot, Acting
  <2> QED BY <1>2, <2>2, <2>3 DEF StackInv, PageInv, PathInv, ResultLands, ReturnsToOrigin, ResultIsOwn, Acting
<1>5. MoveInv
  <2>1. Moves(Push(Home)) /\ Alone(flight, Push(Home))
    BY <1>3 DEF Moves, IsNav, Push, Alone
  <2>2. Fits(Push(Home))
    BY <1>2 DEF Fits, Push, FitsPush, IsPage, Home, Boot, Acting
  <2> QED BY <2>1, <2>2 DEF MoveInv
<1> QED BY <1>1, <1>3, <1>4, <1>5 DEF IInv, ModInv, BootInv

LEMMA NextIInv == Patient /\ IInv /\ [Next]_vars => IInv'
<1> SUFFICES ASSUME Patient, IInv, [Next]_vars PROVE IInv'
  OBVIOUS
<1>1. ASSUME NEW m \in DOMAIN flight, ReceivePush(m) \/ ReceivePop(m) \/ ReceiveReplace(m) PROVE IInv'
  BY <1>1, PushStep, PopStep, ReplaceStep
<1>2. ASSUME NEW m \in DOMAIN flight,
             ReceiveSurvey(m) \/ ReceiveJobUpdate(m) \/ ReceiveFocus(m) \/ ReceiveDone(m)
      PROVE  IInv'
  BY <1>2, SurveyStep, JobStep, FocusStep, DoneStep
<1>3. CASE Receive
  BY <1>1, <1>2, <1>3 DEF Receive, BagToSet
<1>4. CASE Key
  BY <1>4, HomeStep, MoveStep, EnterStep, ExitStep, FocusKeyStep, ActingStep DEF Key
<1>5. CASE UNCHANGED vars
  <2>1. stack' = stack /\ UNCHANGED <<flight, rows, modLoading>>
    BY <1>5 DEF vars
  <2>2. StackInv' /\ Len(stack)' = Len(stack) /\ Top' = Top
    BY <2>1, StackStays DEF IInv
  <2>3. MoveInv'
    BY <2>1, <2>2, StillFits DEF IInv, MoveInv, Quiet, Alone, Moves, IsNav
  <2> QED BY <2>1, <2>2, <2>3 DEF IInv, IsFlight, ModInv, BootInv
<1> QED BY <1>3, <1>4, <1>5 DEF Next

LEMMA PagesInvariant == ASSUME Patient PROVE Spec => []IInv
  BY InitIInv, NextIInv, PTL DEF Spec

LEMMA IsTyped == ASSUME IInv PROVE TypeOK
<1>1. \A i \in DOMAIN stack : stack[i].kind \in {"boot", "home", "survey", "focus"} \cup Acting
  BY DEF IInv, StackInv, PageInv, IsPage
<1>2. Range(Kinds) \subseteq {"boot", "home", "survey", "focus"} \cup Acting
  BY <1>1 DEF Range, Kinds
<1> QED BY <1>2 DEF IInv, TypeOK, IsFlight, ModInv, BagToSet, Messages

------------------------------------------------------------------------------
(* What the runs check follows.                                             *)

\* A sequence is put together from the front, one element after the other.
LEMMA OneMore ==
    ASSUME NEW S, NEW s \in Seq(S), NEW k \in Seq(S), Len(k) = Len(s) + 1,
           \A i \in 1 .. Len(s) : k[i] = s[i]
    PROVE  s \o <<k[Len(k)]>> = k
<1> DEFINE x == k[Len(k)]
           t == s \o <<x>>
<1>1. Len(s) \in Nat /\ x \in S
  OBVIOUS
<1>2. <<x>> \in Seq(S) /\ Len(<<x>>) = 1 /\ <<x>>[1] = x
  BY <1>1
<1>3. /\ t \in Seq(S) /\ Len(t) = Len(s) + 1
      /\ \A i \in 1 .. Len(s) + 1 : t[i] = IF i <= Len(s) THEN s[i] ELSE <<x>>[i - Len(s)]
  <2> HIDE DEF x
  <2> QED BY <1>1, <1>2, ConcatProperties
<1> HIDE DEF t
<1>4. ASSUME NEW i \in 1 .. Len(k) PROVE t[i] = k[i]
  <2>1. CASE i = Len(k)
    BY <2>1, <1>1, <1>2, <1>3
  <2>2. CASE i # Len(k)
    BY <2>2, <1>1, <1>2, <1>3
  <2> QED BY <2>1, <2>2
<1>5. Len(t) = Len(k)
  BY <1>3
<1> QED BY <1>3, <1>4, <1>5, SeqEqual DEF t

LEMMA Grown ==
    ASSUME NEW S, NEW k \in Seq(S), NEW n \in Nat, n < Len(k)
    PROVE  /\ SubSeq(k, 1, n) \o <<k[n + 1]>> = SubSeq(k, 1, n + 1)
           /\ SubSeq(k, 1, n) \o <<>> = SubSeq(k, 1, n)
           /\ SubSeq(k, 1, n + 1) \o <<>> = SubSeq(k, 1, n + 1)
<1> DEFINE s == SubSeq(k, 1, n)
           t == SubSeq(k, 1, n + 1)
<1>1. Len(k) \in Nat
  OBVIOUS
<1>2. s \in Seq(S) /\ Len(s) = n /\ \A i \in 1 .. n : s[i] = k[i]
  BY <1>1
<1>3. t \in Seq(S) /\ Len(t) = n + 1 /\ \A i \in 1 .. n + 1 : t[i] = k[i]
  BY <1>1
<1> HIDE DEF s, t
<1>4. \A i \in 1 .. n : t[i] = s[i]
  BY <1>2, <1>3
<1>5. t[Len(t)] = k[n + 1]
  BY <1>3
<1>6. s \o <<k[n + 1]>> = t
  BY <1>2, <1>3, <1>4, <1>5, OneMore
<1>7. s \o <<>> = s /\ t \o <<>> = t
  BY <1>2, <1>3, ConcatEmptySeq
<1> QED BY <1>6, <1>7 DEF s, t

LEMMA FirstTwo ==
    ASSUME NEW S, NEW k \in Seq(S), Len(k) >= 2
    PROVE  SubSeq(k, 1, 2) = <<k[1], k[2]>>
<1> DEFINE s == SubSeq(k, 1, 2)
           t == <<k[1], k[2]>>
<1>1. Len(k) \in Nat /\ k[1] \in S /\ k[2] \in S
  OBVIOUS
<1>2. s \in Seq(S) /\ Len(s) = 2 /\ s[1] = k[1] /\ s[2] = k[2]
  BY <1>1
<1>3. t \in Seq(S) /\ Len(t) = 2 /\ t[1] = k[1] /\ t[2] = k[2]
  BY <1>1
<1> HIDE DEF s, t
<1>4. \A i \in 1 .. Len(s) : s[i] = t[i]
  BY <1>2, <1>3
<1>5. s = t
  BY <1>2, <1>3, <1>4, SeqEqual
<1> QED BY <1>5 DEF s, t

LEMMA KindsAre ==
    ASSUME IInv, Len(stack) >= 2
    PROVE  /\ Kinds \in Seq(Range(Kinds)) /\ Len(Kinds) = Len(stack)
           /\ \A i \in 1 .. Len(stack) : Kinds[i] = stack[i].kind
           /\ SubSeq(Kinds, 1, 2) = <<"boot", "home">>
           /\ SubSeq(Kinds, 1, Len(stack)) = Kinds
<1>1. Len(stack) \in Nat /\ DOMAIN stack = 1 .. Len(stack)
  BY TopIs DEF IInv, StackInv
<1>2. Kinds = [i \in 1 .. Len(stack) |-> stack[i].kind]
  BY <1>1 DEF Kinds
<1>3. \A i \in 1 .. Len(stack) : Kinds[i] = stack[i].kind
  BY <1>2
<1>4. Kinds \in [1 .. Len(stack) -> Range(Kinds)]
  BY <1>2 DEF Range
<1>5. Kinds \in Seq(Range(Kinds)) /\ Len(Kinds) = Len(stack)
  BY <1>1, <1>4
<1>6. Kinds[1] = "boot" /\ Kinds[2] = "home"
  BY <1>1, <1>3 DEF IInv, StackInv, PathInv, Boot
<1> DEFINE k == Kinds
<1> HIDE DEF k
<1>7. k \in Seq(Range(k)) /\ Len(k) = Len(stack)
  BY <1>5 DEF k
<1>8. SubSeq(k, 1, Len(k)) = k
  BY <1>7
<1>9. SubSeq(k, 1, 2) = <<"boot", "home">>
  BY <1>1, <1>6, <1>7, FirstTwo DEF k
<1> QED BY <1>3, <1>5, <1>6, <1>7, <1>8, <1>9 DEF k

LEMMA IsPath == ASSUME IInv, Len(stack) >= 2 PROVE Descends
<1> DEFINE ks == Kinds
           P(n) == SubSeq(ks, 1, n)
<1>1. /\ ks \in Seq(Range(ks)) /\ Len(ks) = Len(stack)
      /\ \A i \in 1 .. Len(stack) : ks[i] = stack[i].kind
      /\ P(2) = <<"boot", "home">> /\ P(Len(stack)) = ks
  BY KindsAre
<1>2. Len(stack) \in 2 .. 5
  BY TopIs DEF IInv, StackInv, PathInv
<1>3. /\ Len(stack) >= 3 => ks[3] = "survey"
      /\ Len(stack) >= 4 => ks[4] \in {"focus"} \cup Acting
      /\ Len(stack) >= 5 => ks[4] = "focus" /\ ks[5] \in Acting
  BY <1>1, <1>2 DEF IInv, StackInv, PathInv
<1> HIDE DEF ks
<1>4. ASSUME NEW n \in 2 .. 4, n < Len(stack)
      PROVE  P(n) \o <<ks[n + 1]>> = P(n + 1) /\ P(n) \o <<>> = P(n) /\ P(n + 1) \o <<>> = P(n + 1)
  BY <1>1, <1>4, Grown
<1>5. CASE Len(stack) = 2
  <2>1. P(2) \o <<>> = P(2)
    <3>1. ks = P(2)
      BY <1>1, <1>5
    <3> QED BY <1>1, <3>1, ConcatEmptySeq
  <2> HIDE DEF P
  <2>2. ks = P(2) \o <<>> \o <<>> \o <<>>
    BY <1>1, <1>5, <2>1
  <2> QED BY <1>1, <2>2 DEF ks, Descends
<1>6. CASE Len(stack) = 3
  <2>1. P(2) \o <<"survey">> = P(3) /\ P(3) \o <<>> = P(3)
    BY <1>4, <1>3, <1>6
  <2> HIDE DEF P
  <2>2. ks = P(2) \o <<"survey">> \o <<>> \o <<>>
    BY <1>1, <1>6, <2>1
  <2> QED BY <1>1, <2>2 DEF ks, Descends
<1>7. CASE Len(stack) = 4
  <2>1. P(2) \o <<"survey">> = P(3) /\ P(3) \o <<>> = P(3)
    BY <1>4, <1>3, <1>7
  <2>2. P(3) \o <<ks[4]>> = P(4) /\ P(4) \o <<>> = P(4)
    BY <1>4, <1>7
  <2> HIDE DEF P
  <2>3. CASE ks[4] = "focus"
    <3>1. ks = P(2) \o <<"survey">> \o <<"focus">> \o <<>>
      BY <1>1, <1>7, <2>1, <2>2, <2>3
    <3> QED BY <1>1, <3>1 DEF ks, Descends
  <2>4. CASE ks[4] \in Acting
    <3> DEFINE act == <<ks[4]>>
    <3>1. act \in {<<k>> : k \in Acting}
      BY <2>4
    <3>2. P(3) \o act = P(4)
      BY <2>2
    <3> HIDE DEF act
    <3>3. ks = P(2) \o <<"survey">> \o <<>> \o act
      BY <1>1, <1>7, <2>1, <3>2
    <3> QED BY <1>1, <3>1, <3>3 DEF ks, Descends
  <2> QED BY <1>3, <1>7, <2>3, <2>4
<1>8. CASE Len(stack) = 5
  <2>1. P(2) \o <<"survey">> = P(3)
    BY <1>4, <1>3, <1>8
  <2>2. P(3) \o <<"focus">> = P(4) /\ P(4) \o <<ks[5]>> = P(5)
    BY <1>4, <1>3, <1>8
  <2> DEFINE act == <<ks[5]>>
  <2>3. act \in {<<k>> : k \in Acting}
    BY <1>3, <1>8
  <2>4. P(4) \o act = P(5)
    BY <2>2
  <2> HIDE DEF P, act
  <2>5. ks = P(2) \o <<"survey">> \o <<"focus">> \o act
    BY <1>1, <1>8, <2>1, <2>2, <2>4
  <2> QED BY <1>1, <2>3, <2>5 DEF ks, Descends
<1> QED BY <1>2, <1>5, <1>6, <1>7, <1>8

LEMMA IInvIsAPath == ASSUME IInv PROVE IsAPath
<1>1. Len(stack) \in Nat /\ Len(stack) >= 1 /\ stack \in Seq(Range(stack)) /\ stack[1] = Boot
  BY TopIs DEF IInv, StackInv, PageInv, PathInv
<1>2. CASE Len(stack) = 1
  <2>1. stack = <<Boot>>
    BY <1>1, <1>2
  <2>2. BagToSet(flight) = {Push(Home)}
    BY <1>2 DEF IInv, BootInv, BagToSet
  <2> QED BY <2>1, <2>2, IsTyped DEF IsAPath
<1>3. CASE Len(stack) >= 2
  BY <1>3, IsPath, IsTyped DEF IsAPath
<1>4. Len(stack) = 1 \/ Len(stack) >= 2
  <2>1. Len(stack) \in Nat /\ Len(stack) >= 1
    BY <1>1, Zenon
  <2> QED BY <2>1, SMTT(20)
<1> QED BY <1>2, <1>3, <1>4, Zenon

\* Whatever is pushed, popped and put in place of what, and whenever the messages
\* that say so are handled (root.Update), the stack is a path down from home:
\* popping never leaves the operator on boot, or on a page of an action with none
\* of the pages it is begun from below it.
THEOREM StackIsAPath == ASSUME Patient PROVE Spec => []IsAPath
  BY PagesInvariant, IInvIsAPath, PTL

\* The result of an action lies on the page that it was begun on, and the answer it
\* shows is the answer to the call it names, although frameActionDoneMsg does not say
\* which call that is (page_running.go, page_confirm.go).
THEOREM ResultsLand == ASSUME Patient PROVE Spec => []ResultLands
<1>1. IInv => ResultLands
  BY DEF IInv, StackInv
<1> QED BY <1>1, PagesInvariant, PTL

------------------------------------------------------------------------------
\* The correlation of reports and loads.

\* What is minted has a call, an accepted call has a job, and a token is waited for
\* once its accept has been folded; forget leaves nobody waiting.
CallInv ==
    /\ \A t \in Token : kind[t] = "none" <=> t > minted
    /\ \A t \in Token : call[t] = "none" <=> t > minted
    /\ \A t \in Token : t > minted => answer[t] = "none"
    /\ \A t \in Token : answer[t] = "accepted" <=> job[t] # "none"

KnownInv ==
    /\ \A t \in known : kind[t] = "survey" /\ call[t] = "folded"
    /\ \A t \in cellKnown : kind[t] = "cells" /\ call[t] = "folded"
    /\ \A t \in superseded : call[t] = "folded" /\ t \notin known \cup cellKnown

TokenInv == SurfaceTypeOK /\ CallInv /\ KnownInv

State == {"running", "done", "failed"}
Screens == [loading : BOOLEAN, err : BOOLEAN, shows : Token \cup {None},
            cells : {"plain", "pending", "filled", "error"}]

\* The report that ends t's job has been parked.
EndParked(t) == \E i \in DOMAIN parked[t] : IsTerminal(parked[t][i])

\* What comes next finds room: a report in the stream, an update in the parking area.
Roomy ==
    /\ \A t \in Token : job[t] = "running" => Len(stream) < UpdatesBuffer
    /\ stream # <<>> /\ parked[Listened.token] = <<>> => Len(order) < ParkedCap

\* No end is lost, and none is waited for that has been parked.
EndInv ==
    /\ Len(order) <= ParkedCap
    /\ \A t \in Token : call[t] # "folded" /\ job[t] # "none" => EndToCome(t) \/ EndParked(t)
    /\ \A t \in known \cup cellKnown : EndToCome(t) /\ parked[t] = <<>>

\* A token has one report under way and one end in the stream at most, and a place
\* in the order while it has something parked.
OneEach ==
    /\ \A i, j \in DOMAIN stream :
           /\ stream[i].token = stream[j].token
           /\ IsTerminal(stream[i].state) <=> IsTerminal(stream[j].state)
           => i = j
    /\ \A i \in DOMAIN stream : IsTerminal(stream[i].state) => job[stream[i].token] = "ended"

InOrder ==
    /\ \A i, j \in DOMAIN order : order[i] = order[j] => i = j
    /\ \A t \in Token : parked[t] # <<>> <=> \E i \in DOMAIN order : order[i] = t

CountInv == OneEach /\ InOrder

Deep == UpdatesBuffer >= 2 * MaxTokens /\ ParkedCap >= MaxTokens

------------------------------------------------------------------------------
LEMMA Least == ASSUME NEW S \in SUBSET Nat, S # {} PROVE \E n \in S : \A k \in S : n <= k
<1>1. PICK n \in S : \A k \in S : ~ (<<k, n>> \in OpToRel(<, Nat))
  BY NatLessThanWellFounded, WFMin
<1>2. \A k \in S : ~(k < n)
  BY <1>1, Zenon DEF OpToRel
<1> QED BY <1>2

LEMMA NoneIs == None \notin Token /\ Token \subseteq Nat \ {0} /\ MaxTokens \in Nat
  BY CorrelationAssumption DEF None, Token

\* One update shows the rows of its own token, or what was shown.
LEMMA AppliedIs ==
    ASSUME NEW t \in Token, NEW s \in Screens, NEW state \in State
    PROVE  /\ Applied(s, t, state) \in Screens /\ Applied(s, t, state).shows \in {s.shows, t}
           /\ Apply(s, t, state) \in Screens /\ Apply(s, t, state).shows \in {s.shows, t}
           /\ ApplyCell(s, state) \in Screens /\ ApplyCell(s, state).shows = s.shows
<1>1. Projected(s, t) \in Screens /\ Projected(s, t).shows = t
  BY DEF Projected, Screens
<1>2. Failed(s) \in Screens /\ Failed(s).shows = s.shows
  BY DEF Failed, Screens
<1>3. \A how \in {"filled", "error"} : Painted(s, how) \in Screens /\ Painted(s, how).shows = s.shows
  BY DEF Painted, Screens
<1>4. Apply(s, t, state) \in Screens /\ Apply(s, t, state).shows \in {s.shows, t}
  BY <1>1, <1>2 DEF Apply, State
<1>5. ApplyCell(s, state) \in Screens /\ ApplyCell(s, state).shows = s.shows
  BY <1>3 DEF ApplyCell, State
<1> QED BY <1>4, <1>5 DEF Applied

\* So does the replay of all that is parked under a token, however much it is.
LEMMA ReplayIs ==
    ASSUME NEW t \in Token, NEW s \in Screens, parked[t] \in Seq(State)
    PROVE  Replay(s, t) \in Screens /\ Replay(s, t).shows \in {s.shows, t}
<1> DEFINE N == Len(parked[t])
           Step(n, x) == Applied(x, t, parked[t][n])
           Shown == {x \in Screens : x.shows \in {s.shows, t}}
           Upto(f, n) == f[0] = s /\ \A i \in 1 .. n : f[i] = Step(i, f[i - 1])
           Has(n) == \E f \in [0 .. n -> Shown] : Upto(f, n)
           Bad == {n \in 0 .. N : ~Has(n)}
<1>1. N \in Nat /\ \A i \in 1 .. N : parked[t][i] \in State
  OBVIOUS
<1>2. s \in Shown /\ \A i \in 1 .. N : \A x \in Shown : Step(i, x) \in Shown
  BY <1>1, AppliedIs, ZenonT(30)
<1> HIDE DEF Step, Shown, N
<1>3. Bad = {}
  <2> SUFFICES ASSUME NEW x \in Bad PROVE FALSE
    OBVIOUS
  <2>1. Bad \in SUBSET Nat /\ Bad # {}
    BY <1>1
  <2>2. PICK n \in Bad : \A k \in Bad : n <= k
    <3> HIDE DEF Bad
    <3> QED BY <2>1, Least
  <2>3. n \in Nat /\ n <= N /\ ~Has(n)
    BY <1>1, <2>2, SMTT(20)
  <2>4. CASE n = 0
    <3>1. [i \in 0 .. 0 |-> s] \in [0 .. 0 -> Shown] /\ Upto([i \in 0 .. 0 |-> s], 0)
      BY <1>2
    <3> QED BY <2>3, <2>4, <3>1
  <2>5. CASE n # 0
    <3>1. n - 1 \in 0 .. N /\ n - 1 \notin Bad
      <4>1. n - 1 \in 0 .. N /\ ~(n <= n - 1)
        BY <1>1, <2>3, <2>5
      <4> HIDE DEF Bad
      <4> QED BY <2>2, <4>1
    <3>2. PICK f \in [0 .. n - 1 -> Shown] : Upto(f, n - 1)
      BY <3>1
    <3> DEFINE g == [i \in 0 .. n |-> IF i = n THEN Step(n, f[n - 1]) ELSE f[i]]
    <3>3. Step(n, f[n - 1]) \in Shown
      BY <1>1, <1>2, <2>3, <2>5, <3>2
    <3>4. g \in [0 .. n -> Shown]
      BY <3>3, <3>2, <2>3
    <3>5. Upto(g, n)
      BY <2>3, <2>5, <3>2
    <3> QED BY <2>3, <3>4, <3>5
  <2> QED BY <2>4, <2>5
<1>4. PICK f \in [0 .. N -> Shown] : Upto(f, N)
  BY <1>1, <1>3
<1> DEFINE Rec(k) == k = [n \in 0 .. N |-> IF n = 0 THEN s ELSE Step(n, k[n - 1])]
           replay == CHOOSE k : Rec(k)
<1>5. Rec(f)
  <2>1. \A n \in 0 .. N : f[n] = IF n = 0 THEN s ELSE Step(n, f[n - 1])
    BY <1>1, <1>4
  <2> QED BY <1>4, <2>1
<1>6. Rec(replay)
  BY <1>5
<1>7. Replay(s, t) = replay[N]
  BY DEF Replay, Step, N
<1> HIDE DEF replay
<1> DEFINE Off == {n \in 0 .. N : replay[n] \notin Shown}
<1>8. \A n \in 0 .. N : replay[n] = IF n = 0 THEN s ELSE Step(n, replay[n - 1])
  BY <1>6
<1>9. Off = {}
  <2> SUFFICES ASSUME NEW x \in Off PROVE FALSE
    OBVIOUS
  <2>1. Off \in SUBSET Nat /\ Off # {}
    BY <1>1
  <2>2. PICK n \in Off : \A k \in Off : n <= k
    <3> HIDE DEF Off
    <3> QED BY <2>1, Least
  <2>3. n # 0
    BY <1>2, <1>8, <2>2
  <2>4. n \in 1 .. N /\ n - 1 \in 0 .. N /\ n - 1 \notin Off
    BY <1>1, <2>2, <2>3
  <2> QED BY <1>1, <1>2, <1>8, <2>2, <2>3, <2>4
<1>10. replay[N] \in Shown
  BY <1>1, <1>9
<1> QED BY <1>7, <1>10 DEF Shown

\* RemoveFirst takes one entry out, of a sequence without repetitions the only one.
LEMMA RemovedIs ==
    ASSUME NEW S, NEW s \in Seq(S), NEW x
    PROVE  LET r == RemoveFirst(s, x) IN
           /\ r \in Seq(S) /\ Len(r) <= Len(s)
           /\ (\A i, j \in DOMAIN s : s[i] = s[j] => i = j) =>
                  /\ \A i, j \in DOMAIN r : r[i] = r[j] => i = j
                  /\ \A y : (\E i \in DOMAIN r : r[i] = y) <=> y # x /\ \E i \in DOMAIN s : s[i] = y
<1> DEFINE I == {i \in 1 .. Len(s) : s[i] = x}
<1>0. Len(s) \in Nat /\ DOMAIN s = 1 .. Len(s)
  OBVIOUS
<1>1. CASE I = {}
  <2>1. RemoveFirst(s, x) = s
    BY <1>1 DEF RemoveFirst
  <2> QED BY <1>0, <1>1, <2>1
<1>2. CASE I # {}
  <2> DEFINE n == CHOOSE k \in I : \A j \in I : k <= j
  <2>1. n \in I
    <3>1. I \in SUBSET Nat
      BY <1>0
    <3>2. \E k \in I : \A j \in I : k <= j
      <4> HIDE DEF I
      <4> QED BY <1>2, <3>1, Least
    <3> QED BY <3>2
  <2>2. SelectInSeq(s, LAMBDA v : v = x) = n
    BY <1>2 DEF SelectInSeq, Min
  <2>3. RemoveFirst(s, x) = SubSeq(s, 1, n - 1) \o SubSeq(s, n + 1, Len(s))
    BY <1>2, <2>2 DEF RemoveFirst, RemoveAt
  <2> HIDE DEF n
  <2>4. n \in 1 .. Len(s) /\ s[n] = x
    BY <2>1
  <2> DEFINE a == SubSeq(s, 1, n - 1)
             b == SubSeq(s, n + 1, Len(s))
  <2>5. a \in Seq(S) /\ Len(a) = n - 1 /\ \A i \in 1 .. n - 1 : a[i] = s[i]
    BY <1>0, <2>4
  <2>6. b \in Seq(S) /\ Len(b) = Len(s) - n /\ \A i \in 1 .. Len(s) - n : b[i] = s[n + i]
    <3>1. n + 1 \in Int /\ Len(s) \in Int /\ \A i \in n + 1 .. Len(s) : s[i] \in S
      BY <1>0, <2>4
    <3>2. /\ b \in Seq(S) /\ Len(b) = IF n + 1 <= Len(s) THEN Len(s) - (n + 1) + 1 ELSE 0
          /\ \A i \in 1 .. Len(s) - (n + 1) + 1 : b[i] = s[n + 1 + i - 1]
      BY <3>1, SubSeqProperties
    <3> HIDE DEF b
    <3>3. Len(b) = Len(s) - n
      <4>1. \A l \in Nat : \A k \in 1 .. l : (IF k + 1 <= l THEN l - (k + 1) + 1 ELSE 0) = l - k
        OBVIOUS
      <4>2. Len(b) = IF n + 1 <= Len(s) THEN Len(s) - (n + 1) + 1 ELSE 0
        BY <3>2
      <4> QED BY <1>0, <2>4, <4>1, <4>2, Zenon
    <3>4. \A i \in 1 .. Len(s) - n : i \in 1 .. Len(s) - (n + 1) + 1 /\ n + 1 + i - 1 = n + i
      BY <1>0, <2>4
    <3> QED BY <3>2, <3>3, <3>4
  <2> HIDE DEF a, b
  <2> DEFINE r == a \o b
  <2>7. /\ r \in Seq(S) /\ Len(r) = Len(s) - 1
        /\ \A i \in 1 .. Len(s) - 1 : r[i] = IF i < n THEN s[i] ELSE s[i + 1]
    <3>1. Len(a) + Len(b) = Len(s) - 1
      BY <1>0, <2>4, <2>5, <2>6
    <3>2. /\ r \in Seq(S) /\ Len(r) = Len(s) - 1
          /\ \A i \in 1 .. Len(s) - 1 : r[i] = IF i <= Len(a) THEN a[i] ELSE b[i - Len(a)]
      BY <2>5, <2>6, <3>1, ConcatProperties
    <3> HIDE DEF r
    <3>3. ASSUME NEW i \in 1 .. Len(s) - 1 PROVE r[i] = IF i < n THEN s[i] ELSE s[i + 1]
      BY <1>0, <2>4, <2>5, <2>6, <3>2
    <3> QED BY <3>2, <3>3
  <2>8. RemoveFirst(s, x) = r
    BY <2>3 DEF a, b
  <2> HIDE DEF r
  <2>9. DOMAIN r = 1 .. Len(s) - 1 /\ Len(r) <= Len(s)
    BY <1>0, <2>7
  <2>10. ASSUME \A i, j \in DOMAIN s : s[i] = s[j] => i = j
         PROVE  \A i, j \in DOMAIN r : r[i] = r[j] => i = j
    <3> SUFFICES ASSUME NEW i \in DOMAIN r, NEW j \in DOMAIN r, r[i] = r[j] PROVE i = j
      OBVIOUS
    <3> DEFINE P(k) == IF k < n THEN k ELSE k + 1
    <3>1. \A k \in DOMAIN r : P(k) \in 1 .. Len(s) /\ r[k] = s[P(k)]
      BY <1>0, <2>4, <2>7, <2>9
    <3>2. P(i) = P(j)
      <4> HIDE DEF P
      <4> QED BY <1>0, <2>10, <3>1
    <3> QED BY <1>0, <2>4, <2>9, <3>2
  <2>11. ASSUME \A i, j \in DOMAIN s : s[i] = s[j] => i = j, NEW y
         PROVE  (\E i \in DOMAIN r : r[i] = y) <=> y # x /\ \E i \in DOMAIN s : s[i] = y
    <3>1. ASSUME NEW i \in DOMAIN r, r[i] = y PROVE y # x /\ \E j \in DOMAIN s : s[j] = y
      BY <1>0, <2>4, <2>7, <2>9, <2>11, <3>1, SMTT(20)
    <3>2. ASSUME y # x, NEW j \in DOMAIN s, s[j] = y PROVE \E i \in DOMAIN r : r[i] = y
      <4>1. CASE j < n
        BY <1>0, <2>4, <2>7, <2>9, <3>2, <4>1
      <4>2. CASE j > n
        <5>1. j - 1 \in DOMAIN r /\ r[j - 1] = s[j]
          BY <1>0, <2>4, <2>7, <2>9, <3>2, <4>2
        <5> QED BY <3>2, <5>1
      <4> QED BY <1>0, <2>4, <3>2, <4>1, <4>2
    <3> QED BY <3>1, <3>2
  <2> QED BY <2>7, <2>8, <2>9, <2>10, <2>11
<1> QED BY <1>1, <1>2

------------------------------------------------------------------------------
(* What is minted.                                                          *)

\* At most one token is minted, and newCall is what else the step does to calls.
Mints(newCall) ==
    /\ kind' \in [Token -> {"none", "survey", "cells"}]
    /\ call' \in [Token -> {"none", "calling", "answered", "folded"}]
    /\ minted' \in {minted, minted + 1} /\ minted' \in 0 .. MaxTokens
    /\ \A t \in Token : minted' = minted \/ t # minted + 1 =>
           kind'[t] = kind[t] /\ call'[t] = newCall[t]
    /\ minted' = minted + 1 => kind'[minted + 1] # "none" /\ call'[minted + 1] = "calling"

ModIs(show) ==
    /\ loading' \in BOOLEAN /\ err' \in BOOLEAN
    /\ cells' \in {"plain", "pending", "filled", "error"} /\ shows' = show

LEMMA ShowIs == ASSUME NEW s \in Screens, Show(s) PROVE ModIs(s.shows)
  BY DEF Show, Screens, ModIs

LEMMA ScreenIs == ASSUME SurfaceTypeOK PROVE Screen \in Screens /\ Screen.shows = shows
  BY DEF SurfaceTypeOK, Screen, Screens

LEMMA FireIs ==
    ASSUME SurfaceTypeOK, minted < MaxTokens, NEW k \in {"survey", "cells"}, Fire(k),
           NEW newCall \in [Token -> {"none", "calling", "answered", "folded"}],
           call' = [newCall EXCEPT ![minted + 1] = "calling"]
    PROVE  Mints(newCall)
<1>1. minted + 1 \in Token
  BY NoneIs DEF SurfaceTypeOK, Token
<1> QED BY <1>1, NoneIs DEF SurfaceTypeOK, Fire, Mints

LEMMA AfterSurveyIs ==
    ASSUME SurfaceTypeOK, NEW s \in Screens,
           NEW newCall \in [Token -> {"none", "calling", "answered", "folded"}],
           AfterSurvey(s, newCall)
    PROVE  Mints(newCall) /\ ModIs(s.shows)
<1>1. Painted(s, "filled") \in Screens /\ Painted(s, "filled").shows = s.shows
  BY DEF Painted, Screens
<1>2. [s EXCEPT !.cells = "pending"] \in Screens /\ [s EXCEPT !.cells = "pending"].shows = s.shows
  BY DEF Screens
<1>3. CASE /\ Show(IF WantsFill(s) THEN Painted(s, "filled") ELSE s)
           /\ call' = newCall
           /\ UNCHANGED <<minted, kind>>
  <2>1. ModIs(s.shows)
    BY <1>1, <1>3, ShowIs
  <2>2. Mints(newCall)
    BY <1>3, NoneIs DEF Mints, SurfaceTypeOK
  <2> QED BY <2>1, <2>2
<1>4. CASE /\ WantsFill(s) /\ minted < MaxTokens
           /\ Fire("cells")
           /\ call' = [newCall EXCEPT ![minted + 1] = "calling"]
           /\ Show([s EXCEPT !.cells = "pending"])
  BY <1>2, <1>4, ShowIs, FireIs
<1> QED BY <1>3, <1>4 DEF AfterSurvey

------------------------------------------------------------------------------
(* What each handler does: to calls, to the mod, and to the inbox.          *)

LEMMA BeginLoadIs ==
    ASSUME SurfaceTypeOK, BeginLoad
    PROVE  Mints(call) /\ ModIs(None)
<1>1. Mints(call)
  BY FireIs DEF BeginLoad, SurfaceTypeOK
<1> QED BY <1>1 DEF BeginLoad, ModIs, SurfaceTypeOK

Folded(t) == [call EXCEPT ![t] = "folded"]

LEMMA ApplyLoadIs ==
    ASSUME SurfaceTypeOK, NEW t \in Token, ApplyLoad(t)
    PROVE  /\ call[t] = "answered" /\ kind[t] = "survey"
           /\ Mints(Folded(t)) /\ (ModIs(shows) \/ ModIs(t))
           /\ UNCHANGED <<answer, job, stream, superseded>>
           /\ (answer[t] = "accepted" /\ Register(t)) \/ UNCHANGED inbox
<1>1. Folded(t) \in [Token -> {"none", "calling", "answered", "folded"}]
  BY DEF Folded, SurfaceTypeOK
<1>2. Screen \in Screens /\ Screen.shows = shows
  BY ScreenIs
<1>3. parked[t] \in Seq(State)
  BY DEF SurfaceTypeOK, State
<1>4. Replay(Screen, t) \in Screens /\ Replay(Screen, t).shows \in {shows, t}
  BY <1>2, <1>3, ReplayIs
<1>5. /\ Projected(Screen, t) \in Screens /\ Projected(Screen, t).shows = t
      /\ Failed(Screen) \in Screens /\ Failed(Screen).shows = shows
  BY <1>2 DEF Projected, Failed, Screens
<1>6. PICK s \in Screens : s.shows \in {shows, t} /\ AfterSurvey(s, Folded(t))
  BY <1>4, <1>5 DEF ApplyLoad, Folded
<1>7. Mints(Folded(t)) /\ ModIs(s.shows)
  BY <1>1, <1>6, AfterSurveyIs
<1> QED BY <1>6, <1>7 DEF ApplyLoad

LEMMA ApplyCellLoadIs ==
    ASSUME SurfaceTypeOK, NEW t \in Token, ApplyCellLoad(t)
    PROVE  /\ call[t] = "answered" /\ kind[t] = "cells"
           /\ Mints(Folded(t)) /\ (ModIs(shows) \/ ModIs(t))
           /\ UNCHANGED <<answer, job, stream, superseded>>
           /\ (answer[t] = "accepted" /\ Register(t)) \/ UNCHANGED inbox
<1>1. Mints(Folded(t))
  BY NoneIs DEF Folded, SurfaceTypeOK, ApplyCellLoad, Mints
<1>2. Screen \in Screens /\ Screen.shows = shows
  BY ScreenIs
<1>3. parked[t] \in Seq(State)
  BY DEF SurfaceTypeOK, State
<1>4. Replay(Screen, t) \in Screens /\ Replay(Screen, t).shows \in {shows, t}
  BY <1>2, <1>3, ReplayIs
<1>5. \A how \in {"filled", "error"} : Painted(Screen, how) \in Screens /\ Painted(Screen, how).shows = shows
  BY <1>2 DEF Painted, Screens
<1>6. PICK s \in Screens : s.shows \in {shows, t} /\ Show(s)
  BY <1>4, <1>5 DEF ApplyCellLoad
<1>7. ModIs(s.shows)
  BY <1>6, ShowIs
<1> QED BY <1>1, <1>6, <1>7 DEF ApplyCellLoad

LEMMA IngestIs ==
    ASSUME SurfaceTypeOK, Ingest
    PROVE  LET t == Listened.token
               state == Listened.state IN
           /\ t \in Token /\ state \in State
           /\ Mints(call)
           /\ \/ t \in known \cup cellKnown /\ (ModIs(shows) \/ ModIs(t))
              \/ t \notin known \cup cellKnown /\ ModIs(shows)
           /\ UNCHANGED <<answer, job, superseded>>
           /\ \/ /\ t \in known /\ known' = (IF IsTerminal(state) THEN known \ {t} ELSE known)
                 /\ UNCHANGED <<cellKnown, parked, order>>
              \/ /\ t \in cellKnown /\ cellKnown' = (IF IsTerminal(state) THEN cellKnown \ {t} ELSE cellKnown)
                 /\ UNCHANGED <<known, parked, order>>
              \/ t \notin known \cup cellKnown /\ Park(t, state) /\ UNCHANGED <<known, cellKnown>>
<1> DEFINE t == Listened.token
           state == Listened.state
<1>1. t \in Token /\ state \in State
  <2> DEFINE Report == [token : Token, state : State]
  <2>1. stream \in Seq(Report) /\ stream # <<>>
    BY DEF SurfaceTypeOK, Ingest, State
  <2>2. Head(stream) \in Report
    <3> HIDE DEF Report
    <3> QED BY <2>1, HeadTailProperties
  <2> QED BY <2>2 DEF Listened
<1>2. Screen \in Screens /\ Screen.shows = shows
  BY ScreenIs
<1>3. /\ Apply(Screen, t, state) \in Screens /\ Apply(Screen, t, state).shows \in {shows, t}
      /\ ApplyCell(Screen, state) \in Screens /\ ApplyCell(Screen, state).shows = shows
  BY <1>1, <1>2, AppliedIs
<1>4. call \in [Token -> {"none", "calling", "answered", "folded"}]
  BY DEF SurfaceTypeOK
<1>5. ASSUME UNCHANGED <<minted, kind, call>> PROVE Mints(call)
  BY <1>5, NoneIs DEF SurfaceTypeOK, Mints
<1> HIDE DEF t, state
<1>6. CASE /\ t \in known
           /\ known' = IF IsTerminal(state) THEN known \ {t} ELSE known
           /\ IF IsTerminal(state)
              THEN AfterSurvey(Apply(Screen, t, state), call)
              ELSE Show(Apply(Screen, t, state)) /\ UNCHANGED <<minted, kind, call>>
           /\ UNCHANGED <<cellKnown, parked, order>>
  <2>1. Mints(call) /\ ModIs(Apply(Screen, t, state).shows)
    BY <1>3, <1>4, <1>5, <1>6, AfterSurveyIs, ShowIs
  <2>2. ModIs(shows) \/ ModIs(t)
    BY <1>3, <2>1
  <2> QED BY <1>1, <1>6, <2>1, <2>2 DEF Ingest, t, state
<1>7. CASE /\ t \in cellKnown
           /\ cellKnown' = IF IsTerminal(state) THEN cellKnown \ {t} ELSE cellKnown
           /\ Show(ApplyCell(Screen, state))
           /\ UNCHANGED <<minted, kind, call, known, parked, order>>
  <2>1. Mints(call) /\ ModIs(shows)
    BY <1>3, <1>5, <1>7, ShowIs
  <2> QED BY <1>1, <1>7, <2>1 DEF Ingest, t, state
<1>8. CASE /\ t \notin known \cup cellKnown
           /\ Park(t, state)
           /\ UNCHANGED <<minted, kind, call, known, cellKnown, mod>>
  <2>1. Mints(call) /\ ModIs(shows)
    BY <1>5, <1>8 DEF mod, ModIs, SurfaceTypeOK
  <2> QED BY <1>1, <1>8, <2>1 DEF Ingest, t, state
<1> QED BY <1>6, <1>7, <1>8 DEF Ingest, t, state

\* The types of the inbox.
InboxOK ==
    /\ known \subseteq Token /\ cellKnown \subseteq Token
    /\ parked \in [Token -> Seq(State)] /\ order \in Seq(Token)

LEMMA RegisterIs ==
    ASSUME SurfaceTypeOK, NEW t \in Token, Register(t)
    PROVE  /\ InboxOK' /\ Len(order') <= Len(order)
           /\ parked' = [parked EXCEPT ![t] = <<>>] /\ order' = RemoveFirst(order, t)
           /\ kind[t] = "survey" =>
                  cellKnown' = cellKnown /\ known' = (IF EndParked(t) THEN known \ {t} ELSE known \cup {t})
           /\ kind[t] # "survey" =>
                  known' = known /\ cellKnown' = (IF EndParked(t) THEN cellKnown \ {t} ELSE cellKnown \cup {t})
<1>1. order \in Seq(Token) /\ parked \in [Token -> Seq(State)] /\ known \subseteq Token /\ cellKnown \subseteq Token
  BY DEF SurfaceTypeOK, State
<1>2. parked' = [parked EXCEPT ![t] = <<>>] /\ order' = RemoveFirst(order, t)
  BY DEF Register, Unpark
<1>3. order' \in Seq(Token) /\ Len(order') <= Len(order)
  BY <1>1, <1>2, RemovedIs
<1>4. parked' \in [Token -> Seq(State)]
  BY <1>1, <1>2
<1>5. /\ kind[t] = "survey" =>
             cellKnown' = cellKnown /\ known' = (IF EndParked(t) THEN known \ {t} ELSE known \cup {t})
      /\ kind[t] # "survey" =>
             known' = known /\ cellKnown' = (IF EndParked(t) THEN cellKnown \ {t} ELSE cellKnown \cup {t})
  BY DEF Register, EndParked
<1>6. known' \subseteq Token /\ cellKnown' \subseteq Token
  BY <1>1, <1>5
<1> QED BY <1>2, <1>3, <1>4, <1>5, <1>6 DEF InboxOK

\* What is parked never has a type of its own; when there is room nothing is evicted.
LEMMA ParkIs ==
    ASSUME SurfaceTypeOK, NEW t \in Token, NEW state \in State, Park(t, state)
    PROVE  /\ parked' \in [Token -> Seq(State)] /\ order' \in Seq(Token)
           /\ Len(order) <= ParkedCap /\ (parked[t] = <<>> => Len(order) < ParkedCap) =>
                  /\ parked' = [parked EXCEPT ![t] = Append(@, state)]
                  /\ order' = IF parked[t] = <<>> THEN Append(order, t) ELSE order
                  /\ Len(order') <= ParkedCap
<1> DEFINE fifo  == IF parked[t] = <<>> THEN Append(order, t) ELSE order
           over  == Len(fifo) > ParkedCap
           evict == Head(fifo)
           kept  == IF over THEN [parked EXCEPT ![evict] = <<>>] ELSE parked
<1>1. order \in Seq(Token) /\ parked \in [Token -> Seq(State)] /\ ParkedCap \in Nat
  BY CorrelationAssumption DEF SurfaceTypeOK, State
<1>2. /\ order' = IF over THEN Tail(fifo) ELSE fifo
      /\ parked' = [kept EXCEPT ![t] = Append(@, state)]
  BY DEF Park
<1>3. fifo \in Seq(Token) /\ Len(fifo) \in Nat
  BY <1>1
<1>4. Len(order) <= ParkedCap /\ (parked[t] = <<>> => Len(order) < ParkedCap) => ~over
  BY <1>1
<1>5. kept \in [Token -> Seq(State)]
  BY <1>1
<1>6. over => Tail(fifo) \in Seq(Token)
  <2> HIDE DEF fifo
  <2>1. over => fifo # <<>>
    BY <1>1
  <2> QED BY <1>3, <2>1, HeadTailProperties
<1>7. order' \in Seq(Token)
  BY <1>2, <1>3, <1>6
<1>8. parked' \in [Token -> Seq(State)]
  <2> HIDE DEF kept
  <2> QED BY <1>2, <1>5
<1>9. ~over => parked' = [parked EXCEPT ![t] = Append(@, state)] /\ order' = fifo /\ Len(order') <= ParkedCap
  <2> HIDE DEF fifo
  <2> QED BY <1>1, <1>2, <1>3
<1> HIDE DEF over
<1> QED BY <1>4, <1>7, <1>8, <1>9

LEMMA DeliverIs ==
    ASSUME SurfaceTypeOK, NEW t \in Token, NEW state \in State, Deliver(t, state)
    PROVE  /\ job' \in [Token -> {"none", "running", "ended"}]
           /\ stream' \in Seq([token : Token, state : State])
           /\ UNCHANGED <<calls, inbox, mod, superseded>>
           /\ \A u \in Token : job'[u] = "none" <=> job[u] = "none"
           /\ \A i \in DOMAIN stream : i \in DOMAIN stream' /\ stream'[i] = stream[i]
           /\ Len(stream) < UpdatesBuffer => stream' = Append(stream, [token |-> t, state |-> state])
<1> DEFINE Report == [token : Token, state : State]
           r == [token |-> t, state |-> state]
<1>1. stream \in Seq(Report) /\ r \in Report
  BY DEF SurfaceTypeOK, State
<1>2. /\ job' \in [Token -> {"none", "running", "ended"}]
      /\ \A u \in Token : job'[u] = "none" <=> job[u] = "none"
  BY DEF Deliver, SurfaceTypeOK
<1>3. stream' = Append(stream, r) \/ stream' = stream
  BY DEF Deliver
<1>4. Len(stream) < UpdatesBuffer => stream' = Append(stream, r)
  BY DEF Deliver
<1> HIDE DEF Report, r
<1>5. stream' \in Seq(Report)
  BY <1>1, <1>3
<1>6. \A i \in DOMAIN stream : i \in DOMAIN stream' /\ stream'[i] = stream[i]
  BY <1>1, <1>3
<1> QED BY <1>2, <1>4, <1>5, <1>6 DEF Deliver, Report, r

\* A state in which nothing but these changes.
LEMMA TypesFrom ==
    ASSUME SurfaceTypeOK, NEW newCall, NEW show \in Token \cup {None}, Mints(newCall), ModIs(show),
           UNCHANGED <<answer, job>>, superseded' \subseteq Token,
           stream' \in Seq([token : Token, state : State]), InboxOK'
    PROVE  SurfaceTypeOK'
BY DEF SurfaceTypeOK, Mints, ModIs, InboxOK, State

LEMMA StreamIs == ASSUME SurfaceTypeOK PROVE stream \in Seq([token : Token, state : State]) /\ InboxOK
  BY DEF SurfaceTypeOK, State, InboxOK

LEMMA TypeStep == ASSUME SurfaceTypeOK, [SurfaceNext]_surfaceVars PROVE SurfaceTypeOK'
<1>0. /\ stream \in Seq([token : Token, state : State]) /\ InboxOK
      /\ superseded \subseteq Token /\ shows \in Token \cup {None}
  BY StreamIs DEF SurfaceTypeOK
<1>1. CASE BeginLoad
  <2>1. Mints(call) /\ ModIs(None) /\ UNCHANGED <<answer, job, stream>>
    BY <1>1, BeginLoadIs DEF BeginLoad
  <2>2. superseded' \subseteq Token /\ InboxOK'
    BY <1>0, <1>1 DEF BeginLoad, Forget, InboxOK
  <2> QED BY <1>0, <2>1, <2>2, TypesFrom
<1>2. ASSUME NEW t \in Token, Accept(t) PROVE SurfaceTypeOK'
  BY <1>2 DEF SurfaceTypeOK, Accept, inbox, mod
<1>3. ASSUME NEW t \in Token, Answer(t) PROVE SurfaceTypeOK'
  BY <1>3 DEF SurfaceTypeOK, Answer, inbox, mod
<1>4. ASSUME NEW t \in Token, NEW state \in State, Deliver(t, state) PROVE SurfaceTypeOK'
  BY <1>4, DeliverIs, ZenonT(30) DEF SurfaceTypeOK, calls, inbox, mod, State
<1>5. ASSUME NEW t \in Token, ApplyLoad(t) \/ ApplyCellLoad(t) PROVE SurfaceTypeOK'
  <2>1. /\ Mints(Folded(t)) /\ (ModIs(shows) \/ ModIs(t))
        /\ UNCHANGED <<answer, job, stream, superseded>>
        /\ Register(t) \/ UNCHANGED inbox
    BY <1>5, ApplyLoadIs, ApplyCellLoadIs
  <2>2. InboxOK'
    BY <1>0, <2>1, RegisterIs DEF InboxOK, inbox
  <2> QED BY <1>0, <2>1, <2>2, TypesFrom
<1>6. CASE Ingest
  <2> DEFINE t == Listened.token
             state == Listened.state
  <2>1. /\ t \in Token /\ state \in State
        /\ Mints(call) /\ (ModIs(shows) \/ ModIs(t)) /\ UNCHANGED <<answer, job, superseded>>
        /\ \/ /\ t \in known /\ known' = (IF IsTerminal(state) THEN known \ {t} ELSE known)
              /\ UNCHANGED <<cellKnown, parked, order>>
           \/ /\ t \in cellKnown /\ cellKnown' = (IF IsTerminal(state) THEN cellKnown \ {t} ELSE cellKnown)
              /\ UNCHANGED <<known, parked, order>>
           \/ t \notin known \cup cellKnown /\ Park(t, state) /\ UNCHANGED <<known, cellKnown>>
    BY <1>6, IngestIs
  <2> HIDE DEF t, state
  <2>2. InboxOK'
    BY <1>0, <2>1, ParkIs DEF InboxOK
  <2>3. stream' \in Seq([token : Token, state : State])
    <3> DEFINE Report == [token : Token, state : State]
    <3>1. stream \in Seq(Report) /\ stream # <<>> /\ stream' = Tail(stream)
      BY <1>0, <1>6 DEF Ingest
    <3> HIDE DEF Report
    <3>2. stream' \in Seq(Report)
      BY <3>1, HeadTailProperties
    <3> QED BY <3>2 DEF Report
  <2> QED BY <1>0, <2>1, <2>2, <2>3, TypesFrom
<1>7. CASE UNCHANGED surfaceVars
  BY <1>7 DEF SurfaceTypeOK, surfaceVars, calls, inbox, mod
<1> QED
  BY <1>1, <1>2, <1>3, <1>4, <1>5, <1>6, <1>7 DEF SurfaceNext, Update, Progress, State

\* Nothing a handler does to calls undoes what is known of them.
LEMMA MintsKeeps ==
    ASSUME SurfaceTypeOK, CallInv, UNCHANGED <<answer, job>>,
           NEW newCall, Mints(newCall),
           newCall = call \/ \E u \in Token : call[u] = "answered" /\ newCall = Folded(u)
    PROVE  /\ CallInv'
           /\ \A t \in Token : call[t] # "none" => kind'[t] = kind[t] /\ call'[t] = newCall[t]
           /\ \A t \in Token : call[t] = "folded" => call'[t] = "folded" /\ kind'[t] = kind[t]
           /\ \A t \in Token : call'[t] # "folded" => call[t] # "folded"
<1>1. /\ minted \in Nat /\ minted' \in Nat /\ \A t \in Token : t \in Nat
      /\ call \in [Token -> {"none", "calling", "answered", "folded"}]
  BY NoneIs DEF SurfaceTypeOK, Mints
<1>2. \A t \in Token : /\ newCall[t] = "none" <=> call[t] = "none"
                       /\ call[t] = "folded" => newCall[t] = "folded"
  BY <1>1 DEF Folded
<1>3. \A t \in Token : call[t] # "none" => t # minted + 1
  BY <1>1 DEF CallInv
<1>4. \A t \in Token : call[t] # "none" => kind'[t] = kind[t] /\ call'[t] = newCall[t]
  BY <1>3 DEF Mints
<1>5. \A t \in Token : call[t] = "folded" => call'[t] = "folded" /\ kind'[t] = kind[t]
  BY <1>2, <1>4
<1>6. CASE minted' = minted
  <2>1. \A t \in Token : kind'[t] = kind[t] /\ call'[t] = newCall[t]
    BY <1>6 DEF Mints
  <2>2. CallInv'
    BY <1>2, <1>6, <2>1 DEF CallInv
  <2> QED BY <1>4, <1>5, <2>2
<1>7. CASE minted' = minted + 1
  <2>1. \A t \in Token : t # minted + 1 => kind'[t] = kind[t] /\ call'[t] = newCall[t]
    BY <1>1, <1>7 DEF Mints
  <2>2. \A t \in Token : t > minted' <=> t > minted /\ t # minted + 1
    BY <1>1, <1>7
  <2>3. kind'[minted + 1] # "none" /\ call'[minted + 1] = "calling"
    BY <1>7 DEF Mints
  <2>4. \A t \in Token : /\ kind'[t] = "none" <=> t > minted'
                         /\ call'[t] = "none" <=> t > minted'
                         /\ t > minted' => answer'[t] = "none"
    <3> SUFFICES ASSUME NEW t \in Token
                 PROVE  /\ kind'[t] = "none" <=> t > minted'
                        /\ call'[t] = "none" <=> t > minted'
                        /\ t > minted' => answer'[t] = "none"
      OBVIOUS
    <3>1. CASE t = minted + 1
      <4>1. ~(t > minted')
        BY <1>1, <1>7, <3>1
      <4> QED BY <2>3, <3>1, <4>1
    <3>2. CASE t # minted + 1
      BY <1>2, <2>1, <2>2, <3>2 DEF CallInv
    <3> QED BY <3>1, <3>2
  <2>5. CallInv'
    BY <2>4 DEF CallInv
  <2> QED BY <1>4, <1>5, <2>5
<1> QED BY <1>6, <1>7 DEF Mints

LEMMA Unfolded == ASSUME SurfaceTypeOK, NEW t \in Token PROVE Folded(t)[t] = "folded" /\ \A u \in Token : u # t => Folded(t)[u] = call[u]
  BY DEF SurfaceTypeOK, Folded

LEMMA TokenStep == ASSUME TokenInv, [SurfaceNext]_surfaceVars PROVE TokenInv'
<1>0. SurfaceTypeOK /\ CallInv /\ KnownInv /\ SurfaceTypeOK'
  BY TypeStep DEF TokenInv
<1>00. known \subseteq Token /\ cellKnown \subseteq Token /\ superseded \subseteq Token
  BY <1>0 DEF SurfaceTypeOK
<1>1. CASE BeginLoad
  <2>1. Mints(call) /\ UNCHANGED <<answer, job>>
    BY <1>0, <1>1, BeginLoadIs DEF BeginLoad
  <2>2. CallInv' /\ \A t \in Token : call[t] = "folded" => call'[t] = "folded"
    BY <1>0, <2>1, MintsKeeps
  <2>3. KnownInv'
    BY <1>0, <1>00, <1>1, <2>2 DEF KnownInv, BeginLoad, Forget
  <2> QED BY <1>0, <2>2, <2>3 DEF TokenInv
<1>2. ASSUME NEW t \in Token, Accept(t) PROVE TokenInv'
  <2>1. CallInv'
    BY <1>0, <1>2 DEF CallInv, Accept, SurfaceTypeOK
  <2>2. KnownInv'
    BY <1>0, <1>2 DEF KnownInv, Accept, inbox, mod
  <2> QED BY <1>0, <2>1, <2>2 DEF TokenInv
<1>3. ASSUME NEW t \in Token, Answer(t) PROVE TokenInv'
  <2>1. /\ call' = [call EXCEPT ![t] = "answered"] /\ call[t] = "calling"
        /\ UNCHANGED <<minted, kind, job, inbox, superseded>>
        /\ \/ answer[t] = "accepted" /\ answer' = answer
           \/ answer[t] # "accepted" /\ \E a \in {"inline", "error"} : answer' = [answer EXCEPT ![t] = a]
    BY <1>3 DEF Answer
  <2>2. CallInv'
    BY <1>0, <2>1 DEF CallInv, SurfaceTypeOK
  <2>3. KnownInv'
    BY <1>0, <1>00, <2>1 DEF KnownInv, inbox, SurfaceTypeOK
  <2> QED BY <1>0, <2>2, <2>3 DEF TokenInv
<1>4. ASSUME NEW t \in Token, NEW state \in State, Deliver(t, state) PROVE TokenInv'
  <2>1. UNCHANGED <<calls, inbox, superseded>> /\ \A u \in Token : job'[u] = "none" <=> job[u] = "none"
    BY <1>0, <1>4, DeliverIs
  <2> QED BY <1>0, <2>1 DEF TokenInv, CallInv, KnownInv, calls, inbox
<1>5. ASSUME NEW t \in Token, ApplyLoad(t) \/ ApplyCellLoad(t) PROVE TokenInv'
  <2>1. /\ call[t] = "answered" /\ Mints(Folded(t))
        /\ UNCHANGED <<answer, job, stream, superseded>>
        /\ Register(t) \/ UNCHANGED inbox
        /\ kind[t] = "survey" \/ kind[t] = "cells"
    BY <1>0, <1>5, ApplyLoadIs, ApplyCellLoadIs
  <2>2. /\ CallInv'
        /\ \A u \in Token : call[u] # "none" => kind'[u] = kind[u] /\ call'[u] = Folded(t)[u]
        /\ \A u \in Token : call[u] = "folded" => call'[u] = "folded" /\ kind'[u] = kind[u]
    BY <1>0, <2>1, MintsKeeps
  <2>3. call'[t] = "folded" /\ kind'[t] = kind[t]
    BY <1>0, <2>1, <2>2, Unfolded
  <2>4. t \notin superseded
    BY <1>0, <2>1 DEF KnownInv
  <2>5. KnownInv'
    <3>1. CASE UNCHANGED inbox
      BY <1>0, <1>00, <2>1, <2>2, <3>1 DEF KnownInv, inbox
    <3>2. CASE Register(t) /\ kind[t] = "survey"
      <4>1. cellKnown' = cellKnown /\ known' \subseteq known \cup {t}
        BY <1>0, <3>2, RegisterIs
      <4> QED BY <1>0, <1>00, <2>1, <2>2, <2>3, <2>4, <3>2, <4>1 DEF KnownInv
    <3>3. CASE Register(t) /\ kind[t] = "cells"
      <4>1. known' = known /\ cellKnown' \subseteq cellKnown \cup {t}
        BY <1>0, <3>3, RegisterIs
      <4> QED BY <1>0, <1>00, <2>1, <2>2, <2>3, <2>4, <3>3, <4>1 DEF KnownInv
    <3> QED BY <2>1, <3>1, <3>2, <3>3
  <2> QED BY <1>0, <2>2, <2>5 DEF TokenInv
<1>6. CASE Ingest
  <2>1. /\ Mints(call) /\ UNCHANGED <<answer, job, superseded>>
        /\ known' \subseteq known /\ cellKnown' \subseteq cellKnown
    BY <1>0, <1>6, IngestIs
  <2>2. CallInv' /\ \A t \in Token : call[t] = "folded" => call'[t] = "folded" /\ kind'[t] = kind[t]
    BY <1>0, <2>1, MintsKeeps
  <2>3. KnownInv'
    BY <1>0, <1>00, <2>1, <2>2 DEF KnownInv
  <2> QED BY <1>0, <2>2, <2>3 DEF TokenInv
<1>7. CASE UNCHANGED surfaceVars
  BY <1>0, <1>7 DEF TokenInv, CallInv, KnownInv, surfaceVars, calls, inbox
<1> QED
  BY <1>1, <1>2, <1>3, <1>4, <1>5, <1>6, <1>7 DEF SurfaceNext, Update, Progress, State

LEMMA SurfaceStarts == SurfaceInit => TokenInv
<1> SUFFICES ASSUME SurfaceInit PROVE TokenInv
  OBVIOUS
<1>1. \A t \in Token : t > minted
  BY NoneIs DEF SurfaceInit
<1>2. SurfaceTypeOK
  <2>1. stream \in Seq([token : Token, state : State]) /\ order \in Seq(Token)
    BY EmptySeq DEF SurfaceInit
  <2>2. parked \in [Token -> Seq(State)]
    BY EmptySeq DEF SurfaceInit
  <2>3. known = {} /\ cellKnown = {} /\ superseded = {}
    BY DEF SurfaceInit
  <2>4. /\ minted \in 0 .. MaxTokens
        /\ kind \in [Token -> {"none", "survey", "cells"}]
        /\ call \in [Token -> {"none", "calling", "answered", "folded"}]
        /\ answer \in [Token -> {"none", "inline", "error", "accepted"}]
        /\ job \in [Token -> {"none", "running", "ended"}]
        /\ shows \in Token \cup {None} /\ cells \in {"plain", "pending", "filled", "error"}
    BY NoneIs DEF SurfaceInit
  <2>5. loading \in BOOLEAN /\ err \in BOOLEAN
    BY Zenon DEF SurfaceInit
  <2> HIDE DEF SurfaceInit
  <2> QED BY <2>1, <2>2, <2>3, <2>4, <2>5 DEF SurfaceTypeOK, State
<1> QED BY <1>1, <1>2 DEF TokenInv, SurfaceInit, CallInv, KnownInv

LEMMA TokensSound == SurfaceSpec => []TokenInv
  BY SurfaceStarts, TokenStep, PTL DEF SurfaceSpec

\* Once a fresh load has been begun, no answer, report or parked update of one that
\* was waited for then puts its rows on the screen, whatever its goroutine, its job
\* and the stream still do (forget).
THEOREM SupersededStaysAway == SurfaceSpec => SupersededNeverPaints
<1>1. ASSUME TokenInv, SurfaceNext, NEW t \in superseded, shows' = t PROVE shows = t
  <2>0. /\ SurfaceTypeOK /\ t \in Token /\ t # None
        /\ call[t] = "folded" /\ t \notin known \cup cellKnown
    BY <1>1, NoneIs DEF TokenInv, SurfaceTypeOK, KnownInv
  <2>1. ~BeginLoad
    BY <1>1, <2>0 DEF BeginLoad
  <2>2. ASSUME NEW u \in Token, ApplyLoad(u) \/ ApplyCellLoad(u) PROVE shows = t
    <3>1. call[u] = "answered" /\ (ModIs(shows) \/ ModIs(u))
      BY <2>0, <2>2, ApplyLoadIs, ApplyCellLoadIs
    <3> QED BY <1>1, <2>0, <3>1 DEF ModIs
  <2>3. CASE Ingest
    BY <1>1, <2>0, <2>3, IngestIs DEF ModIs
  <2>4. ASSUME NEW u \in Token,
               Accept(u) \/ Answer(u) \/ \E state \in State : Deliver(u, state)
        PROVE  shows' = shows
    BY <2>4 DEF Accept, Answer, Deliver, mod
  <2> QED
    BY <1>1, <2>1, <2>2, <2>3, <2>4 DEF SurfaceNext, Update, Progress, State
<1>2. TokenInv /\ [SurfaceNext]_surfaceVars
         => [\A t \in superseded : shows' = t => shows = t]_surfaceVars
  BY <1>1
<1> QED BY <1>2, TokensSound, PTL DEF SurfaceSpec, SupersededNeverPaints

------------------------------------------------------------------------------
(* Ends.                                                                    *)

LEMMA Delivered ==
    ASSUME SurfaceTypeOK, Roomy, NEW t \in Token, NEW state \in State, Deliver(t, state)
    PROVE  \A u \in Token : EndToCome(u) => EndToCome(u)'
<1> DEFINE r == [token |-> t, state |-> state]
<1>1. stream' = Append(stream, r) /\ job[t] = "running"
  BY DeliverIs DEF Roomy, Deliver
<1>2. \A i \in DOMAIN stream : i \in DOMAIN stream' /\ stream'[i] = stream[i]
  BY DeliverIs
<1>3. Len(stream) + 1 \in DOMAIN stream' /\ stream'[Len(stream) + 1] = r
  BY <1>1 DEF SurfaceTypeOK
<1>4. r.token = t /\ r.state = state
  OBVIOUS
<1>5. ~IsTerminal(state) => job' = job
  BY DEF Deliver
<1>6. \A u \in Token : u # t => job'[u] = job[u]
  BY DEF Deliver, SurfaceTypeOK
<1> HIDE DEF r
<1> SUFFICES ASSUME NEW u \in Token, EndToCome(u) PROVE EndToCome(u)'
  OBVIOUS
<1>7. CASE \E i \in DOMAIN stream : stream[i].token = u /\ IsTerminal(stream[i].state)
  BY <1>2, <1>7 DEF EndToCome
<1>8. CASE job[u] = "running" /\ (u # t \/ ~IsTerminal(state))
  BY <1>5, <1>6, <1>8 DEF EndToCome
<1>9. CASE u = t /\ IsTerminal(state)
  BY <1>3, <1>4, <1>9 DEF EndToCome
<1> QED BY <1>7, <1>8, <1>9 DEF EndToCome

LEMMA TakenIn ==
    ASSUME SurfaceTypeOK, Ingest
    PROVE  \A u \in Token : EndToCome(u) =>
               EndToCome(u)' \/ (u = Listened.token /\ IsTerminal(Listened.state))
<1> DEFINE Report == [token : Token, state : State]
<1>1. stream \in Seq(Report) /\ stream # <<>> /\ stream' = Tail(stream) /\ job' = job
  BY StreamIs DEF Ingest
<1> HIDE DEF Report
<1>2. /\ Len(stream) \in Nat /\ Len(stream') = Len(stream) - 1 /\ DOMAIN stream' = 1 .. Len(stream')
      /\ \A i \in 1 .. Len(stream') : stream'[i] = stream[i + 1]
      /\ Listened = stream[1]
  BY <1>1, HeadTailProperties DEF Listened
<1> SUFFICES ASSUME NEW u \in Token, NEW i \in DOMAIN stream, stream[i].token = u, IsTerminal(stream[i].state),
                    i # 1
             PROVE  EndToCome(u)'
  BY <1>1, <1>2 DEF EndToCome
<1>3. i - 1 \in DOMAIN stream' /\ stream'[i - 1] = stream[i]
  BY <1>1, <1>2
<1> QED BY <1>3 DEF EndToCome

LEMMA EndStep == ASSUME TokenInv, EndInv, Roomy, [SurfaceNext]_surfaceVars PROVE EndInv'
<1>0. SurfaceTypeOK /\ CallInv /\ KnownInv
  BY DEF TokenInv
<1>00. known \subseteq Token /\ cellKnown \subseteq Token /\ parked \in [Token -> Seq(State)]
  BY <1>0 DEF SurfaceTypeOK, State
<1>1. CASE BeginLoad
  <2>1. Mints(call) /\ UNCHANGED <<answer, job, stream, parked, order>> /\ known' = {} /\ cellKnown' = {}
    BY <1>0, <1>1, BeginLoadIs DEF BeginLoad, Forget
  <2>2. \A t \in Token : call'[t] # "folded" => call[t] # "folded"
    BY <1>0, <2>1, MintsKeeps
  <2> QED BY <2>1, <2>2 DEF EndInv, EndToCome, EndParked
<1>2. ASSUME NEW t \in Token, Accept(t) PROVE EndInv'
  <2>1. /\ UNCHANGED <<call, stream, known, cellKnown, parked, order>>
        /\ job'[t] = "running" /\ \A u \in Token : u # t => job'[u] = job[u]
    BY <1>0, <1>2 DEF Accept, inbox, SurfaceTypeOK
  <2>2. \A u \in Token : EndToCome(u)' \/ ((EndToCome(u)' <=> EndToCome(u)) /\ job'[u] = job[u])
    BY <2>1 DEF EndToCome
  <2>3. \A u \in Token : EndParked(u)' <=> EndParked(u)
    BY <2>1 DEF EndParked
  <2> QED BY <1>00, <2>1, <2>2, <2>3 DEF EndInv
<1>3. ASSUME NEW t \in Token, Answer(t) PROVE EndInv'
  <2>1. /\ UNCHANGED <<job, stream, known, cellKnown, parked, order>>
        /\ \A u \in Token : call'[u] # "folded" => call[u] # "folded"
    BY <1>0, <1>3 DEF Answer, inbox, SurfaceTypeOK
  <2> QED BY <2>1 DEF EndInv, EndToCome, EndParked
<1>4. ASSUME NEW t \in Token, NEW state \in State, Deliver(t, state) PROVE EndInv'
  <2>1. /\ UNCHANGED <<call, known, cellKnown, parked, order>>
        /\ \A u \in Token : job'[u] = "none" <=> job[u] = "none"
    BY <1>0, <1>4, DeliverIs DEF calls, inbox
  <2>2. \A u \in Token : EndToCome(u) => EndToCome(u)'
    BY <1>0, <1>4, Delivered
  <2>3. \A u \in Token : EndParked(u)' <=> EndParked(u)
    BY <2>1 DEF EndParked
  <2> QED BY <1>00, <2>1, <2>2, <2>3 DEF EndInv
<1>5. ASSUME NEW t \in Token, ApplyLoad(t) \/ ApplyCellLoad(t) PROVE EndInv'
  <2>1. /\ call[t] = "answered" /\ Mints(Folded(t)) /\ UNCHANGED <<answer, job, stream>>
        /\ (answer[t] = "accepted" /\ Register(t)) \/ UNCHANGED inbox
        /\ kind[t] = "survey" \/ kind[t] = "cells"
    BY <1>0, <1>5, ApplyLoadIs, ApplyCellLoadIs
  <2>2. \A u \in Token : call'[u] # "folded" => call[u] # "folded" /\ u # t
    BY <1>0, <2>1, MintsKeeps, Unfolded
  <2>3. \A u \in Token : EndToCome(u)' <=> EndToCome(u)
    BY <2>1 DEF EndToCome
  <2>4. t \notin known \cup cellKnown
    BY <1>0, <2>1 DEF KnownInv
  <2>5. CASE UNCHANGED inbox
    <3>1. \A u \in Token : EndParked(u)' <=> EndParked(u)
      BY <2>5 DEF EndParked, inbox
    <3> QED BY <1>00, <2>1, <2>2, <2>3, <2>5, <3>1 DEF EndInv, inbox
  <2>6. CASE answer[t] = "accepted" /\ Register(t)
    <3>1. /\ Len(order') <= Len(order) /\ parked' = [parked EXCEPT ![t] = <<>>]
          /\ order \in Seq(Token) /\ order' \in Seq(Token) /\ ParkedCap \in Nat
          /\ \A u \in (known \cup cellKnown)' : u \in known \cup cellKnown \/ (u = t /\ ~EndParked(t))
      BY <1>0, <2>1, <2>4, <2>6, RegisterIs, CorrelationAssumption DEF InboxOK, SurfaceTypeOK
    <3>2. parked'[t] = <<>> /\ \A u \in Token : u # t => parked'[u] = parked[u]
      BY <1>00, <3>1
    <3>3. Len(order') <= ParkedCap
      <4>1. Len(order') \in Nat /\ Len(order) \in Nat
        BY <3>1
      <4> QED BY <3>1, <4>1 DEF EndInv
    <3>4. \A u \in Token : call'[u] # "folded" /\ job'[u] # "none" => EndToCome(u)' \/ EndParked(u)'
      BY <2>1, <2>2, <2>3, <3>2 DEF EndInv, EndParked
    <3>5. \A u \in (known \cup cellKnown)' : EndToCome(u)' /\ parked'[u] = <<>>
      <4>1. ~EndParked(t) => EndToCome(t)
        BY <1>0, <2>1, <2>6 DEF EndInv, CallInv
      <4> QED BY <1>00, <2>3, <2>4, <3>1, <3>2, <4>1 DEF EndInv
    <3> QED BY <3>3, <3>4, <3>5 DEF EndInv
  <2> QED BY <2>1, <2>5, <2>6
<1>6. CASE Ingest
  <2>1. PICK t \in Token, state \in State :
           /\ t = Listened.token /\ state = Listened.state
           /\ Mints(call) /\ UNCHANGED <<answer, job>>
           /\ \/ /\ t \in known /\ known' = (IF IsTerminal(state) THEN known \ {t} ELSE known)
                 /\ UNCHANGED <<cellKnown, parked, order>>
              \/ /\ t \in cellKnown /\ cellKnown' = (IF IsTerminal(state) THEN cellKnown \ {t} ELSE cellKnown)
                 /\ UNCHANGED <<known, parked, order>>
              \/ t \notin known \cup cellKnown /\ Park(t, state) /\ UNCHANGED <<known, cellKnown>>
    <3>1. Listened.token \in Token /\ Listened.state \in State
      BY <1>0, <1>6, IngestIs
    <3> QED BY <1>0, <1>6, <3>1, IngestIs
  <2>2. \A u \in Token : EndToCome(u) => EndToCome(u)' \/ (u = t /\ IsTerminal(state))
    BY <1>0, <1>6, <2>1, TakenIn
  <2>3. stream # <<>> /\ (parked[t] = <<>> => Len(order) < ParkedCap)
    BY <1>6, <2>1 DEF Ingest, Roomy
  <2>4. \A u \in Token : call'[u] # "folded" => call[u] # "folded"
    BY <1>0, <2>1, MintsKeeps
  <2>5. ~(t \in known /\ t \in cellKnown)
    BY <1>0 DEF KnownInv
  <2>6. CASE t \in known \cup cellKnown
    <3>1. /\ UNCHANGED <<parked, order>> /\ (known \cup cellKnown)' \subseteq known \cup cellKnown
          /\ IsTerminal(state) => t \notin (known \cup cellKnown)'
          /\ call[t] = "folded"
      BY <1>0, <2>1, <2>5, <2>6 DEF KnownInv
    <3>2. \A u \in Token : EndParked(u)' <=> EndParked(u)
      BY <3>1 DEF EndParked
    <3> QED BY <1>00, <2>1, <2>2, <2>4, <3>1, <3>2 DEF EndInv
  <2>7. CASE t \notin known \cup cellKnown
    <3>1. /\ UNCHANGED <<known, cellKnown>> /\ Len(order') <= ParkedCap
          /\ parked' = [parked EXCEPT ![t] = Append(@, state)]
      BY <1>0, <2>1, <2>3, <2>7, ParkIs DEF EndInv
    <3>2. parked'[t] = Append(parked[t], state) /\ \A u \in Token : u # t => parked'[u] = parked[u]
      BY <1>00, <2>1, <3>1
    <3>3. parked[t] \in Seq(State)
      BY <1>00, <2>1
    <3>4. /\ IsTerminal(state) => EndParked(t)'
          /\ EndParked(t) => EndParked(t)'
      <4>1. /\ DOMAIN parked[t] = 1 .. Len(parked[t]) /\ Len(parked[t]) \in Nat
            /\ DOMAIN parked'[t] = 1 .. Len(parked[t]) + 1
            /\ parked'[t][Len(parked[t]) + 1] = state
            /\ \A i \in DOMAIN parked[t] : parked'[t][i] = parked[t][i]
        BY <2>1, <3>2, <3>3
      <4> QED BY <4>1 DEF EndParked
    <3>5. \A u \in Token : EndParked(u) => EndParked(u)'
      BY <3>2, <3>4 DEF EndParked
    <3> QED BY <1>00, <2>1, <2>2, <2>4, <2>7, <3>1, <3>2, <3>4, <3>5 DEF EndInv
  <2> QED BY <2>6, <2>7
<1>7. CASE UNCHANGED surfaceVars
  BY <1>7 DEF EndInv, EndToCome, EndParked, surfaceVars, calls, inbox
<1> QED
  BY <1>1, <1>2, <1>3, <1>4, <1>5, <1>6, <1>7 DEF SurfaceNext, Update, Progress, State

\* As long as the stream and the parking area have room for what comes next, in a
\* session of any length, a token that is waited for is one whose end is still to
\* come, and nothing of it lies parked (register, park, ingest).
THEOREM WaitsAreEnded == SurfaceSpec /\ []Roomy => []WaitsForAnEnd
<1>1. SurfaceInit => EndInv
  BY CorrelationAssumption DEF SurfaceInit, EndInv
<1>2. TokenInv /\ EndInv => WaitsForAnEnd
  BY DEF TokenInv, EndInv, WaitsForAnEnd
<1> QED BY <1>1, <1>2, TokensSound, EndStep, PTL DEF SurfaceSpec

------------------------------------------------------------------------------
(* Room.                                                                    *)

\* f gives n places different numbers up to k, and none of them x.
LEMMA Pigeons ==
    ASSUME NEW n \in Nat, NEW k \in Nat, NEW x \in 1 .. k, NEW f \in [1 .. n -> (1 .. k) \ {x}],
           \A i, j \in 1 .. n : f[i] = f[j] => i = j
    PROVE  n < k
<1>1. IsFiniteSet(1 .. k) /\ Cardinality(1 .. k) = k /\ IsFiniteSet(1 .. n) /\ Cardinality(1 .. n) = n
  BY FS_Interval
<1>2. IsFiniteSet((1 .. k) \ {x}) /\ Cardinality((1 .. k) \ {x}) = k - 1
  BY <1>1, FS_RemoveElement
<1>3. f \in Injection(1 .. n, (1 .. k) \ {x})
  BY DEF Injection, IsInjective
<1>4. n <= k - 1
  BY <1>1, <1>2, <1>3, FS_Injection
<1> QED BY <1>4

LEMMA DeepIsRoomy == ASSUME Deep, TokenInv, CountInv PROVE Roomy
<1>0. /\ SurfaceTypeOK /\ MaxTokens \in Nat /\ UpdatesBuffer \in Nat /\ ParkedCap \in Nat
      /\ Token = 1 .. MaxTokens
  BY CorrelationAssumption DEF TokenInv, Token
<1>1. ASSUME NEW t \in Token, job[t] = "running" PROVE Len(stream) < UpdatesBuffer
  <2> DEFINE code == [i \in 1 .. Len(stream) |-> IF IsTerminal(stream[i].state) THEN 2 * stream[i].token
                                                 ELSE 2 * stream[i].token - 1]
             Report == [token : Token, state : State]
  <2>1. Len(stream) \in Nat /\ DOMAIN stream = 1 .. Len(stream) /\ \A i \in 1 .. Len(stream) : stream[i].token \in Token
    <3>1. stream \in Seq(Report)
      BY <1>0, StreamIs
    <3>2. /\ Len(stream) \in Nat /\ DOMAIN stream = 1 .. Len(stream)
          /\ \A i \in DOMAIN stream : stream[i] \in Report
      <4> HIDE DEF Report
      <4> QED BY <3>1
    <3> QED BY <3>2
  <2>2. \A i \in DOMAIN stream : IsTerminal(stream[i].state) => stream[i].token # t
    BY <1>1 DEF CountInv, OneEach
  <2>3. code \in [1 .. Len(stream) -> (1 .. 2 * MaxTokens) \ {2 * t}]
    <3> SUFFICES ASSUME NEW i \in 1 .. Len(stream) PROVE code[i] \in (1 .. 2 * MaxTokens) \ {2 * t}
      OBVIOUS
    <3>1. stream[i].token \in 1 .. MaxTokens /\ t \in 1 .. MaxTokens /\ (IsTerminal(stream[i].state) => stream[i].token # t)
      BY <1>0, <2>1, <2>2
    <3> QED BY <1>0, <3>1, SMTT(20)
  <2>4. \A i, j \in 1 .. Len(stream) : code[i] = code[j] => i = j
    <3> SUFFICES ASSUME NEW i \in 1 .. Len(stream), NEW j \in 1 .. Len(stream), code[i] = code[j] PROVE i = j
      OBVIOUS
    <3>1. stream[i].token \in Nat /\ stream[j].token \in Nat
      BY <1>0, <2>1
    <3> DEFINE Code(n) == IF IsTerminal(stream[n].state) THEN 2 * stream[n].token ELSE 2 * stream[n].token - 1
    <3>2. Code(i) = Code(j)
      OBVIOUS
    <3>3. \A a, b \in Nat : 2 * a # 2 * b - 1 /\ (2 * a = 2 * b => a = b) /\ (2 * a - 1 = 2 * b - 1 => a = b)
      OBVIOUS
    <3>4. stream[i].token = stream[j].token /\ (IsTerminal(stream[i].state) <=> IsTerminal(stream[j].state))
      <4>1. CASE IsTerminal(stream[i].state) /\ IsTerminal(stream[j].state)
        BY <3>1, <3>2, <3>3, <4>1
      <4>2. CASE IsTerminal(stream[i].state) /\ ~IsTerminal(stream[j].state)
        BY <3>1, <3>2, <3>3, <4>2
      <4>3. CASE ~IsTerminal(stream[i].state) /\ IsTerminal(stream[j].state)
        BY <3>1, <3>2, <3>3, <4>3
      <4>4. CASE ~IsTerminal(stream[i].state) /\ ~IsTerminal(stream[j].state)
        BY <3>1, <3>2, <3>3, <4>4
      <4> QED BY <4>1, <4>2, <4>3, <4>4
    <3> QED BY <2>1, <3>4 DEF CountInv, OneEach
  <2>5. 2 * t \in 1 .. 2 * MaxTokens /\ 2 * MaxTokens \in Nat
    BY <1>0
  <2> HIDE DEF code
  <2>6. Len(stream) < 2 * MaxTokens
    BY <2>1, <2>3, <2>4, <2>5, Pigeons
  <2> QED BY <1>0, <2>1, <2>6 DEF Deep
<1>2. ASSUME stream # <<>>, parked[Listened.token] = <<>> PROVE Len(order) < ParkedCap
  <2> DEFINE t == Listened.token
             Report == [token : Token, state : State]
  <2>1. t \in Token
    <3>1. stream \in Seq(Report)
      BY <1>0, StreamIs
    <3> HIDE DEF Report
    <3>2. Listened \in Report
      BY <1>2, <3>1, HeadTailProperties DEF Listened
    <3> QED BY <3>2 DEF Report
  <2>2. \A i \in DOMAIN order : order[i] # t
    BY <1>2, <2>1 DEF CountInv, InOrder
  <2> HIDE DEF t
  <2>3. /\ Len(order) \in Nat /\ DOMAIN order = 1 .. Len(order)
        /\ order \in [1 .. Len(order) -> (1 .. MaxTokens) \ {t}]
    BY <1>0, <2>2 DEF SurfaceTypeOK
  <2>4. \A i, j \in 1 .. Len(order) : order[i] = order[j] => i = j
    BY <2>3 DEF CountInv, InOrder
  <2>5. Len(order) < MaxTokens
    BY <1>0, <2>1, <2>3, <2>4, Pigeons
  <2> QED BY <1>0, <2>3, <2>5 DEF Deep
<1> QED BY <1>1, <1>2 DEF Roomy

LEMMA OneEachStep == ASSUME TokenInv, OneEach, Roomy, [SurfaceNext]_surfaceVars PROVE OneEach'
<1> DEFINE Report == [token : Token, state : State]
<1>0. SurfaceTypeOK /\ CallInv /\ stream \in Seq(Report)
  BY StreamIs DEF TokenInv
<1>00. /\ Len(stream) \in Nat /\ DOMAIN stream = 1 .. Len(stream)
       /\ \A i \in DOMAIN stream : stream[i] \in Report
  <2> HIDE DEF Report
  <2> QED BY <1>0
<1>01. \A i \in DOMAIN stream : stream[i].token \in Token /\ stream[i].state \in State
  BY <1>00
<1> HIDE DEF Report
<1>1. ASSUME stream' = stream, \A t \in Token : job[t] = "ended" => job'[t] = "ended" PROVE OneEach'
  BY <1>1, <1>01 DEF OneEach
<1>2. ASSUME NEW t \in Token, Accept(t) PROVE OneEach'
  <2>1. stream' = stream /\ job[t] = "none" /\ \A u \in Token : u # t => job'[u] = job[u]
    BY <1>0, <1>2 DEF Accept, CallInv, SurfaceTypeOK
  <2> QED BY <1>1, <2>1
<1>3. ASSUME NEW t \in Token, NEW state \in State, Deliver(t, state),
             state = "running" => \A i \in DOMAIN stream : stream[i].token # t
      PROVE  OneEach'
  <2> DEFINE r == [token |-> t, state |-> state]
             n == Len(stream) + 1
  <2>1. r.token = t /\ r.state = state
    OBVIOUS
  <2>2. stream' = Append(stream, r) /\ job[t] = "running"
    BY <1>0, <1>3, DeliverIs DEF Roomy, Deliver
  <2> HIDE DEF r
  <2>3. /\ DOMAIN stream' = DOMAIN stream \cup {n} /\ n \notin DOMAIN stream
        /\ stream'[n] = r /\ \A i \in DOMAIN stream : stream'[i] = stream[i]
    BY <1>0, <1>00, <2>2
  <2>4. \A u \in Token : job[u] = "ended" => job'[u] = "ended"
    BY <1>0, <1>3 DEF Deliver, SurfaceTypeOK
  <2>5. IsTerminal(state) => job'[t] = "ended"
    BY <1>0, <1>3 DEF Deliver, SurfaceTypeOK
  <2>6. \A i \in DOMAIN stream : ~(stream[i].token = t /\ (IsTerminal(stream[i].state) <=> IsTerminal(state)))
    <3>1. CASE IsTerminal(state)
      BY <2>2, <3>1 DEF OneEach
    <3>2. CASE ~IsTerminal(state)
      BY <1>3, <3>2 DEF IsTerminal, State
    <3> QED BY <3>1, <3>2
  <2> HIDE DEF n
  <2> QED BY <1>01, <2>1, <2>3, <2>4, <2>5, <2>6 DEF OneEach
<1>4. CASE Ingest
  <2>1. stream # <<>> /\ stream' = Tail(stream) /\ job' = job
    BY <1>4 DEF Ingest
  <2>2. \A i \in DOMAIN stream' : i + 1 \in DOMAIN stream /\ stream'[i] = stream[i + 1] /\ i \in Nat
    BY <1>0, <1>00, <2>1, HeadTailProperties
  <2>3. \A i, j \in DOMAIN stream' : i + 1 = j + 1 => i = j
    BY <2>2
  <2> QED BY <2>1, <2>2, <2>3 DEF OneEach
<1>5. BeginLoad => OneEach'
  BY <1>1 DEF BeginLoad
<1>6. ASSUME NEW t \in Token, Answer(t) PROVE OneEach'
  BY <1>1, <1>6 DEF Answer
<1>7. ASSUME NEW t \in Token, ApplyLoad(t) \/ ApplyCellLoad(t) PROVE OneEach'
  BY <1>1, <1>7 DEF ApplyLoad, ApplyCellLoad
<1>8. CASE UNCHANGED surfaceVars
  BY <1>1, <1>8 DEF surfaceVars
<1> QED
  BY <1>2, <1>3, <1>4, <1>5, <1>6, <1>7, <1>8 DEF SurfaceNext, Update, Progress, State

LEMMA InOrderStep == ASSUME TokenInv, EndInv, InOrder, Roomy, [SurfaceNext]_surfaceVars PROVE InOrder'
<1>0. SurfaceTypeOK /\ order \in Seq(Token) /\ parked \in [Token -> Seq(State)]
  BY DEF TokenInv, SurfaceTypeOK, State
<1>1. ASSUME UNCHANGED <<parked, order>> PROVE InOrder'
  BY <1>1 DEF InOrder
<1>2. ASSUME NEW t \in Token, ApplyLoad(t) \/ ApplyCellLoad(t) PROVE InOrder'
  <2>1. CASE Register(t)
    <3>1. parked' = [parked EXCEPT ![t] = <<>>] /\ order' = RemoveFirst(order, t)
      BY <1>0, <2>1, RegisterIs
    <3>2. /\ \A i, j \in DOMAIN order' : order'[i] = order'[j] => i = j
          /\ \A y : (\E i \in DOMAIN order' : order'[i] = y) <=> y # t /\ \E i \in DOMAIN order : order[i] = y
      <4> DEFINE r == RemoveFirst(order, t)
      <4>1. \A i, j \in DOMAIN order : order[i] = order[j] => i = j
        BY DEF InOrder
      <4>2. /\ \A i, j \in DOMAIN r : r[i] = r[j] => i = j
            /\ \A y : (\E i \in DOMAIN r : r[i] = y) <=> y # t /\ \E i \in DOMAIN order : order[i] = y
        BY <1>0, <4>1, RemovedIs
      <4>3. order' = r
        BY <3>1
      <4> HIDE DEF r
      <4> QED BY <4>2, <4>3
    <3>3. parked'[t] = <<>> /\ \A u \in Token : u # t => parked'[u] = parked[u]
      BY <1>0, <3>1
    <3> QED BY <3>2, <3>3 DEF InOrder
  <2>2. CASE UNCHANGED inbox
    BY <1>1, <2>2 DEF inbox
  <2> QED BY <1>0, <1>2, <2>1, <2>2, ApplyLoadIs, ApplyCellLoadIs
<1>3. CASE Ingest
  <2>1. PICK t \in Token, state \in State :
           /\ t = Listened.token
           /\ UNCHANGED <<parked, order>> \/ Park(t, state)
    <3>1. Listened.token \in Token /\ Listened.state \in State
      BY <1>0, <1>3, IngestIs
    <3> QED BY <1>0, <1>3, <3>1, IngestIs
  <2>2. CASE Park(t, state)
    <3>1. stream # <<>> /\ (parked[t] = <<>> => Len(order) < ParkedCap)
      BY <1>3, <2>1 DEF Ingest, Roomy
    <3>2. /\ parked' = [parked EXCEPT ![t] = Append(@, state)]
          /\ order' = IF parked[t] = <<>> THEN Append(order, t) ELSE order
      BY <1>0, <2>2, <3>1, ParkIs DEF EndInv
    <3>3. parked'[t] # <<>> /\ \A u \in Token : u # t => parked'[u] = parked[u]
      <4>1. Append(parked[t], state) # <<>>
        BY <1>0, SMTT(20)
      <4> QED BY <1>0, <3>2, <4>1
    <3>4. CASE parked[t] # <<>>
      BY <3>2, <3>3, <3>4 DEF InOrder
    <3>5. CASE parked[t] = <<>>
      <4> DEFINE n == Len(order) + 1
      <4>1. /\ DOMAIN order' = DOMAIN order \cup {n} /\ n \notin DOMAIN order
            /\ order'[n] = t /\ \A i \in DOMAIN order : order'[i] = order[i]
        BY <1>0, <3>2, <3>5
      <4> HIDE DEF n
      <4>2. \A i \in DOMAIN order : order[i] # t
        BY <3>5 DEF InOrder
      <4> QED BY <3>3, <4>1, <4>2 DEF InOrder
    <3> QED BY <3>4, <3>5
  <2> QED BY <1>1, <2>1, <2>2
<1>4. BeginLoad => InOrder'
  BY <1>1 DEF BeginLoad
<1>5. ASSUME NEW t \in Token, Accept(t) \/ Answer(t) \/ \E state \in State : Deliver(t, state) PROVE InOrder'
  BY <1>1, <1>5 DEF Accept, Answer, Deliver, inbox
<1>6. CASE UNCHANGED surfaceVars
  BY <1>1, <1>6 DEF surfaceVars, inbox
<1> QED
  BY <1>2, <1>3, <1>4, <1>5, <1>6 DEF SurfaceNext, Update, Progress, State

\* When both buffers hold what the calls can have under way, one report of work and
\* the end of each (Progress sends no second report before the first is read), as on
\* the instance TLC checks, Deliver drops nothing and park evicts nothing, and so
\* every wait has its end to come.
THEOREM DeepBuffersSuffice == ASSUME Deep PROVE SurfaceSpec => [](Roomy /\ WaitsForAnEnd)
<1> DEFINE Inv == TokenInv /\ EndInv /\ CountInv
<1>1. SurfaceInit => Inv
  BY SurfaceStarts, CorrelationAssumption DEF SurfaceInit, EndInv, CountInv, OneEach, InOrder
<1>2. Inv /\ [SurfaceNext]_surfaceVars => Inv'
  BY DeepIsRoomy, TokenStep, EndStep, OneEachStep, InOrderStep DEF CountInv
<1>3. Inv => Roomy /\ WaitsForAnEnd
  BY DeepIsRoomy DEF TokenInv, EndInv, WaitsForAnEnd
<1> QED BY <1>1, <1>2, <1>3, PTL DEF SurfaceSpec
=============================================================================
