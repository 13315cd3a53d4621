------------------------- MODULE RequirementsProofs -------------------------
(***************************************************************************)
(* What Build and the walks compute, for any modules, manifests, states    *)
(* and answers of the host, and whatever the order of a map: the           *)
(* capability check ends with the largest set that provides for itself;    *)
(* a footprint is the closure of its module; a cascade lists what the      *)
(* module Lifecycle takes it to list.                                      *)
(***************************************************************************)
EXTENDS Requirements, TLAPS

\* No capability is declared by two modules.
Unrivalled == \A m, n \in Module : Provides[m] \cap Provides[n] # {} => m = n

Walking == phase \in {"footprint", "cascade"}
Ready   == {m \in Module : Checked(m)}
Mods    == {stack[i].mod : i \in DOMAIN stack}
Listed  == {out[i] : i \in DOMAIN out}

\* Whom m may ask.
Providers(m) == UNION {FindProvider(c) : c \in requires[m]}

\* Until Build is done no module has been active or failed.  A pass looks at a
\* surface that was all there was when it began; nothing that could stay ready has
\* been lost; and what a pass that changed nothing has visited is provided for.
BuildInv ==
    /\ phase \in {"scan", "system", "caps", "config"} =>
           \A m \in Module : state[m] \notin {"active", "failed"}
    /\ phase = "caps" =>
           /\ ReadySurface \subseteq surface
           /\ \A S \in SUBSET base : SelfSufficient(S) => S \subseteq Ready
           /\ ~changed => /\ surface = ReadySurface
                          /\ \A m \in Module \ todo : Checked(m) => CapsMet(m)

\* The stack is a path down from the target, of calls that have capabilities of
\* their own module ahead.
StackInv ==
    Walking =>
        /\ target \in seen /\ Mods \subseteq seen
        /\ stack # <<>> => stack[1].mod = target
        /\ \A i \in DOMAIN stack : stack[i].caps \subseteq Frame(stack[i].mod).caps
        /\ \A k, l \in DOMAIN stack : k < l => stack[k].mod # stack[l].mod
        /\ \A i \in DOMAIN stack : i > 1 => stack[i].mod \in Providers(stack[i - 1].mod)
        /\ \A S \in SUBSET Module : Reaches(S) =>
               /\ target \in S => seen \subseteq S
               /\ \A k, l \in DOMAIN stack : k < l /\ stack[k].mod \in S => stack[l].mod \in S

\* A capability of a module that was met is still ahead, or its provider was met.
CoverInv ==
    Walking =>
        \A m \in seen : HasManifest(m) => \A c \in requires[m] : \A p \in FindProvider(c) :
            (phase = "cascade" => state[p] = "ready") =>
                \/ p \in seen
                \/ \E i \in DOMAIN stack : stack[i].mod = m /\ c \in stack[i].caps

\* What was met is the target, listed, or its call is under way; each is listed
\* once, and a cascade meets ready modules only.
ListInv ==
    Walking =>
        /\ seen = {target} \cup Listed \cup Mods
        /\ target \notin Listed /\ Listed \cap Mods = {}
        /\ \A i, j \in DOMAIN out : i < j => out[i] # out[j]
        /\ phase = "cascade" => /\ state[target] \in {"ready", "failed"}
                                /\ \A m \in seen \ {target} : state[m] = "ready"

\* Each is listed for the target, one listed later or a call that is under way.
ForInv ==
    Walking =>
        \A j \in DOMAIN out :
            \/ out[j] \in Providers(target)
            \/ \E i \in DOMAIN out : j < i /\ out[j] \in Providers(out[i])
            \/ \E k \in DOMAIN stack : out[j] \in Providers(stack[k].mod)

\* ProvidersBefore, while the walk is under way.
BeforeInv ==
    phase = "cascade" =>
        \A i \in DOMAIN out : ~OnCycle(out[i]) =>
            \A p \in Providers(out[i]) :
                state[p] = "ready" /\ p # target => \E j \in 1 .. i - 1 : out[j] = p

------------------------------------------------------------------------------
\* What the walk's steps do to the stack.

\* What a frame can be.
Calls == [mod : Module, caps : SUBSET Cap]

\* The parts of TypeOK that a walk needs.
Shape ==
    /\ requires \in [Module -> SUBSET Cap]
    /\ target \in Module /\ seen \subseteq Module /\ out \in Seq(Module)
    /\ stack \in Seq(Calls)

LEMMA Shaped == TypeOK /\ Walking => Shape
BY RequirementsAssumption DEF TypeOK, Walking, Shape, Calls

\* The next capability of the innermost call is taken off it; its provider is
\* gone into, or was met, or is not one for this walk; or there is none.
Took(c) ==
    /\ c \in Top.caps
    /\ DOMAIN stack \subseteq DOMAIN stack'
    /\ \A i \in DOMAIN stack : stack'[i].mod = stack[i].mod
    /\ \A i \in DOMAIN stack :
           stack'[i].caps = IF i = Len(stack) THEN stack[i].caps \ {c} ELSE stack[i].caps

Entered(c, p) ==
    /\ Took(c) /\ p \in FindProvider(c) /\ Enters(p)
    /\ DOMAIN stack' = DOMAIN stack \cup {Len(stack) + 1}
    /\ stack'[Len(stack) + 1] = Frame(p)
    /\ seen' = seen \cup {p}

Passed(c) ==
    /\ Took(c) /\ DOMAIN stack' = DOMAIN stack /\ seen' = seen
    /\ FindProvider(c) = {} \/ \E p \in FindProvider(c) : ~Enters(p)

LEMMA UpTo == \A n \in Nat : \A i \in 1 .. n : i = n \/ i \in 1 .. n - 1
OBVIOUS

LEMMA CollectStep ==
    ASSUME Shape, Collect
    PROVE  /\ Len(stack) \in DOMAIN stack
           /\ \E c \in Cap : Passed(c) \/ \E p \in Module : Entered(c, p)
           /\ stack' \in Seq(Calls)
           /\ UNCHANGED <<requires, state, phase, target, out>>
<1> DEFINE n == Len(stack)
<1>1. stack \in Seq(Calls) /\ stack # <<>>
  BY DEF Shape, Collect
<1>2. n \in Nat \ {0} /\ DOMAIN stack = 1 .. n /\ n \in DOMAIN stack
  BY <1>1
<1>3. stack[n] \in Calls
  BY <1>1, <1>2
<1>4. \A i \in 1 .. n : i = n \/ i \in 1 .. n - 1
  BY <1>2, UpTo, Zenon
<1>5. PICK c \in stack[n].caps :
         LET rest == Append(Below, [stack[n] EXCEPT !.caps = @ \ {c}]) IN
         \/ \E p \in FindProvider(c) : Descend(p) /\ stack' = Append(rest, Frame(p))
         \/ /\ \E p \in FindProvider(c) : ~Enters(p)
            /\ stack' = rest
            /\ UNCHANGED <<seen, out>>
         \/ /\ FindProvider(c) = {}
            /\ stack' = rest
            /\ UNCHANGED <<seen, out>>
  BY DEF Collect, Top
<1> DEFINE call == [stack[n] EXCEPT !.caps = @ \ {c}]
           rest == Append(Below, call)
<1>6. call \in Calls /\ call.mod = stack[n].mod /\ call.caps = stack[n].caps \ {c} /\ c \in Cap
  BY <1>3 DEF Calls
<1> HIDE DEF call
<1>7. Below \in Seq(Calls) /\ Len(Below) = n - 1 /\ \A i \in 1 .. n - 1 : Below[i] = stack[i]
  BY <1>1, <1>2 DEF Below
<1>8. rest \in Seq(Calls) /\ Len(rest) = n /\ rest[n] = call /\ \A i \in 1 .. n - 1 : rest[i] = stack[i]
  <2> DEFINE b == Below
             k == n - 1
  <2>1. k \in Nat /\ k + 1 = n
    BY <1>2
  <2>2. b \in Seq(Calls) /\ Len(b) = k /\ \A i \in 1 .. k : b[i] = stack[i]
    BY <1>7
  <2> HIDE DEF b, k
  <2>3. LET r == Append(b, call) IN
        r \in Seq(Calls) /\ Len(r) = k + 1 /\ r[k + 1] = call /\ \A i \in 1 .. k : r[i] = b[i]
    BY <1>6, <2>1, <2>2
  <2> QED BY <2>1, <2>2, <2>3 DEF b, k
<1> HIDE DEF rest
<1>9. /\ \A i \in 1 .. n : rest[i].mod = stack[i].mod
      /\ \A i \in 1 .. n : rest[i].caps = IF i = n THEN stack[i].caps \ {c} ELSE stack[i].caps
  <2>1. \A i \in 1 .. n : i # n => rest[i] = stack[i]
    BY <1>4, <1>8
  <2> QED BY <1>6, <1>8, <2>1
<1>10. FindProvider(c) \subseteq Module
  BY DEF FindProvider
<1>11. ASSUME NEW p \in FindProvider(c), Descend(p), stack' = Append(rest, Frame(p))
       PROVE  Entered(c, p)
  <2>1. Frame(p) \in Calls
    BY <1>10 DEF Frame, Calls, Shape
  <2>2. /\ DOMAIN stack' = 1 .. n + 1 /\ stack'[n + 1] = Frame(p)
        /\ \A i \in 1 .. n : stack'[i] = rest[i]
    BY <1>2, <1>8, <1>11, <2>1
  <2>3. 1 .. n + 1 = (1 .. n) \cup {n + 1}
    BY <1>2
  <2> QED BY <1>2, <1>5, <1>9, <1>11, <2>2, <2>3 DEF Entered, Took, Descend, Top
<1>12. ASSUME stack' = rest, seen' = seen,
              FindProvider(c) = {} \/ \E p \in FindProvider(c) : ~Enters(p)
       PROVE  Passed(c)
  <2>1. DOMAIN stack' = 1 .. n
    BY <1>2, <1>8, <1>12
  <2> QED BY <1>2, <1>5, <1>9, <1>12, <2>1 DEF Passed, Took, Top
<1>13. UNCHANGED <<requires, state, phase, target, out>>
  BY DEF Collect, Descend, build
<1>14. Passed(c) \/ \E p \in FindProvider(c) : Entered(c, p)
  BY <1>5, <1>11, <1>12 DEF rest, call
<1>15. stack' \in Seq(Calls)
  <2>1. \A p \in FindProvider(c) : Frame(p) \in Calls
    BY <1>10 DEF Frame, Calls, Shape
  <2> QED BY <1>5, <1>8, <2>1, SMTT(20) DEF rest, call
<1> QED BY <1>2, <1>6, <1>10, <1>13, <1>14, <1>15

LEMMA ReturnStep ==
    ASSUME Shape, Return
    PROVE  LET n == Len(stack) IN
           /\ n \in DOMAIN stack /\ n \in Nat \ {0} /\ stack[n].caps = {}
           /\ DOMAIN stack = 1 .. n /\ DOMAIN stack' = 1 .. n - 1
           /\ \A i \in 1 .. n - 1 : stack'[i] = stack[i]
           /\ out' = IF stack[n].mod = target THEN out ELSE Append(out, stack[n].mod)
           /\ stack[n].mod \in Module /\ stack' \in Seq(Calls) /\ out' \in Seq(Module)
           /\ UNCHANGED <<requires, state, phase, target, seen>>
<1>1. stack \in Seq(Calls) /\ stack # <<>>
  BY DEF Shape, Return
<1>2. Len(stack) \in Nat \ {0} /\ DOMAIN stack = 1 .. Len(stack) /\ Len(stack) \in DOMAIN stack
  BY <1>1
<1>3. /\ DOMAIN stack' = 1 .. Len(stack) - 1
      /\ \A i \in 1 .. Len(stack) - 1 : stack'[i] = stack[i]
  BY <1>1, <1>2 DEF Return, Below
<1>4. stack[Len(stack)] \in Calls /\ stack' \in Seq(Calls)
  BY <1>1, <1>2 DEF Return, Below
<1>5. stack[Len(stack)].mod \in Module
  BY <1>4 DEF Calls
<1>6. out' = IF stack[Len(stack)].mod = target THEN out ELSE Append(out, stack[Len(stack)].mod)
  BY DEF Return, Top
<1>7. out' \in Seq(Module)
  <2>1. out \in Seq(Module)
    BY DEF Shape
  <2>2. Append(out, stack[Len(stack)].mod) \in Seq(Module)
    BY <1>5, <2>1
  <2> QED BY <1>6, <2>1, <2>2, Zenon
<1>8. stack[Len(stack)].caps = {} /\ UNCHANGED <<requires, state, phase, target, seen>>
  BY DEF Return, Top, build
<1> QED BY <1>2, <1>3, <1>4, <1>5, <1>6, <1>7, <1>8, Zenon

------------------------------------------------------------------------------
\* Every variable keeps its type (the data of internal/module and of a walk).
THEOREM TypeCorrect == Spec => []TypeOK
<1>1. Init => TypeOK
  <2>1. <<>> \in Seq([mod : Module, caps : SUBSET Cap]) /\ <<>> \in Seq(Module)
    OBVIOUS
  <2> QED BY <2>1 DEF Init, TypeOK
<1>2. TypeOK /\ [Next]_vars => TypeOK'
  <2> SUFFICES ASSUME TypeOK, [Next]_vars PROVE TypeOK'
    OBVIOUS
  <2> USE DEF TypeOK, Checked, walk, build
  <2>1. ASSUME NEW m \in Module, ScanDir(m) PROVE TypeOK'
    BY <2>1 DEF ScanDir
  <2>2. ASSUME MarkMissing PROVE TypeOK'
    BY <2>2 DEF MarkMissing
  <2>3. ASSUME NEW m \in Module, EvaluateSystemReqs(m) PROVE TypeOK'
    BY <2>3 DEF EvaluateSystemReqs
  <2>4. ASSUME BeginPass PROVE TypeOK'
    BY <2>4, RequirementsAssumption DEF BeginPass, ReadySurface
  <2>5. ASSUME NEW m \in Module, EvaluateCapReqs(m) PROVE TypeOK'
    BY <2>5 DEF EvaluateCapReqs
  <2>6. ASSUME EvaluateDone PROVE TypeOK'
    BY <2>6 DEF EvaluateDone
  <2>7. ASSUME NEW m \in Module, EvaluateConfig(m) PROVE TypeOK'
    BY <2>7 DEF EvaluateConfig
  <2>8. ASSUME BuildDone PROVE TypeOK'
    BY <2>8, RequirementsAssumption DEF BuildDone, PendingSurface
  <2>9. ASSUME NEW m \in Module, PrePass(m) PROVE TypeOK'
    BY <2>9 DEF PrePass
  <2>10. ASSUME PrePassDone PROVE TypeOK'
    BY <2>10 DEF PrePassDone
  <2>11. ASSUME NEW m \in Module, Transition(m) PROVE TypeOK'
    BY <2>11 DEF Transition
  <2>12. ASSUME NEW m \in Module, NEW kind \in {"footprint", "cascade"}, BeginWalk(kind, m)
         PROVE  TypeOK'
    <3>1. requires \in [Module -> SUBSET Cap]
      BY RequirementsAssumption
    <3>2. Frame(m) \in [mod : Module, caps : SUBSET Cap]
      BY <3>1 DEF Frame
    <3>3. stack' \in Seq([mod : Module, caps : SUBSET Cap]) /\ out' \in Seq(Module)
      BY <2>12, <3>2 DEF BeginWalk
    <3> QED BY <2>12, <3>3 DEF BeginWalk
  <2>13. ASSUME Collect PROVE TypeOK'
    <3>1. Shape
      BY <2>13, Shaped DEF Collect, Walking
    <3>2. seen' \subseteq Module /\ stack' \in Seq(Calls)
      BY <2>13, <3>1, CollectStep DEF Entered, Passed
    <3>3. UNCHANGED <<build, target, requires, out>>
      BY <2>13, <3>1, CollectStep DEF Collect
    <3> QED BY <3>2, <3>3 DEF Calls
  <2>14. ASSUME Return PROVE TypeOK'
    <3>1. Shape
      BY <2>14, Shaped DEF Return, Walking
    <3>2. stack' \in Seq(Calls) /\ out' \in Seq(Module)
      BY <2>14, <3>1, ReturnStep
    <3>3. UNCHANGED <<build, target, requires, seen>>
      BY <2>14 DEF Return
    <3> QED BY <3>2, <3>3 DEF Calls
  <2>15. ASSUME EndWalk PROVE TypeOK'
    BY <2>15 DEF EndWalk
  <2>16. ASSUME UNCHANGED vars PROVE TypeOK'
    BY <2>16 DEF vars
  <2> QED
    BY <2>1, <2>2, <2>3, <2>4, <2>5, <2>6, <2>7, <2>8, <2>9, <2>10, <2>11, <2>12, <2>13, <2>14,
       <2>15, <2>16 DEF Next, Loop
<1> QED BY <1>1, <1>2, PTL DEF Spec

------------------------------------------------------------------------------
\* The check of requirements.

LEMMA BuildPreserved == TypeOK /\ BuildInv /\ [Next]_vars => BuildInv'
<1> SUFFICES ASSUME TypeOK, BuildInv, [Next]_vars PROVE BuildInv'
  OBVIOUS
<1> USE DEF BuildInv, walk, build
<1>0. /\ state \in [Module -> {"absent", "missing", "ready", "active", "unavailable", "failed"}]
      /\ base \subseteq Module
  BY DEF TypeOK
<1>1. ASSUME NEW m \in Module, ScanDir(m) PROVE BuildInv'
  BY <1>0, <1>1 DEF ScanDir
<1>2. ASSUME MarkMissing PROVE BuildInv'
  BY <1>0, <1>2 DEF MarkMissing
<1>3. ASSUME NEW m \in Module, EvaluateSystemReqs(m) PROVE BuildInv'
  BY <1>0, <1>3 DEF EvaluateSystemReqs
<1>4. ASSUME BeginPass PROVE BuildInv'
  <2>1. UNCHANGED <<state, requires>> /\ surface' = ReadySurface /\ todo' = Module /\ changed' = FALSE
    BY <1>4 DEF BeginPass
  <2>2. ReadySurface' = ReadySurface
    BY <2>1 DEF ReadySurface, HasManifest, Inert
  <2>3. Ready' = Ready /\ \A S \in SUBSET Module : SelfSufficient(S)' <=> SelfSufficient(S)
    BY <2>1 DEF Ready, Checked, HasManifest, SelfSufficient
  <2>4. base' \subseteq Module /\ \A S \in SUBSET base' : SelfSufficient(S) => S \subseteq Ready
    BY <1>0, <1>4 DEF BeginPass, Ready
  <2> QED BY <1>4, <2>1, <2>2, <2>3, <2>4 DEF BeginPass
<1>5. ASSUME NEW m \in Module, EvaluateCapReqs(m) PROVE BuildInv'
  <2>1. phase = "caps" /\ phase' = phase /\ todo' = todo \ {m} /\ UNCHANGED <<surface, base, requires>>
    BY <1>5 DEF EvaluateCapReqs
  <2>2. \A S \in SUBSET Module : SelfSufficient(S)' <=> SelfSufficient(S)
    BY <2>1 DEF SelfSufficient
  <2>3. CASE Checked(m) /\ ~CapsMet(m)
    <3>1. state' = [state EXCEPT ![m] = "unavailable"] /\ changed' = TRUE
      BY <1>5, <2>3 DEF EvaluateCapReqs
    <3>2. Ready' = Ready \ {m}
      BY <1>0, <3>1 DEF Ready, Checked, HasManifest
    <3>3. ReadySurface' \subseteq ReadySurface
      BY <1>0, <3>1 DEF ReadySurface, HasManifest, Inert
    <3>4. \A n \in Module : Checked(n) => HasManifest(n) /\ ~Inert(n)
      BY <1>0 DEF Checked, HasManifest, Inert
    <3>5. ASSUME NEW S \in SUBSET base, SelfSufficient(S) PROVE S \subseteq Ready \ {m}
      <4>1. S \subseteq Ready
        BY <2>1, <3>5
      <4>2. UNION {Provides[p] : p \in S} \subseteq ReadySurface
        BY <3>4, <4>1 DEF ReadySurface, Ready
      <4>3. m \in S => requires[m] \subseteq surface
        BY <2>1, <3>5, <4>2 DEF SelfSufficient
      <4> QED BY <2>3, <4>1, <4>3 DEF CapsMet
    <3>6. \A n \in Module : state'[n] \notin {"active", "failed"}
      BY <1>0, <2>1, <3>1
    <3> QED BY <1>0, <2>1, <2>2, <3>1, <3>2, <3>3, <3>5, <3>6
  <2>4. CASE ~(Checked(m) /\ ~CapsMet(m))
    <3>1. UNCHANGED <<state, changed>>
      BY <1>5, <2>4 DEF EvaluateCapReqs
    <3>2. ReadySurface' = ReadySurface /\ Ready' = Ready
      BY <3>1 DEF ReadySurface, HasManifest, Inert, Ready, Checked
    <3>3. \A n \in Module : (Checked(n)' <=> Checked(n)) /\ (CapsMet(n)' <=> CapsMet(n))
      BY <2>1, <3>1 DEF Checked, HasManifest, CapsMet
    <3> QED BY <1>0, <2>1, <2>2, <2>4, <3>1, <3>2, <3>3
  <2> QED BY <2>3, <2>4
<1>6. ASSUME EvaluateDone PROVE BuildInv'
  BY <1>6 DEF EvaluateDone
<1>7. ASSUME NEW m \in Module, EvaluateConfig(m) PROVE BuildInv'
  BY <1>0, <1>7 DEF EvaluateConfig
<1>8. ASSUME UNCHANGED vars PROVE BuildInv'
  BY <1>8 DEF vars, ReadySurface, HasManifest, Inert, Ready, Checked, SelfSufficient, CapsMet
<1>9. ASSUME NEW m \in Module, PrePass(m) \/ Transition(m) PROVE BuildInv'
  BY <1>9 DEF PrePass, Transition
<1>10. ASSUME NEW m \in Module, NEW kind \in {"footprint", "cascade"}, BeginWalk(kind, m)
       PROVE  BuildInv'
  BY <1>10 DEF BeginWalk
<1>11. ASSUME BuildDone \/ PrePassDone \/ Collect \/ Return \/ EndWalk PROVE BuildInv'
  BY <1>11 DEF BuildDone, PrePassDone, Collect, Return, EndWalk
<1> QED
  BY <1>1, <1>2, <1>3, <1>4, <1>5, <1>6, <1>7, <1>8, <1>9, <1>10, <1>11
  DEF Next, Loop

\* The capability check ends with the largest set of modules that provide for each
\* other: unavailability goes down every chain, whatever the order of the records,
\* and reaches nobody it need not (EvaluateRequirements).
THEOREM CheckIsTheFixedPoint == Spec => []Cascaded
<1>1. Init => BuildInv
  BY DEF Init, BuildInv
<1>2. Init => ~(phase = "config")
  BY DEF Init
<1>3. TypeOK /\ BuildInv /\ [Next]_vars /\ Cascaded /\ TypeOK' => Cascaded'
  <2> SUFFICES ASSUME TypeOK, TypeOK', BuildInv, [Next]_vars, Cascaded, phase' = "config", todo' = Module
               PROVE  /\ SelfSufficient(Ready)'
                      /\ \A S \in SUBSET base' : SelfSufficient(S)' => S \subseteq Ready'
    BY DEF Cascaded, Ready
  <2>1. CASE EvaluateDone
    <3>1. /\ phase = "caps" /\ todo = {} /\ ~changed
          /\ UNCHANGED <<requires, state, base>>
      BY <2>1 DEF EvaluateDone
    <3>2. /\ Ready' = Ready /\ Ready \subseteq Module /\ base \subseteq Module
          /\ \A S \in SUBSET Module : SelfSufficient(S)' <=> SelfSufficient(S)
      BY <3>1 DEF Ready, Checked, HasManifest, SelfSufficient, TypeOK
    <3>3. \A n \in Module : HasManifest(n) /\ ~Inert(n) => n \in Ready
      BY <3>1 DEF BuildInv, Ready, Checked, HasManifest, Inert
    <3>4. ReadySurface \subseteq UNION {Provides[p] : p \in Ready}
      BY <3>3 DEF ReadySurface
    <3>5. \A m \in Ready : requires[m] \subseteq ReadySurface
      BY <3>1 DEF BuildInv, Ready, CapsMet
    <3>6. SelfSufficient(Ready)
      BY <3>4, <3>5 DEF SelfSufficient
    <3>7. SelfSufficient(Ready)'
      BY <3>1, <3>2, <3>6 DEF SelfSufficient
    <3> QED BY <3>1, <3>2, <3>7 DEF BuildInv
  <2>2. CASE UNCHANGED vars
    BY <2>2 DEF vars, build, Cascaded, Ready, Checked, HasManifest, SelfSufficient
  <2>3. ASSUME NEW m \in Module, EvaluateConfig(m) PROVE FALSE
    BY <2>3 DEF EvaluateConfig
  <2>4. ASSUME NEW m \in Module, ScanDir(m) \/ EvaluateSystemReqs(m) \/ EvaluateCapReqs(m)
                                  \/ PrePass(m) \/ Transition(m)
        PROVE  FALSE
    BY <2>4 DEF ScanDir, EvaluateSystemReqs, EvaluateCapReqs, PrePass, Transition
  <2>5. ASSUME NEW m \in Module, NEW kind \in {"footprint", "cascade"}, BeginWalk(kind, m) PROVE FALSE
    BY <2>5 DEF BeginWalk
  <2>6. ~(MarkMissing \/ BeginPass \/ BuildDone \/ PrePassDone \/ Collect \/ Return \/ EndWalk)
    BY DEF MarkMissing, BeginPass, BuildDone, PrePassDone, Collect, Return, EndWalk, build
  <2> QED BY <2>1, <2>2, <2>3, <2>4, <2>5, <2>6 DEF Next, Loop
<1>4. Init /\ TypeOK => Cascaded
  BY <1>2 DEF Cascaded
<1> QED BY <1>1, <1>3, <1>4, BuildPreserved, TypeCorrect, PTL DEF Spec

------------------------------------------------------------------------------
\* The walks.

\* A walk changes neither manifests nor states, and so nothing it reads.
LEMMA Fixed ==
    UNCHANGED <<requires, state>> =>
        /\ \A c : FindProvider(c)' = FindProvider(c)
        /\ \A m : (HasManifest(m)' <=> HasManifest(m)) /\ Frame(m)' = Frame(m)
        /\ \A m : Providers(m)' = Providers(m)
        /\ \A S : Reaches(S)' <=> Reaches(S)
        /\ \A m : OnCycle(m)' <=> OnCycle(m)
<1> SUFFICES ASSUME UNCHANGED <<requires, state>>
             PROVE  /\ \A c : FindProvider(c)' = FindProvider(c)
                    /\ \A m : (HasManifest(m)' <=> HasManifest(m)) /\ Frame(m)' = Frame(m)
                    /\ \A m : Providers(m)' = Providers(m)
                    /\ \A S : Reaches(S)' <=> Reaches(S)
                    /\ \A m : OnCycle(m)' <=> OnCycle(m)
  OBVIOUS
<1>1. \A S : Reaches(S)' <=> Reaches(S)
  BY DEF Reaches, FindProvider, HasManifest
<1>2. \A m : OnCycle(m)' <=> OnCycle(m)
  BY <1>1 DEF OnCycle, FindProvider, HasManifest
<1>3. \A c : FindProvider(c)' = FindProvider(c)
  BY DEF FindProvider, HasManifest
<1>4. \A m : (HasManifest(m)' <=> HasManifest(m)) /\ Frame(m)' = Frame(m)
  BY DEF HasManifest, Frame
<1>5. \A m : Providers(m)' = Providers(m)
  BY DEF Providers, FindProvider, HasManifest
<1> QED BY <1>1, <1>2, <1>3, <1>4, <1>5

LEMMA FrameIs ==
    \A m : /\ Frame(m).mod = m
           /\ HasManifest(m) => Frame(m).caps = requires[m]
           /\ ~HasManifest(m) => Frame(m).caps = {}
BY DEF Frame

\* A walk begins with the call of its target.
Begun(m) ==
    /\ target' = m /\ seen' = {m}
    /\ DOMAIN stack' = {1} /\ stack'[1] = Frame(m)
    /\ out' = <<>> /\ DOMAIN out' = {}
    /\ phase' = "cascade" => state[m] \in {"ready", "failed"}

\* What a step that leaves a walk under way does.
LEMMA WalkSteps ==
    ASSUME TypeOK, [Next]_vars, Walking'
    PROVE  /\ UNCHANGED <<requires, state>>
           /\ \/ \E m \in Module : Begun(m)
              \/ Walking /\ Shape /\ Collect
              \/ Walking /\ Shape /\ Return
              \/ Walking /\ Shape /\ UNCHANGED <<walk, phase>>
<1>1. ASSUME NEW m \in Module, NEW kind \in {"footprint", "cascade"}, BeginWalk(kind, m)
      PROVE  UNCHANGED <<requires, state>> /\ Begun(m)
  <2>1. UNCHANGED <<requires, state>> /\ target' = m /\ seen' = {m} /\ out' = <<>> /\ DOMAIN out' = {}
    BY <1>1 DEF BeginWalk
  <2>2. DOMAIN stack' = {1} /\ stack'[1] = Frame(m)
    BY <1>1 DEF BeginWalk
  <2>3. phase' = "cascade" => state[m] \in {"ready", "failed"}
    BY <1>1 DEF BeginWalk
  <2> QED BY <2>1, <2>2, <2>3 DEF Begun
<1>2. ASSUME Collect PROVE UNCHANGED <<requires, state>> /\ Walking /\ Shape
  BY <1>2, Shaped DEF Collect, Walking, build
<1>3. ASSUME Return PROVE UNCHANGED <<requires, state>> /\ Walking /\ Shape
  BY <1>3, Shaped DEF Return, Walking, build
<1>4. ASSUME UNCHANGED vars
      PROVE  UNCHANGED <<requires, state>> /\ Walking /\ Shape /\ UNCHANGED <<walk, phase>>
  BY <1>4, Shaped DEF vars, build, Walking
<1>5. ASSUME NEW m \in Module,
             \/ ScanDir(m) \/ EvaluateSystemReqs(m) \/ EvaluateCapReqs(m)
             \/ EvaluateConfig(m) \/ PrePass(m) \/ Transition(m)
      PROVE  FALSE
  BY <1>5 DEF ScanDir, EvaluateSystemReqs, EvaluateCapReqs, EvaluateConfig, PrePass, Transition,
              Walking
<1>6. ~(MarkMissing \/ BeginPass \/ EvaluateDone \/ BuildDone \/ PrePassDone \/ EndWalk)
  BY DEF MarkMissing, BeginPass, EvaluateDone, BuildDone, PrePassDone, EndWalk, Walking
<1> QED BY <1>1, <1>2, <1>3, <1>4, <1>5, <1>6 DEF Next, Loop

\* Who is gone into is a provider of the innermost call's module.
LEMMA EnteredFor ==
    ASSUME Shape, StackInv, Walking, Len(stack) \in DOMAIN stack, NEW c, NEW p, Entered(c, p)
    PROVE  LET q == stack[Len(stack)].mod IN
           /\ p \in Module /\ p \notin seen /\ q \in seen /\ q \in Module
           /\ c \in requires[q] /\ HasManifest(q) /\ HasManifest(p) /\ p \in FindProvider(c)
           /\ p \in Providers(q)
           /\ phase = "cascade" => state[p] = "ready"
<1> DEFINE q == stack[Len(stack)].mod
<1>1. q \in seen /\ seen \subseteq Module
  BY DEF StackInv, Mods, Shape
<1>2. c \in Frame(q).caps
  BY DEF StackInv, Entered, Took, Top
<1>3. c \in requires[q] /\ HasManifest(q)
  BY <1>2, FrameIs
<1>4. p \in FindProvider(c) /\ Enters(p)
  BY DEF Entered
<1>5. p \in Module /\ HasManifest(p) /\ p \notin seen /\ (phase = "cascade" => state[p] = "ready")
  BY <1>4 DEF FindProvider, Enters
<1>6. p \in Providers(q)
  BY <1>3, <1>4 DEF Providers
<1> QED BY <1>1, <1>3, <1>4, <1>5, <1>6

\* The places of the stack after a provider was gone into.
LEMMA EnteredAt ==
    ASSUME Shape, Len(stack) \in DOMAIN stack, NEW c, NEW p, Entered(c, p)
    PROVE  LET n == Len(stack) IN
           /\ n + 1 \notin DOMAIN stack /\ n + 1 # 1 /\ (n + 1) - 1 = n
           /\ \A i \in DOMAIN stack : i < n + 1 /\ i <= n /\ i \in Nat \ {0} /\ ~(n + 1 < i)
           /\ \A i \in DOMAIN stack : i > 1 => i - 1 \in DOMAIN stack
           /\ \A i \in DOMAIN stack' : i \in DOMAIN stack \/ i = n + 1
           /\ DOMAIN stack \subseteq DOMAIN stack' /\ n + 1 \in DOMAIN stack'
           /\ stack'[n + 1].mod = p /\ stack'[n + 1].caps = Frame(p).caps
           /\ \A i \in DOMAIN stack : stack'[i].mod = stack[i].mod
           /\ \A i \in DOMAIN stack : i # n => stack'[i].caps = stack[i].caps
           /\ stack'[n].caps = stack[n].caps \ {c}
           /\ seen' = seen \cup {p}
<1>1. Len(stack) \in Nat /\ DOMAIN stack = 1 .. Len(stack)
  BY DEF Shape
<1>2. /\ Len(stack) + 1 \notin DOMAIN stack /\ Len(stack) + 1 # 1 /\ (Len(stack) + 1) - 1 = Len(stack)
      /\ \A i \in DOMAIN stack : i < Len(stack) + 1 /\ i <= Len(stack) /\ i \in Nat \ {0} /\ ~(Len(stack) + 1 < i)
      /\ \A i \in DOMAIN stack : i > 1 => i - 1 \in DOMAIN stack
  BY <1>1
<1>3. /\ \A i \in DOMAIN stack' : i \in DOMAIN stack \/ i = Len(stack) + 1
      /\ DOMAIN stack \subseteq DOMAIN stack' /\ Len(stack) + 1 \in DOMAIN stack'
      /\ seen' = seen \cup {p}
  BY DEF Entered
<1>4. stack'[Len(stack) + 1].mod = p /\ stack'[Len(stack) + 1].caps = Frame(p).caps
  BY FrameIs DEF Entered
<1>5. /\ \A i \in DOMAIN stack : stack'[i].mod = stack[i].mod
      /\ \A i \in DOMAIN stack : i # Len(stack) => stack'[i].caps = stack[i].caps
      /\ stack'[Len(stack)].caps = stack[Len(stack)].caps \ {c}
  BY DEF Entered, Took
<1> QED BY <1>2, <1>3, <1>4, <1>5, Zenon

LEMMA StackPreserved == TypeOK /\ StackInv /\ [Next]_vars => StackInv'
<1> SUFFICES ASSUME TypeOK, StackInv, [Next]_vars, Walking' PROVE StackInv'
  BY DEF StackInv
<1>0. UNCHANGED <<requires, state>>
  BY WalkSteps
<1>1. ASSUME NEW m \in Module, Begun(m) PROVE StackInv'
  <2>1. /\ target' = m /\ seen' = {m} /\ DOMAIN stack' = {1} /\ stack'[1].mod = m
        /\ stack'[1].caps = Frame(m).caps
    BY <1>1, FrameIs DEF Begun
  <2>2. \A i \in DOMAIN stack' : i = 1 /\ ~(i > 1) /\ ~ \E k \in DOMAIN stack' : k < i \/ i < k
    BY <2>1
  <2>3. Mods' = {m}
    BY <2>1 DEF Mods
  <2> QED BY <1>0, <2>1, <2>2, <2>3, Fixed DEF StackInv
<1>2. ASSUME Walking, Shape, Collect PROVE StackInv'
  <2>1. /\ Len(stack) \in DOMAIN stack /\ target' = target /\ phase' = phase
        /\ \E c \in Cap : Passed(c) \/ \E p \in Module : Entered(c, p)
    BY <1>2, CollectStep
  <2>2. ASSUME NEW c \in Cap, Passed(c) PROVE StackInv'
    <3>1. /\ DOMAIN stack' = DOMAIN stack /\ seen' = seen
          /\ \A i \in DOMAIN stack : stack'[i].mod = stack[i].mod /\ stack'[i].caps \subseteq stack[i].caps
      BY <2>2 DEF Passed, Took
    <3>2. Mods' = Mods
      BY <3>1 DEF Mods
    <3>3. /\ stack # <<>> /\ 1 \in DOMAIN stack
          /\ \A i \in DOMAIN stack : i > 1 => i - 1 \in DOMAIN stack
      BY <1>2 DEF Shape, Collect
    <3>4. stack'[1].mod = target
      BY <1>2, <3>1, <3>3 DEF StackInv
    <3>5. \A i \in DOMAIN stack' : i > 1 => stack'[i].mod \in Providers(stack'[i - 1].mod)
      BY <1>2, <3>1, <3>3 DEF StackInv
    <3>6. \A i \in DOMAIN stack' : stack'[i].caps \subseteq Frame(stack'[i].mod).caps
      BY <1>2, <3>1 DEF StackInv
    <3>7. \A k, l \in DOMAIN stack' : k < l => stack'[k].mod # stack'[l].mod
      BY <1>2, <3>1 DEF StackInv
    <3>8. \A S \in SUBSET Module : Reaches(S) =>
              /\ target' \in S => seen' \subseteq S
              /\ \A k, l \in DOMAIN stack' : k < l /\ stack'[k].mod \in S => stack'[l].mod \in S
      BY <1>2, <2>1, <3>1 DEF StackInv
    <3> QED BY <1>0, <1>2, <2>1, <3>1, <3>2, <3>4, <3>5, <3>6, <3>7, <3>8, Fixed DEF StackInv
  <2>3. ASSUME NEW c \in Cap, NEW p \in Module, Entered(c, p) PROVE StackInv'
    <3> DEFINE n == Len(stack)
               q == stack[n].mod
    <3>1. /\ p \notin seen /\ q \in seen /\ q \in Module
          /\ c \in requires[q] /\ HasManifest(q) /\ p \in FindProvider(c) /\ p \in Providers(q)
      BY <1>2, <2>1, <2>3, EnteredFor
    <3>2. /\ n + 1 \notin DOMAIN stack /\ n + 1 # 1 /\ (n + 1) - 1 = n /\ n \in DOMAIN stack
          /\ \A i \in DOMAIN stack : i < n + 1 /\ i <= n /\ i \in Nat \ {0} /\ ~(n + 1 < i)
          /\ \A i \in DOMAIN stack : i > 1 => i - 1 \in DOMAIN stack
          /\ \A i \in DOMAIN stack' : i \in DOMAIN stack \/ i = n + 1
          /\ DOMAIN stack \subseteq DOMAIN stack' /\ n + 1 \in DOMAIN stack'
          /\ stack'[n + 1].mod = p /\ stack'[n + 1].caps = Frame(p).caps
          /\ \A i \in DOMAIN stack : stack'[i].mod = stack[i].mod
          /\ \A i \in DOMAIN stack : i # n => stack'[i].caps = stack[i].caps
          /\ stack'[n].caps = stack[n].caps \ {c}
          /\ seen' = seen \cup {p}
      BY <1>2, <2>1, <2>3, EnteredAt
    <3>3. 1 \in DOMAIN stack /\ stack # <<>> /\ ~(n + 1 < n + 1)
      BY <1>2, <2>1 DEF Shape
    <3> HIDE DEF n
    <3>4. stack'[1].mod = target
      BY <1>2, <3>2, <3>3 DEF StackInv
    <3>5. Mods' \subseteq seen'
      BY <1>2, <3>2 DEF StackInv, Mods
    <3>6. \A i \in DOMAIN stack' : stack'[i].caps \subseteq Frame(stack'[i].mod).caps
      <4>1. \A i \in DOMAIN stack : stack'[i].caps \subseteq stack[i].caps
        BY <3>2
      <4> QED BY <1>2, <3>2, <4>1 DEF StackInv
    <3>7. \A k, l \in DOMAIN stack' : k < l => stack'[k].mod # stack'[l].mod
      <4>1. \A k \in DOMAIN stack : stack[k].mod # p
        BY <1>2, <3>1 DEF StackInv, Mods
      <4> QED BY <1>2, <3>2, <3>3, <4>1 DEF StackInv
    <3>8. \A i \in DOMAIN stack' : i > 1 => stack'[i].mod \in Providers(stack'[i - 1].mod)
      BY <1>2, <3>1, <3>2 DEF StackInv
    <3>9. ASSUME NEW S \in SUBSET Module, Reaches(S)
          PROVE  /\ target \in S => seen' \subseteq S
                 /\ \A k, l \in DOMAIN stack' : k < l /\ stack'[k].mod \in S => stack'[l].mod \in S
      <4>1. q \in S => p \in S
        BY <3>1, <3>9 DEF Reaches
      <4>2. target \in S => seen \subseteq S
        BY <1>2, <3>9 DEF StackInv
      <4>3. \A k \in DOMAIN stack : stack[k].mod \in S => q \in S
        <5>1. \A k \in DOMAIN stack : k = n \/ k < n
          BY <3>2
        <5> QED BY <1>2, <3>2, <3>9, <5>1 DEF StackInv
      <4>4. \A k, l \in DOMAIN stack : k < l /\ stack[k].mod \in S => stack[l].mod \in S
        BY <1>2, <3>9 DEF StackInv
      <4>5. ASSUME NEW k \in DOMAIN stack', NEW l \in DOMAIN stack', k < l, stack'[k].mod \in S
            PROVE  stack'[l].mod \in S
        <5>1. CASE k = n + 1
          BY <3>2, <3>3, <4>5, <5>1
        <5>2. CASE k \in DOMAIN stack /\ l = n + 1
          BY <3>2, <4>1, <4>3, <4>5, <5>2
        <5>3. CASE k \in DOMAIN stack /\ l \in DOMAIN stack
          BY <3>2, <4>4, <4>5, <5>3
        <5> QED BY <3>2, <5>1, <5>2, <5>3
      <4>6. target \in S => seen' \subseteq S
        BY <3>1, <3>2, <4>1, <4>2
      <4> QED BY <4>5, <4>6
    <3>10. target' \in seen'
      BY <1>2, <2>1, <3>2 DEF StackInv
    <3> QED BY <1>0, <2>1, <3>4, <3>5, <3>6, <3>7, <3>8, <3>9, <3>10, Fixed DEF StackInv
  <2> QED BY <2>1, <2>2, <2>3
<1>3. ASSUME Walking, Shape, Return PROVE StackInv'
  <2>1. /\ DOMAIN stack' \subseteq DOMAIN stack
        /\ \A i \in DOMAIN stack' : stack'[i] = stack[i]
        /\ \A i \in DOMAIN stack' : i > 1 => i - 1 \in DOMAIN stack'
        /\ stack' # <<>> => 1 \in DOMAIN stack'
    <3>1. Len(stack) \in Nat \ {0} /\ DOMAIN stack = 1 .. Len(stack) /\ DOMAIN stack' = 1 .. Len(stack) - 1
          /\ stack' \in Seq(Calls)
          /\ \A i \in 1 .. Len(stack) - 1 : stack'[i] = stack[i]
      BY <1>3, ReturnStep
    <3>2. stack' # <<>> => 1 \in DOMAIN stack'
      BY <3>1
    <3> QED BY <3>1, <3>2
  <2>2. UNCHANGED <<phase, target, seen>>
    BY <1>3, ReturnStep
  <2>3. Mods' \subseteq Mods
    BY <2>1 DEF Mods
  <2>4. stack' # <<>> => stack'[1].mod = target
    BY <1>3, <2>1 DEF StackInv
  <2>5. /\ \A i \in DOMAIN stack' : stack'[i].caps \subseteq Frame(stack'[i].mod).caps
        /\ \A k, l \in DOMAIN stack' : k < l => stack'[k].mod # stack'[l].mod
        /\ \A i \in DOMAIN stack' : i > 1 => stack'[i].mod \in Providers(stack'[i - 1].mod)
    BY <1>3, <2>1 DEF StackInv
  <2>6. \A S \in SUBSET Module : Reaches(S) =>
            /\ target \in S => seen \subseteq S
            /\ \A k, l \in DOMAIN stack' : k < l /\ stack'[k].mod \in S => stack'[l].mod \in S
    BY <1>3, <2>1 DEF StackInv
  <2> QED BY <1>0, <1>3, <2>2, <2>3, <2>4, <2>5, <2>6, Fixed DEF StackInv
<1>4. ASSUME Walking, UNCHANGED <<walk, phase>> PROVE StackInv'
  BY <1>0, <1>4, Fixed DEF StackInv, Mods, walk, Walking
<1> QED BY <1>1, <1>2, <1>3, <1>4, WalkSteps

LEMMA OneProvider ==
    ASSUME Unrivalled, NEW c \in Cap, NEW p \in FindProvider(c), NEW q \in FindProvider(c)
    PROVE  p = q
BY DEF Unrivalled, FindProvider

LEMMA CoverPreserved ==
    ASSUME Unrivalled PROVE TypeOK /\ StackInv /\ CoverInv /\ [Next]_vars => CoverInv'
<1> SUFFICES ASSUME TypeOK, StackInv, CoverInv, [Next]_vars, Walking' PROVE CoverInv'
  BY DEF CoverInv
<1>0. UNCHANGED <<requires, state>>
  BY WalkSteps
<1>1. ASSUME NEW m \in Module, Begun(m) PROVE CoverInv'
  BY <1>0, <1>1, FrameIs, Fixed DEF Begun, CoverInv
<1>2. ASSUME Walking, Shape, Collect PROVE CoverInv'
  <2>1. /\ Len(stack) \in DOMAIN stack /\ phase' = phase
        /\ \E c \in Cap : Passed(c) \/ \E p \in Module : Entered(c, p)
    BY <1>2, CollectStep
  <2>2. \A m \in seen : requires[m] \subseteq Cap
    BY <1>2 DEF Shape
  <2>3. ASSUME NEW c \in Cap, Passed(c) PROVE CoverInv'
    <3>1. SUFFICES ASSUME NEW m \in seen, HasManifest(m), NEW d \in requires[m], NEW p \in FindProvider(d),
                          phase = "cascade" => state[p] = "ready"
                   PROVE  p \in seen \/ \E i \in DOMAIN stack' : stack'[i].mod = m /\ d \in stack'[i].caps
      BY <1>0, <2>1, <2>3, Fixed DEF CoverInv, Passed
    <3>2. p \in seen \/ \E i \in DOMAIN stack : stack[i].mod = m /\ d \in stack[i].caps
      BY <1>2, <3>1 DEF CoverInv
    <3>3. CASE d = c
      <4>1. ~Enters(p)
        BY <2>2, <2>3, <3>1, <3>3, OneProvider DEF Passed
      <4> QED BY <3>1, <4>1 DEF Enters
    <3>4. ASSUME d # c, NEW i \in DOMAIN stack, stack[i].mod = m, d \in stack[i].caps
          PROVE  i \in DOMAIN stack' /\ stack'[i].mod = m /\ d \in stack'[i].caps
      BY <2>3, <3>4 DEF Passed, Took
    <3> QED BY <3>2, <3>3, <3>4
  <2>4. ASSUME NEW c \in Cap, NEW q \in Module, Entered(c, q) PROVE CoverInv'
    <3>1. SUFFICES ASSUME NEW m \in seen \cup {q}, HasManifest(m), NEW d \in requires[m],
                          NEW p \in FindProvider(d), phase = "cascade" => state[p] = "ready"
                   PROVE  \/ p \in seen \cup {q}
                          \/ \E i \in DOMAIN stack' : stack'[i].mod = m /\ d \in stack'[i].caps
      BY <1>0, <2>1, <2>4, Fixed DEF CoverInv, Entered
    <3>2. CASE m = q
      <4>1. Len(stack) + 1 \in DOMAIN stack' /\ stack'[Len(stack) + 1] = Frame(q)
        BY <2>4 DEF Entered
      <4> QED BY <3>1, <3>2, <4>1, FrameIs
    <3>3. CASE m \in seen
      <4>1. p \in seen \/ \E i \in DOMAIN stack : stack[i].mod = m /\ d \in stack[i].caps
        BY <1>2, <3>1, <3>3 DEF CoverInv
      <4>2. CASE d = c
        BY <2>2, <2>4, <3>1, <3>3, <4>2, OneProvider DEF Entered
      <4>3. ASSUME d # c, NEW i \in DOMAIN stack, stack[i].mod = m, d \in stack[i].caps
            PROVE  i \in DOMAIN stack' /\ stack'[i].mod = m /\ d \in stack'[i].caps
        BY <2>4, <4>3 DEF Entered, Took
      <4> QED BY <4>1, <4>2, <4>3
    <3> QED BY <3>1, <3>2, <3>3
  <2> QED BY <2>1, <2>3, <2>4
<1>3. ASSUME Walking, Shape, Return PROVE CoverInv'
  <2>1. UNCHANGED <<phase, seen>>
    BY <1>3, ReturnStep
  <2>2. ASSUME NEW i \in DOMAIN stack, stack[i].caps # {} PROVE i \in DOMAIN stack' /\ stack'[i] = stack[i]
    <3>1. /\ Len(stack) \in Nat \ {0} /\ stack[Len(stack)].caps = {}
          /\ DOMAIN stack = 1 .. Len(stack) /\ DOMAIN stack' = 1 .. Len(stack) - 1
          /\ \A k \in 1 .. Len(stack) - 1 : stack'[k] = stack[k]
      BY <1>3, ReturnStep
    <3> QED BY <2>2, <3>1
  <2> QED BY <1>0, <1>3, <2>1, <2>2, Fixed DEF CoverInv
<1>4. ASSUME Walking, UNCHANGED <<walk, phase>> PROVE CoverInv'
  BY <1>0, <1>4, Fixed DEF CoverInv, walk, Walking
<1> QED BY <1>1, <1>2, <1>3, <1>4, WalkSteps

\* Who is on the stack when a call returns, and what is listed then.
LEMMA Returned ==
    ASSUME Shape, StackInv, Walking, Return
    PROVE  LET n == Len(stack)
               m == stack[n].mod
               o == Len(out)
           IN  /\ n \in DOMAIN stack /\ m \in Module /\ stack[n].caps = {}
               /\ \A k \in DOMAIN stack : k = n \/ (k < n /\ k \in DOMAIN stack')
               /\ \A k \in DOMAIN stack' : k \in DOMAIN stack /\ stack'[k] = stack[k] /\ k # n
               /\ \A k \in DOMAIN stack : stack[k].mod = m => k = n
               /\ m # target => n > 1 /\ n - 1 \in DOMAIN stack'
               /\ Mods' = Mods \ {m} /\ m \in Mods
               /\ o \in Nat /\ DOMAIN out = 1 .. o
               /\ m = target => out' = out
               /\ m # target => /\ DOMAIN out' = 1 .. o + 1 /\ out'[o + 1] = m
                                /\ \A j \in 1 .. o : out'[j] = out[j]
                                /\ Listed' = Listed \cup {m}
               /\ UNCHANGED <<requires, state, phase, target, seen>>
<1> DEFINE n == Len(stack)
           m == stack[n].mod
           o == Len(out)
<1>1. /\ n \in DOMAIN stack /\ n \in Nat \ {0} /\ stack[n].caps = {}
      /\ DOMAIN stack = 1 .. n /\ DOMAIN stack' = 1 .. n - 1
      /\ \A i \in 1 .. n - 1 : stack'[i] = stack[i]
      /\ out' = IF m = target THEN out ELSE Append(out, m)
      /\ m \in Module
      /\ UNCHANGED <<requires, state, phase, target, seen>>
  BY ReturnStep
<1>2. /\ o \in Nat /\ DOMAIN out = 1 .. o /\ out \in Seq(Module)
      /\ \A j \in 1 .. o + 1 : j = o + 1 \/ j \in 1 .. o
      /\ o + 1 \in 1 .. o + 1 /\ \A j \in 1 .. o : j \in 1 .. o + 1
  BY DEF Shape
<1>3. m # target => /\ DOMAIN out' = 1 .. o + 1 /\ out'[o + 1] = m
                    /\ \A j \in 1 .. o : out'[j] = out[j]
  <2>1. ASSUME out' = Append(out, m) PROVE /\ DOMAIN out' = 1 .. o + 1 /\ out'[o + 1] = m
                                           /\ \A j \in 1 .. o : out'[j] = out[j]
    BY <1>1, <1>2, <2>1
  <2> QED BY <1>1, <2>1
<1>4. m # target => Listed' = Listed \cup {m}
  BY <1>2, <1>3, Zenon DEF Listed
<1>5. /\ \A k \in DOMAIN stack : k = n \/ (k < n /\ k \in DOMAIN stack')
      /\ \A k \in DOMAIN stack' : k \in DOMAIN stack /\ stack'[k] = stack[k] /\ k # n
      /\ 1 \in DOMAIN stack /\ (n # 1 => n > 1 /\ n - 1 \in DOMAIN stack')
  BY <1>1
<1>6. \A k \in DOMAIN stack : stack[k].mod = m => k = n
  <2> HIDE DEF n
  <2> QED BY <1>1, <1>5 DEF StackInv
<1>7. m # target => n # 1
  BY <1>1 DEF StackInv, Shape
<1>8. Mods' = Mods \ {m} /\ m \in Mods
  <2> HIDE DEF n
  <2> QED BY <1>1, <1>5, <1>6 DEF Mods
<1> QED BY <1>1, <1>2, <1>3, <1>4, <1>5, <1>6, <1>7, <1>8, Zenon

LEMMA ListPreserved == TypeOK /\ StackInv /\ ListInv /\ [Next]_vars => ListInv'
<1> SUFFICES ASSUME TypeOK, StackInv, ListInv, [Next]_vars, Walking' PROVE ListInv'
  BY DEF ListInv
<1>0. UNCHANGED <<requires, state>>
  BY WalkSteps
<1>1. ASSUME NEW m \in Module, Begun(m) PROVE ListInv'
  <2>1. Mods' = {m} /\ Listed' = {}
    BY <1>1, FrameIs DEF Begun, Mods, Listed
  <2> QED BY <1>0, <1>1, <2>1 DEF Begun, ListInv
<1>2. ASSUME Walking, Shape, Collect PROVE ListInv'
  <2>1. /\ Len(stack) \in DOMAIN stack /\ UNCHANGED <<phase, target, out>>
        /\ \E c \in Cap : Passed(c) \/ \E p \in Module : Entered(c, p)
    BY <1>2, CollectStep
  <2>2. Listed' = Listed
    BY <2>1 DEF Listed
  <2>3. ASSUME NEW c \in Cap, Passed(c) PROVE ListInv'
    <3>1. Mods' = Mods /\ seen' = seen
      BY <2>3 DEF Passed, Took, Mods
    <3> QED BY <1>0, <1>2, <2>1, <2>2, <3>1 DEF ListInv, Walking
  <2>4. ASSUME NEW c \in Cap, NEW p \in Module, Entered(c, p) PROVE ListInv'
    <3>1. p \notin seen /\ (phase = "cascade" => state[p] = "ready")
      BY <1>2, <2>1, <2>4, EnteredFor
    <3>2. Mods' = Mods \cup {p} /\ seen' = seen \cup {p}
      <4>1. /\ \A i \in DOMAIN stack' : i \in DOMAIN stack \/ i = Len(stack) + 1
            /\ DOMAIN stack \subseteq DOMAIN stack' /\ Len(stack) + 1 \in DOMAIN stack'
            /\ stack'[Len(stack) + 1].mod = p
            /\ \A i \in DOMAIN stack : stack'[i].mod = stack[i].mod
            /\ seen' = seen \cup {p}
        BY <1>2, <2>1, <2>4, EnteredAt
      <4> QED BY <4>1, Zenon DEF Mods
    <3> QED BY <1>0, <1>2, <2>1, <2>2, <3>1, <3>2 DEF ListInv
  <2> QED BY <2>1, <2>3, <2>4
<1>3. ASSUME Walking, Shape, Return PROVE ListInv'
  <2> DEFINE m == stack[Len(stack)].mod
             o == Len(out)
  <2>1. /\ Mods' = Mods \ {m} /\ m \in Mods
        /\ o \in Nat /\ DOMAIN out = 1 .. o
        /\ m = target => out' = out
        /\ m # target => /\ DOMAIN out' = 1 .. o + 1 /\ out'[o + 1] = m
                         /\ \A j \in 1 .. o : out'[j] = out[j]
                         /\ Listed' = Listed \cup {m}
        /\ UNCHANGED <<phase, target, seen>>
    BY <1>3, Returned
  <2> HIDE DEF m, o
  <2>2. /\ seen = {target} \cup Listed \cup Mods /\ target \notin Listed /\ Listed \cap Mods = {}
        /\ \A i, j \in DOMAIN out : i < j => out[i] # out[j]
        /\ phase = "cascade" => /\ state[target] \in {"ready", "failed"}
                                /\ \A q \in seen \ {target} : state[q] = "ready"
    BY <1>3 DEF ListInv
  <2>3. CASE m = target
    <3>1. out' = out /\ Listed' = Listed
      BY <2>1, <2>3 DEF Listed
    <3> QED BY <1>0, <2>1, <2>2, <2>3, <3>1 DEF ListInv
  <2>4. CASE m # target
    <3>1. \A j \in 1 .. o : out[j] # m
      BY <2>1, <2>2 DEF Listed
    <3>2. \A i \in 1 .. o + 1 : i \in 1 .. o \/ (i = o + 1 /\ \A j \in 1 .. o + 1 : ~(i < j))
      BY <2>1
    <3>3. \A i, j \in DOMAIN out' : i < j => out'[i] # out'[j]
      <4>1. SUFFICES ASSUME NEW i \in 1 .. o + 1, NEW j \in 1 .. o + 1, i < j
                     PROVE  out'[i] # out'[j]
        BY <2>1, <2>4
      <4>2. i \in 1 .. o
        BY <3>2, <4>1
      <4> QED BY <2>1, <2>2, <2>4, <3>1, <3>2, <4>1, <4>2
    <3> QED BY <1>0, <2>1, <2>2, <2>4, <3>3 DEF ListInv
  <2> QED BY <2>3, <2>4
<1>4. ASSUME Walking, UNCHANGED <<walk, phase>> PROVE ListInv'
  BY <1>0, <1>4 DEF ListInv, Mods, Listed, walk
<1> QED BY <1>1, <1>2, <1>3, <1>4, WalkSteps

LEMMA ForPreserved == TypeOK /\ StackInv /\ ForInv /\ [Next]_vars => ForInv'
<1> SUFFICES ASSUME TypeOK, StackInv, ForInv, [Next]_vars, Walking' PROVE ForInv'
  BY DEF ForInv
<1>0. UNCHANGED <<requires, state>>
  BY WalkSteps
<1>1. ASSUME NEW m \in Module, Begun(m) PROVE ForInv'
  BY <1>1 DEF Begun, ForInv
<1>2. ASSUME Walking, Shape, Collect PROVE ForInv'
  <2>1. UNCHANGED <<target, out>>
    BY <1>2, CollectStep
  <2>2. DOMAIN stack \subseteq DOMAIN stack' /\ \A k \in DOMAIN stack : stack'[k].mod = stack[k].mod
    BY <1>2, CollectStep DEF Passed, Entered, Took
  <2> QED BY <1>0, <1>2, <2>1, <2>2, Fixed DEF ForInv
<1>3. ASSUME Walking, Shape, Return PROVE ForInv'
  <2> DEFINE n == Len(stack)
             m == stack[n].mod
             o == Len(out)
  <2>1. /\ n \in DOMAIN stack
        /\ \A k \in DOMAIN stack : k = n \/ (k < n /\ k \in DOMAIN stack')
        /\ \A k \in DOMAIN stack' : k \in DOMAIN stack /\ stack'[k] = stack[k] /\ k # n
        /\ m # target => n > 1 /\ n - 1 \in DOMAIN stack'
        /\ o \in Nat /\ DOMAIN out = 1 .. o
        /\ m = target => out' = out
        /\ m # target => /\ DOMAIN out' = 1 .. o + 1 /\ out'[o + 1] = m
                         /\ \A j \in 1 .. o : out'[j] = out[j]
                         /\ Listed' = Listed \cup {m}
        /\ UNCHANGED <<phase, target, seen>>
    BY <1>3, Returned
  <2>2. m # target => m \in Providers(stack[n - 1].mod)
    BY <1>3, <2>1 DEF StackInv
  <2> DEFINE For(j) ==
                 \/ out[j] \in Providers(target)
                 \/ \E i \in DOMAIN out : j < i /\ out[j] \in Providers(out[i])
                 \/ \E k \in DOMAIN stack : out[j] \in Providers(stack[k].mod)
  <2>3. \A j \in 1 .. o : For(j)
    BY <1>3, <2>1 DEF ForInv
  <2> HIDE DEF n, o
  <2>4. CASE m = target
    <3>1. ASSUME NEW k \in DOMAIN stack
          PROVE  stack[k].mod = target \/ (k \in DOMAIN stack' /\ stack'[k].mod = stack[k].mod)
      BY <2>1, <2>4
    <3>2. \A j \in DOMAIN out :
              \/ out[j] \in Providers(target)
              \/ \E i \in DOMAIN out : j < i /\ out[j] \in Providers(out[i])
              \/ \E k \in DOMAIN stack' : out[j] \in Providers(stack'[k].mod)
      BY <2>1, <2>3, <3>1
    <3> QED BY <1>0, <2>1, <2>4, <3>2, Fixed DEF ForInv
  <2>5. CASE m # target
    <3>1. o + 1 \in 1 .. o + 1 /\ \A j \in 1 .. o : j \in 1 .. o + 1 /\ j < o + 1
      BY <2>1
    <3>2. \A j \in 1 .. o + 1 : j = o + 1 \/ j \in 1 .. o
      BY <2>1
    <3> DEFINE After(j) ==
                   \/ out'[j] \in Providers(target)
                   \/ \E i \in 1 .. o + 1 : j < i /\ out'[j] \in Providers(out'[i])
                   \/ \E k \in DOMAIN stack' : out'[j] \in Providers(stack'[k].mod)
    <3>3. After(o + 1)
      BY <2>1, <2>2, <2>5
    <3>4. ASSUME NEW j \in 1 .. o PROVE After(j)
      <4>1. out'[j] = out[j] /\ For(j)
        BY <2>1, <2>3, <2>5
      <4>2. CASE out[j] \in Providers(target)
        BY <4>1, <4>2
      <4>3. ASSUME NEW i \in DOMAIN out, j < i, out[j] \in Providers(out[i]) PROVE After(j)
        <5>1. out'[i] = out[i] /\ i \in 1 .. o + 1
          BY <2>1, <2>5, <3>1, <4>3
        <5> QED BY <4>1, <4>3, <5>1
      <4>4. ASSUME NEW k \in DOMAIN stack, out[j] \in Providers(stack[k].mod) PROVE After(j)
        <5>1. CASE k = n
          <6>1. out'[o + 1] = stack[k].mod /\ o + 1 \in 1 .. o + 1 /\ j < o + 1
            BY <2>1, <2>5, <3>1, <5>1
          <6> QED BY <4>1, <4>4, <6>1
        <5>2. CASE k \in DOMAIN stack'
          BY <2>1, <4>1, <4>4, <5>2
        <5> QED BY <2>1, <5>1, <5>2
      <4> QED BY <4>1, <4>2, <4>3, <4>4
    <3>5. \A j \in 1 .. o + 1 : After(j)
      BY <3>2, <3>3, <3>4
    <3> QED BY <1>0, <2>1, <2>5, <3>5, Fixed DEF ForInv
  <2> QED BY <2>4, <2>5
<1>4. ASSUME Walking, UNCHANGED <<walk, phase>> PROVE ForInv'
  BY <1>0, <1>4, Fixed DEF ForInv, walk
<1> QED BY <1>1, <1>2, <1>3, <1>4, WalkSteps

\* All that a call has gone through when it returns was met.
LEMMA AllMet ==
    ASSUME StackInv, CoverInv, ListInv, Shape, Walking, Return, phase = "cascade",
           NEW p \in Providers(stack[Len(stack)].mod), state[p] = "ready"
    PROVE  p \in seen
<1> DEFINE n == Len(stack)
           m == stack[n].mod
<1>1. /\ n \in DOMAIN stack /\ stack[n].caps = {} /\ m \in Mods
      /\ \A k \in DOMAIN stack : stack[k].mod = m => k = n
  BY Returned
<1>2. m \in seen /\ HasManifest(m)
  BY <1>1 DEF ListInv, HasManifest
<1>3. PICK c \in requires[m] : p \in FindProvider(c)
  BY DEF Providers
<1>4. p \in seen \/ \E i \in DOMAIN stack : stack[i].mod = m /\ c \in stack[i].caps
  BY <1>2, <1>3 DEF CoverInv
<1> QED BY <1>1, <1>4

LEMMA BeforePreserved ==
    TypeOK /\ StackInv /\ CoverInv /\ ListInv /\ BeforeInv /\ [Next]_vars => BeforeInv'
<1> SUFFICES ASSUME TypeOK, StackInv, CoverInv, ListInv, BeforeInv, [Next]_vars,
                    Walking', phase' = "cascade"
             PROVE  BeforeInv'
  BY DEF BeforeInv, Walking
<1>0. UNCHANGED <<requires, state>>
  BY WalkSteps
<1>1. ASSUME NEW m \in Module, Begun(m) PROVE BeforeInv'
  BY <1>1 DEF Begun, BeforeInv
<1>2. ASSUME Walking, Shape, Collect PROVE BeforeInv'
  <2>1. UNCHANGED <<phase, target, out>>
    BY <1>2, CollectStep
  <2> QED BY <1>0, <2>1, Fixed DEF BeforeInv
<1>3. ASSUME Walking, Shape, Return PROVE BeforeInv'
  <2> DEFINE n == Len(stack)
             m == stack[n].mod
             o == Len(out)
  <2>1. /\ n \in DOMAIN stack
        /\ \A k \in DOMAIN stack : k = n \/ (k < n /\ k \in DOMAIN stack')
        /\ o \in Nat /\ DOMAIN out = 1 .. o
        /\ m = target => out' = out
        /\ m # target => /\ DOMAIN out' = 1 .. o + 1 /\ out'[o + 1] = m
                         /\ \A j \in 1 .. o : out'[j] = out[j]
        /\ UNCHANGED <<phase, target, seen>>
    BY <1>3, Returned
  <2>2. m = target => BeforeInv'
    BY <1>0, <2>1, Fixed DEF BeforeInv
  <2>3. ASSUME ~OnCycle(m), NEW p \in Providers(m), state[p] = "ready", p # target
        PROVE  \E j \in 1 .. o : out[j] = p
    <3>1. p \in Listed \/ p \in Mods
      BY <1>3, <2>1, <2>3, AllMet DEF ListInv
    <3>2. CASE p \in Listed
      BY <2>1, <3>2 DEF Listed
    <3>3. CASE p \in Mods
      <4>1. PICK k \in DOMAIN stack : stack[k].mod = p
        BY <3>3 DEF Mods
      <4>2. ASSUME NEW S \in SUBSET Module, p \in S, Reaches(S) PROVE m \in S
        <5>1. CASE k = n
          BY <4>1, <4>2, <5>1
        <5>2. CASE k < n
          BY <1>3, <2>1, <4>1, <4>2, <5>2 DEF StackInv
        <5> QED BY <2>1, <5>1, <5>2
      <4>3. PICK c \in requires[m] : p \in FindProvider(c)
        BY <2>3 DEF Providers
      <4>4. OnCycle(m)
        BY <4>2, <4>3 DEF OnCycle
      <4> QED BY <2>3, <4>4
    <3> QED BY <3>1, <3>2, <3>3
  <2>4. CASE m # target
    <3> HIDE DEF n, m, o
    <3>1. \A i \in 1 .. o + 1 : i = o + 1 \/ i \in 1 .. o
      BY <2>1
    <3>2. ASSUME NEW i \in 1 .. o + 1, ~OnCycle(out'[i]), NEW p \in Providers(out'[i]),
                 state[p] = "ready", p # target
          PROVE  \E j \in 1 .. i - 1 : out'[j] = p
      <4>1. CASE i = o + 1
        <5>1. \E j \in 1 .. o : out[j] = p
          BY <2>1, <2>3, <2>4, <3>2, <4>1
        <5> QED BY <2>1, <2>4, <4>1, <5>1
      <4>2. CASE i \in 1 .. o
        <5>1. out'[i] = out[i] /\ i \in DOMAIN out
          BY <2>1, <2>4, <4>2
        <5>2. PICK j \in 1 .. i - 1 : out[j] = p
          BY <2>1, <3>2, <5>1 DEF BeforeInv
        <5>3. j \in 1 .. o
          BY <2>1, <4>2
        <5> QED BY <2>1, <2>4, <5>2, <5>3
      <4> QED BY <3>1, <4>1, <4>2
    <3> QED BY <1>0, <2>1, <2>4, <3>2, Fixed DEF BeforeInv
  <2> QED BY <2>2, <2>4
<1>4. ASSUME Walking, UNCHANGED <<walk, phase>> PROVE BeforeInv'
  BY <1>0, <1>4, Fixed DEF BeforeInv, walk
<1> QED BY <1>1, <1>2, <1>3, <1>4, WalkSteps

WalkInv == StackInv /\ ListInv /\ ForInv

LEMMA WalkInvariant == Spec => []WalkInv
<1>1. Init => WalkInv
  BY DEF Init, WalkInv, StackInv, ListInv, ForInv, Walking
<1>2. TypeOK /\ WalkInv /\ [Next]_vars => WalkInv'
  BY StackPreserved, ListPreserved, ForPreserved DEF WalkInv
<1> QED BY <1>1, <1>2, TypeCorrect, PTL DEF Spec

LEMMA WalkCovers == ASSUME Unrivalled PROVE Spec => [](CoverInv /\ BeforeInv)
<1>1. Init => CoverInv /\ BeforeInv
  BY DEF Init, CoverInv, BeforeInv, Walking
<1>2. TypeOK /\ WalkInv /\ CoverInv /\ BeforeInv /\ [Next]_vars => (CoverInv /\ BeforeInv)'
  BY CoverPreserved, BeforePreserved DEF WalkInv
<1> QED BY <1>1, <1>2, TypeCorrect, WalkInvariant, PTL DEF Spec

------------------------------------------------------------------------------
\* Whoever declares what, a footprint never goes beyond what its module reaches
\* through declared requirements, and a walk lists nobody else (Footprint).
THEOREM WalkStaysInside ==
    Spec => [](Walking => target \in seen /\ \A S \in SUBSET Module :
                              target \in S /\ Reaches(S) => seen \subseteq S)
<1>1. WalkInv => (Walking => target \in seen /\ \A S \in SUBSET Module :
                                 target \in S /\ Reaches(S) => seen \subseteq S)
  BY DEF WalkInv, StackInv
<1> QED BY <1>1, WalkInvariant, PTL

\* Where no capability has two providers, the footprint of a job is its module and
\* all that this reaches, cycles or not, whatever state the modules are in
\* (Footprint).
THEOREM FootprintIsTheClosure == ASSUME Unrivalled PROVE Spec => []FootprintIsClosure
<1>1. WalkInv /\ CoverInv /\ TypeOK => FootprintIsClosure
  <2> SUFFICES ASSUME WalkInv, CoverInv, TypeOK, phase = "footprint", stack = <<>>
               PROVE  /\ target \in seen /\ Reaches(seen)
                      /\ \A S \in SUBSET Module : target \in S /\ Reaches(S) => seen \subseteq S
    BY DEF FootprintIsClosure
  <2>1. Walking /\ phase # "cascade" /\ DOMAIN stack = {}
    BY DEF Walking
  <2>2. Reaches(seen)
    BY <2>1 DEF CoverInv, Reaches
  <2> QED BY <2>1, <2>2 DEF WalkInv, StackInv
<1> QED BY <1>1, TypeCorrect, WalkInvariant, WalkCovers, PTL

\* What a job's module, or one it calls, may call is then routed into the
\* footprint: what the module Broker assumes of footprints and routes.
THEOREM HopsAreCovered == ASSUME Unrivalled PROVE Spec => []HopCovered
<1>1. FootprintIsClosure => HopCovered
  BY DEF FootprintIsClosure, HopCovered, Reaches, Resolve, FindProvider, HasManifest
<1> QED BY <1>1, FootprintIsTheClosure, PTL

\* In the cascade of a target a module that does not depend on itself comes after
\* every ready module it requires (RequiredInactiveProviders).
THEOREM ProvidersComeFirst == ASSUME Unrivalled PROVE Spec => []ProvidersBefore
<1>1. BeforeInv => ProvidersBefore
  BY DEF BeforeInv, ProvidersBefore, Providers
<1> QED BY <1>1, WalkCovers, PTL

\* What the module Lifecycle takes RequiredInactiveProviders to list: ready modules
\* other than the target, each once, for the target or for one that comes later; all
\* that the target requires; and before an entry all that it requires itself, unless
\* it depends on itself (Lifecycle!Cascades).
CascadeListed ==
    phase = "cascade" /\ stack = <<>> =>
        LET Inactive == {m \in Module : state[m] = "ready"} \ {target} IN
        /\ \A i \in DOMAIN out : out[i] \in Inactive
        /\ \A i, j \in DOMAIN out : out[i] = out[j] => i = j
        /\ \A j \in DOMAIN out :
               \/ out[j] \in Providers(target)
               \/ \E i \in DOMAIN out : j < i /\ out[j] \in Providers(out[i])
        /\ \A p \in Providers(target) \cap Inactive : \E j \in DOMAIN out : out[j] = p
        /\ \A i \in DOMAIN out : \A p \in Providers(out[i]) : state[p] = "ready" =>
               OnCycle(out[i]) \/ \E j \in DOMAIN out : j < i /\ out[j] = p

\* A cascade is what Lifecycle takes it to be (RequiredInactiveProviders).
THEOREM CascadeIsListed == ASSUME Unrivalled PROVE Spec => []CascadeListed
<1>1. WalkInv /\ CoverInv /\ BeforeInv /\ TypeOK => CascadeListed
  <2> SUFFICES ASSUME WalkInv, CoverInv, BeforeInv, TypeOK, phase = "cascade", stack = <<>>
               PROVE  CascadeListed
    BY DEF CascadeListed
  <2>1. Walking /\ DOMAIN stack = {} /\ Mods = {}
    BY DEF Walking, Mods
  <2>2. /\ seen = {target} \cup Listed /\ target \notin Listed
        /\ \A i, j \in DOMAIN out : i < j => out[i] # out[j]
        /\ state[target] \in {"ready", "failed"}
        /\ \A m \in seen \ {target} : state[m] = "ready"
    BY <2>1 DEF WalkInv, ListInv
  <2>3. Shape
    BY <2>1, Shaped
  <2>4. /\ Len(out) \in Nat /\ DOMAIN out = 1 .. Len(out)
        /\ \A i \in DOMAIN out : out[i] \in Module /\ out[i] \in Listed /\ i \in Nat
    BY <2>3 DEF Shape, Listed
  <2> DEFINE Inactive == {m \in Module : state[m] = "ready"} \ {target}
  <2>5. \A i \in DOMAIN out : out[i] \in Inactive
    BY <2>2, <2>4
  <2>6. \A i, j \in DOMAIN out : out[i] = out[j] => i = j
    <3>1. \A i, j \in DOMAIN out : i = j \/ i < j \/ j < i
      BY <2>4
    <3> QED BY <2>2, <3>1
  <2>7. \A j \in DOMAIN out :
            \/ out[j] \in Providers(target)
            \/ \E i \in DOMAIN out : j < i /\ out[j] \in Providers(out[i])
    BY <2>1 DEF WalkInv, ForInv
  <2>8. ASSUME NEW p \in Providers(target) \cap Inactive PROVE \E j \in DOMAIN out : out[j] = p
    <3>1. HasManifest(target) /\ target \in seen
      BY <2>2 DEF HasManifest
    <3>2. p \in seen
      BY <2>1, <2>8, <3>1 DEF CoverInv, Providers
    <3> QED BY <2>2, <2>8, <3>2 DEF Listed
  <2>9. ASSUME NEW i \in DOMAIN out, NEW p \in Providers(out[i]), state[p] = "ready", ~OnCycle(out[i])
        PROVE  \E j \in DOMAIN out : j < i /\ out[j] = p
    <3>1. p # target
      <4>1. \A S \in SUBSET Module : target \in S /\ Reaches(S) => out[i] \in S
        BY <2>1, <2>2, <2>4 DEF WalkInv, StackInv
      <4> QED BY <2>9, <4>1 DEF OnCycle, Providers
    <3>2. PICK j \in 1 .. i - 1 : out[j] = p
      BY <2>9, <3>1 DEF BeforeInv
    <3>3. j \in DOMAIN out /\ j < i
      BY <2>4
    <3> QED BY <3>2, <3>3
  <2> QED BY <2>5, <2>6, <2>7, <2>8, <2>9 DEF CascadeListed
<1> QED BY <1>1, TypeCorrect, WalkInvariant, WalkCovers, PTL
==============================================================================
