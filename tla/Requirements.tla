---------------------------- MODULE Requirements ----------------------------
(***************************************************************************)
(* Discovery and what it derives from manifests (internal/module, as       *)
(* stores.Build runs it): the scan, the missing modules, the requirement   *)
(* check with its fixed point, the config check; Run's pre-pass, which     *)
(* repairs what it can; and, over the finished store, the two walks along  *)
(* requires.capabilities: the activation cascade of a target and the       *)
(* footprint of a job.                                                     *)
(*                                                                         *)
(* The store is a Go map: a loop over it visits the records in any order,  *)
(* and findProvider answers with any module that declares a capability.    *)
(* Each iteration is a step.  What the host says (PATH, files, sockets,    *)
(* config files) is an input of the step that asks.                        *)
(***************************************************************************)
EXTENDS Naturals, Sequences, FiniteSets

CONSTANTS
    Module, Cap,
    Provides,       \* m |-> capabilities m declares
    Manifests,      \* the functions m |-> capabilities m requires that are tried
    Activated,      \* modules with a flag on disk
    Hooked          \* modules with an on-requirement-missing hook

ASSUME RequirementsAssumption ==
    /\ Provides \in [Module -> SUBSET Cap]
    /\ Manifests \subseteq [Module -> SUBSET Cap]
    /\ Activated \subseteq Module /\ Hooked \subseteq Module

VARIABLES
    requires,       \* requires.capabilities of every manifest
    state,          \* state of every record; "absent": no record
    gated,          \* records Scan itself refused
    phase,          \* of Build, then the walk: see TypeOK
    todo, surface, changed,   \* of one pass: records to visit, its snapshot, its flag
    base,           \* records that entered the capability check
    target, stack, seen, out  \* of a walk

build == <<state, gated, phase, todo, surface, changed, base>>
walk  == <<target, stack, seen, out>>
vars  == <<requires, build, walk>>

------------------------------------------------------------------------------
\* Reading the store.

Inert(m) == state[m] \in {"unavailable", "missing"}
HasManifest(m) == state[m] \notin {"absent", "missing"}
ReadySurface == UNION {Provides[m] : m \in {p \in Module : HasManifest(p) /\ ~Inert(p)}}

PendingSurface == UNION {Provides[m] : m \in {p \in Module : HasManifest(p)}}

\* CheckAllRequirements against the surface of the pass, the host's answers aside.
CapsMet(m) == requires[m] \subseteq surface

\* findProvider: every answer it may give.
FindProvider(c) == {p \in Module : HasManifest(p) /\ c \in Provides[p]}

\* Resolve: every module it may route to.
Resolve(c) == {p \in Module : state[p] = "active" /\ c \in Provides[p]}

\* Records the requirement checks look at, and those the config check does.
Checked(m) == HasManifest(m) /\ state[m] \notin {"active", "unavailable"}

------------------------------------------------------------------------------
\* Scan: a module directory is indexed, ready or, behind the platform and
\* entrypoint gates, unavailable; a second one of the name makes it unavailable.
ScanDir(m) ==
    /\ phase = "scan"
    /\ IF state[m] = "absent"
       THEN \E verdict \in {"ready", "unavailable"} : state' = [state EXCEPT ![m] = verdict]
       ELSE state' = [state EXCEPT ![m] = "unavailable"]
    /\ gated' = IF state'[m] = "unavailable" THEN gated \cup {m} ELSE gated
    /\ UNCHANGED <<requires, phase, todo, surface, changed, base, walk>>

MarkMissing ==
    /\ phase = "scan"
    /\ state' = [m \in Module |->
                     IF state[m] = "absent" /\ m \in Activated THEN "missing" ELSE state[m]]
    /\ todo' = Module
    /\ phase' = "system"
    /\ UNCHANGED <<requires, gated, surface, changed, base, walk>>

\* EvaluateRequirements, phase 1: binaries, paths and sockets of one record.
EvaluateSystemReqs(m) ==
    /\ phase = "system" /\ m \in todo
    /\ todo' = todo \ {m}
    /\ \/ UNCHANGED state
       \/ Checked(m) /\ state' = [state EXCEPT ![m] = "unavailable"]
    /\ UNCHANGED <<requires, gated, phase, surface, changed, base, walk>>

\* mutant: the flag of one pass is carried into the next
BeginPass_sticky ==
    /\ \/ phase = "system" /\ todo = {} /\ base' = {m \in Module : Checked(m)}
       \/ phase = "caps" /\ todo = {} /\ changed /\ UNCHANGED base
    /\ phase' = "caps"
    /\ surface' = ReadySurface
    /\ todo' = Module
    /\ UNCHANGED <<requires, gated, state, changed, walk>>

\* Phase 2 begins, or begins another pass: a fresh surface for all records.
BeginPass ==
    /\ \/ phase = "system" /\ todo = {} /\ base' = {m \in Module : Checked(m)}
       \/ phase = "caps" /\ todo = {} /\ changed /\ UNCHANGED base
    /\ phase' = "caps"
    /\ surface' = ReadySurface
    /\ todo' = Module
    /\ changed' = FALSE
    /\ UNCHANGED <<requires, gated, state, walk>>

EvaluateCapReqs(m) ==
    /\ phase = "caps" /\ m \in todo
    /\ todo' = todo \ {m}
    /\ IF Checked(m) /\ ~CapsMet(m)
       THEN /\ state' = [state EXCEPT ![m] = "unavailable"]
            /\ changed' = TRUE
       ELSE UNCHANGED <<state, changed>>
    /\ UNCHANGED <<requires, gated, phase, surface, base, walk>>

\* mutant: one pass over the records is taken for the fixed point
EvaluateDone_once ==
    /\ phase = "caps" /\ todo = {}
    /\ phase' = "config"
    /\ todo' = Module
    /\ UNCHANGED <<requires, gated, state, surface, changed, base, walk>>

EvaluateDone ==
    /\ phase = "caps" /\ todo = {} /\ ~changed
    /\ phase' = "config"
    /\ todo' = Module
    /\ UNCHANGED <<requires, gated, state, surface, changed, base, walk>>

EvaluateConfig(m) ==
    /\ phase = "config" /\ m \in todo
    /\ todo' = todo \ {m}
    /\ \/ UNCHANGED state
       \/ Checked(m) /\ state' = [state EXCEPT ![m] = "unavailable"]
    /\ UNCHANGED <<requires, gated, phase, surface, changed, base, walk>>

BuildDone ==
    /\ phase = "config" /\ todo = {}
    /\ phase' = "prepass"
    /\ todo' = Module
    /\ surface' = PendingSurface
    /\ UNCHANGED <<requires, state, gated, changed, base, walk>>

\* Run, before it activates anything: the hook of an unavailable module that was
\* active before is run for each requirement that fails.  It may repair what the
\* host lacks, and a capability counts as there when anything declares it.
PrePass(m) ==
    /\ phase = "prepass" /\ m \in todo
    /\ todo' = todo \ {m}
    /\ \/ UNCHANGED state
       \/ /\ m \in Activated \cap Hooked
          /\ state[m] = "unavailable" /\ CapsMet(m)
          /\ state' = [state EXCEPT ![m] = "ready"]
    /\ UNCHANGED <<requires, gated, phase, surface, changed, base, walk>>

PrePassDone ==
    /\ phase = "prepass" /\ todo = {}
    /\ phase' = "idle"
    /\ UNCHANGED <<requires, state, gated, todo, surface, changed, base, walk>>

------------------------------------------------------------------------------
\* The lifecycle moves records: activation, its failure, deactivation, health.
Transition(m) ==
    /\ phase = "idle"
    /\ \/ state[m] = "ready"  /\ \E s \in {"active", "unavailable"} : state' = [state EXCEPT ![m] = s]
       \/ state[m] = "active" /\ \E s \in {"ready", "failed"} : state' = [state EXCEPT ![m] = s]
       \/ state[m] = "failed" /\ state' = [state EXCEPT ![m] = "ready"]
    /\ UNCHANGED <<requires, gated, phase, todo, surface, changed, base, walk>>

------------------------------------------------------------------------------
\* The walks.  A frame of the stack is a call: a module, and the capabilities
\* of its requires list still ahead.

Frame(m) == [mod |-> m, caps |-> IF HasManifest(m) THEN requires[m] ELSE {}]
Top == stack[Len(stack)]
Below == SubSeq(stack, 1, Len(stack) - 1)

\* Footprint, for a job of any module; RequiredInactiveProviders, for the target
\* of an activation that is neither inert nor active.
BeginWalk(kind, m) ==
    /\ phase = "idle" /\ state[m] # "absent"
    /\ kind = "cascade" => state[m] \in {"ready", "failed"}
    /\ phase' = kind
    /\ target' = m
    /\ stack' = <<Frame(m)>>
    /\ seen' = {m}
    /\ out' = <<>>
    /\ UNCHANGED <<requires, gated, state, todo, surface, changed, base>>

\* mutant: a footprint stops at providers that are not running
Enters_running(p) == p \notin seen /\ state[p] \in {"ready", "active"}

\* A provider the walk goes into: not met before; for the cascade, ready.
Enters(p) == p \notin seen /\ (phase = "cascade" => state[p] = "ready")

\* mutant: a provider is listed before those it requires
Descend_preorder(p) ==
    /\ Enters(p)
    /\ seen' = seen \cup {p}
    /\ out' = Append(out, p)

Descend(p) ==
    /\ Enters(p)
    /\ seen' = seen \cup {p}
    /\ UNCHANGED out

\* collectFootprint and collectInactiveProviders: the next capability of the
\* innermost call.
Collect ==
    /\ phase \in {"footprint", "cascade"}
    /\ stack # <<>>
    /\ \E c \in Top.caps :
           LET rest == Append(Below, [Top EXCEPT !.caps = @ \ {c}]) IN
           \/ \E p \in FindProvider(c) : Descend(p) /\ stack' = Append(rest, Frame(p))
           \/ /\ \E p \in FindProvider(c) : ~Enters(p)
              /\ stack' = rest
              /\ UNCHANGED <<seen, out>>
           \/ /\ FindProvider(c) = {}
              /\ stack' = rest
              /\ UNCHANGED <<seen, out>>
    /\ UNCHANGED <<requires, build, target>>

\* A call returns; the cascade then lists the provider it was about.
Return ==
    /\ phase \in {"footprint", "cascade"}
    /\ stack # <<>> /\ Top.caps = {}
    /\ stack' = Below
    /\ out' = IF Top.mod = target THEN out ELSE Append(out, Top.mod)
    /\ UNCHANGED <<requires, build, target, seen>>

EndWalk ==
    /\ phase \in {"footprint", "cascade"} /\ stack = <<>>
    /\ phase' = "idle"
    /\ target' = CHOOSE m \in Module : TRUE
    /\ seen' = {} /\ out' = <<>>
    /\ UNCHANGED <<requires, gated, state, todo, surface, changed, base, stack>>

------------------------------------------------------------------------------
Init ==
    /\ requires \in Manifests
    /\ state = [m \in Module |-> "absent"] /\ gated = {}
    /\ phase = "scan" /\ todo = {} /\ surface = {} /\ changed = FALSE /\ base = {}
    /\ target = CHOOSE m \in Module : TRUE
    /\ stack = <<>> /\ seen = {} /\ out = <<>>

\* The loops of Build and of a walk, which run to their end once begun.
Loop ==
    \/ MarkMissing \/ BeginPass \/ EvaluateDone \/ BuildDone \/ PrePassDone
    \/ Collect \/ Return \/ EndWalk
    \/ \E m \in Module :
           EvaluateSystemReqs(m) \/ EvaluateCapReqs(m) \/ EvaluateConfig(m) \/ PrePass(m)

Next ==
    \/ Loop
    \/ \E m \in Module : ScanDir(m) \/ Transition(m)
    \/ \E m \in Module : \E kind \in {"footprint", "cascade"} : BeginWalk(kind, m)

Spec == Init /\ [][Next]_vars /\ WF_vars(Loop)

------------------------------------------------------------------------------
\* Every variable has its type.
TypeOK ==
    /\ requires \in Manifests
    /\ state \in [Module -> {"absent", "missing", "ready", "active", "unavailable", "failed"}]
    /\ phase \in {"scan", "system", "caps", "config", "prepass", "idle", "footprint", "cascade"}
    /\ gated \subseteq Module /\ todo \subseteq Module /\ surface \subseteq Cap /\ changed \in BOOLEAN
    /\ base \subseteq Module /\ seen \subseteq Module
    /\ phase \in {"footprint", "cascade"} => target \in Module
    /\ out \in Seq(Module)
    /\ stack \in Seq([mod : Module, caps : SUBSET Cap])

\* A set of modules that can all be ready: each capability one of them requires
\* is declared by one of them.
SelfSufficient(S) == \A m \in S : requires[m] \subseteq UNION {Provides[p] : p \in S}

\* The capability check ends with the largest set of modules that provide for
\* each other, out of those that passed the checks before it: whatever the order
\* of the records, unavailability goes down the whole chain, and no module is
\* lost that need not be (EvaluateRequirements).
Cascaded ==
    /\ TypeOK
    /\ phase = "config" /\ todo = Module =>
           LET ready == {m \in Module : Checked(m)} IN
           /\ SelfSufficient(ready)
           /\ \A S \in SUBSET base : SelfSufficient(S) => S \subseteq ready

\* Who a module's declared calls may end up at.
Reaches(S) == \A m \in S : HasManifest(m) => \A c \in requires[m] : FindProvider(c) \subseteq S

\* The footprint of a job is its module and what that reaches through declared
\* requirements, no more and no less, cycles or not, whatever state the modules
\* are in (Footprint).
FootprintIsClosure ==
    phase = "footprint" /\ stack = <<>> =>
        /\ target \in seen /\ Reaches(seen)
        /\ \A S \in SUBSET Module : target \in S /\ Reaches(S) => seen \subseteq S

\* m depends, at one or more removes, on itself.
OnCycle(m) ==
    \E c \in requires[m] : \E p \in FindProvider(c) :
        \A S \in SUBSET Module : p \in S /\ Reaches(S) => m \in S

\* In the cascade of a target, a module that does not depend on itself comes
\* after every ready module it requires: "a provider precedes its dependents"
\* (RequiredInactiveProviders).
ProvidersBefore ==
    phase = "cascade" /\ stack = <<>> =>
        \A i \in DOMAIN out : ~OnCycle(out[i]) =>
            \A c \in requires[out[i]] : \A p \in FindProvider(c) :
                state[p] = "ready" /\ p # target => \E j \in 1 .. i - 1 : out[j] = p

\* Every check and every walk comes to its end, cycles in the graph or not.
WalksEnd == phase \notin {"scan", "idle"} ~> phase = "idle"

\* A call that a job's module, or a module it calls, is allowed to make is routed
\* into the job's footprint: "the requires-gate keeps that declared set faithful
\* to what the job may actually touch" (Footprint).  TLC refutes it where two
\* modules provide one capability (README, section 5).
HopCovered ==
    phase = "footprint" /\ stack = <<>> =>
        \A m \in seen : HasManifest(m) => \A c \in requires[m] : Resolve(c) \subseteq seen

\* When no module it depends on is inert or failed, the cascade of a target is
\* "the transitive list of provider short names that target depends on [...] and
\* that are currently StateReady but not yet StateActive"
\* (RequiredInactiveProviders).  TLC refutes it (README, section 5).
CascadeComplete ==
    phase = "cascade" /\ stack = <<>> =>
        LET needed == {p \in Module : \A S \in SUBSET Module :
                                         target \in S /\ Reaches(S) => p \in S} IN
        (\A p \in needed : state[p] \in {"ready", "active"})
        => \A p \in needed \ {target} :
               state[p] = "ready" => \E i \in DOMAIN out : out[i] = p

\* The pre-pass makes a module ready only where "requirements are the cause" (Run):
\* what Scan refused for its platform, its entrypoint or a conflict of names stays
\* unavailable.  TLC refutes it (README, section 5).
HealedForCause == \A m \in gated : state[m] \in {"unavailable", "missing"}
==============================================================================
