--------------------------- MODULE PlanPromotions ---------------------------
(***************************************************************************)
(* The loop of planPromotions (internal/broker/queue.go): one pass over    *)
(* the queue in opening order, folding what it promotes into the busy set. *)
(* A queue entry is a position; Root is the module its job is rooted at.   *)
(***************************************************************************)
EXTENDS Naturals, Gate

CONSTANT MaxQueue    \* bound: entries of the queue

ASSUME LoopAssumption == MaxQueue \in Nat

VARIABLES
    length,     \* how many entries the queue has
    root,       \* the module each entry is rooted at
    running,    \* the modules the running jobs are rooted at
    i,          \* the next entry to look at
    busy,       \* the modules taken so far
    promote     \* the entries promoted so far
loopVars == <<length, root, running, i, busy, promote>>

Need(k) == Footprint[root[k]]

LoopInit ==
    /\ length \in 0 .. MaxQueue
    /\ root \in [1 .. length -> Module]
    /\ running \in SUBSET Module
    /\ i = 1
    /\ busy = UNION {Footprint[m] : m \in running}
    /\ promote = {}

Take ==
    /\ i <= length /\ Admissible(Need(i), busy)
    /\ promote' = promote \cup {i}
    /\ busy' = busy \cup Need(i)
    /\ i' = i + 1
    /\ UNCHANGED <<length, root, running>>

\* mutant: a blocked entry reserves its footprint all the same.
PassReserving ==
    /\ i <= length /\ ~Admissible(Need(i), busy)
    /\ i' = i + 1
    /\ busy' = busy \cup Need(i)
    /\ UNCHANGED <<length, root, running, promote>>

Pass ==
    /\ i <= length /\ ~Admissible(Need(i), busy)
    /\ i' = i + 1
    /\ UNCHANGED <<length, root, running, busy, promote>>

Return == i > length /\ UNCHANGED loopVars

LoopNext == Take \/ Pass \/ Return
LoopSpec == LoopInit /\ [][LoopNext]_loopVars

-----------------------------------------------------------------------------
LoopTypeOK ==
    /\ length \in 0 .. MaxQueue
    /\ root \in [1 .. length -> Module]
    /\ running \subseteq Module
    /\ i \in 1 .. length + 1
    /\ busy \subseteq Module
    /\ promote \subseteq 1 .. i - 1

Held == UNION {Footprint[m] : m \in running}
Taken(P) == UNION {Need(k) : k \in P}
Earlier(P, k) == {p \in P : p < k}

\* The pass decides every entry it has seen by the entries promoted before it:
\* taken if and only if its footprint is free of theirs and of the running ones.
\* When the loop is done this is the plan that Broker's IsPlan describes.
PlanSoFar ==
    promote = {k \in 1 .. i - 1 : Admissible(Need(k), Held \cup Taken(Earlier(promote, k)))}

\* Work conserving: what is left in the queue is left for a reason, a running
\* job or a promoted one that needs a module it needs.
NobodyLeftBehind ==
    i > length => \A k \in (1 .. length) \ promote :
        Need(k) \cap (Held \cup Taken(promote)) # {}

\* What is promoted together can run together.
PromotedDisjoint ==
    \A k, l \in promote : k # l => Need(k) \cap Need(l) = {}

\* The loop computes the plan, its jobs can run together, and nobody is left without
\* a reason.
PlanIsRight == PlanSoFar /\ PromotedDisjoint /\ NobodyLeftBehind
=============================================================================
