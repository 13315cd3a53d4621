------------------------------ MODULE Admission ------------------------------
(***************************************************************************)
(* What the broker's queue promises its callers, with the store, the       *)
(* goroutines and the condition variable abstracted away: a job waits,     *)
(* holds its whole footprint or nothing, and ends once.  Footprints that   *)
(* are held at the same time are disjoint, so holding one is holding every *)
(* module in it exclusively.                                               *)
(***************************************************************************)
CONSTANTS Caller,
          Resource,   \* what callers need
          Needs       \* [Caller -> SUBSET Resource]

VARIABLES waiting, holding, ended
vars == <<waiting, holding, ended>>

Init == waiting = {} /\ holding = {} /\ ended = {}

Enter(c) ==
    /\ c \notin waiting \cup holding \cup ended
    /\ waiting' = waiting \cup {c}
    /\ UNCHANGED <<holding, ended>>

Free(c, C) == \A d \in C \ {c} : Needs[c] \cap Needs[d] = {}

\* Any number of waiting callers may be admitted in one go.
Admit(P) ==
    /\ P \subseteq waiting
    /\ \A c \in P : Free(c, holding \cup P)
    /\ waiting' = waiting \ P
    /\ holding' = holding \cup P
    /\ UNCHANGED ended

\* A caller ends from the queue (it gave up) or gives its footprint back.
End(c) ==
    /\ c \in waiting \cup holding
    /\ waiting' = waiting \ {c}
    /\ holding' = holding \ {c}
    /\ ended' = ended \cup {c}

Next ==
    \/ \E c \in Caller : Enter(c) \/ End(c)
    \/ \E P \in SUBSET waiting : Admit(P)

Spec == Init /\ [][Next]_vars

\* No module is in the footprint of two admitted jobs (gate.go: two jobs touching
\* one module can never both be admitted).
Exclusive == \A c \in holding : Free(c, holding)
=============================================================================
