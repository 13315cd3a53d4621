-------------------------------- MODULE Gate --------------------------------
(***************************************************************************)
(* The admission policy (internal/gate): what may run beside what, over    *)
(* the modules and the footprints that manifests give them.  It is pure    *)
(* and holds no state; the queue of the broker asks it.                    *)
(***************************************************************************)
CONSTANTS
    Module,         \* module short names
    Footprint       \* the manifest dependency closure of each module

ASSUME FootprintAssumption == Footprint \in [Module -> SUBSET Module]

\* A job may start when none of its modules is in busy, the union of the
\* footprints of those that run.
Admissible(footprint, busy) == footprint \cap busy = {}
=============================================================================
