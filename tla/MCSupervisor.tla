---------------------------- MODULE MCSupervisor ----------------------------
(* Supervisor for TLC: the callers of Stop. *)
EXTENDS Supervisor

CONSTANTS s1, s2
=============================================================================
