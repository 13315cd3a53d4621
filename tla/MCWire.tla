------------------------------- MODULE MCWire -------------------------------
(* Wire for TLC: h and i are core's calls (a health check, an invoke), u and v the
   module's (a job update, a hop made by i's handler). *)
EXTENDS Wire

CONSTANTS h, i, u, v
MCParent == [c \in Call |-> IF c = v THEN i ELSE None]
NoParent == [c \in Call |-> None]
=============================================================================
