------------------------------ MODULE MCBroker ------------------------------
(* Small instances of Broker.  nginx requires a capability of certbot, so a *)
(* job rooted at nginx reserves both.                                       *)
EXTENDS Broker

CONSTANTS nginx, certbot, n1, n2, c1, c2, s1

MCFootprint == [m \in Module |-> IF m = nginx THEN {nginx, certbot} ELSE {m}]
MCTarget == [c \in Call |-> IF c \in {n1, n2} THEN nginx ELSE certbot]
MCHopTarget == [c \in Call |-> certbot]
=============================================================================
