-------------------------- MODULE MCPlanPromotions --------------------------
(* webapps requires nginx and os, nginx requires certbot.                    *)
EXTENDS PlanPromotions

CONSTANTS webapps, nginx, certbot, os

MCFootprint ==
    [m \in Module |-> CASE m = webapps -> {webapps, nginx, certbot, os}
                        [] m = nginx -> {nginx, certbot}
                        [] m \in {certbot, os} -> {m}]
=============================================================================
