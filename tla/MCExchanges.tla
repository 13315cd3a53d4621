---------------------------- MODULE MCExchanges ----------------------------
EXTENDS Exchanges

CONSTANTS system, nginx, certbot, list, provision, renew

\* The face lists the jobs, provisions a site and renews a certificate.
Targets == [t \in Job |-> CASE t = list -> system [] t = provision -> nginx [] t = renew -> certbot]
Hops    == [t \in Job |-> IF t = renew THEN nginx ELSE certbot]
=============================================================================
