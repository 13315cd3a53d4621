------------------------------ MODULE MCNginx ------------------------------
EXTENDS Nginx

CONSTANTS a, b

MCFiles == <<a, b, Www(a), Default>>

Found(id, names, ports, redirect, cert) ==
    [Block(id, names, ports) EXCEPT !.redirect = redirect, !.cert = cert]

Nowhere == [f \in File |-> <<>>]

\* A site in a file of its own, or in the default site beside a catch-all.
PlainDisks ==
    { [available |-> [Nowhere EXCEPT ![a] = << Found("site", <<a, Www(a)>>, {80, 443}, FALSE, a) >>,
                                     ![Default] = << Found("any", <<>>, {80}, FALSE, NoDomain) >>],
       enabled |-> {a, Default}, certs |-> {a}],
      [available |-> [Nowhere EXCEPT ![Default] =
                         << Found("site", <<a, Www(a)>>, {80}, FALSE, NoDomain),
                            Found("any", <<>>, {80}, FALSE, NoDomain) >>],
       enabled |-> {Default}, certs |-> {}] }

\* What certbot makes of a site: a block that redirects and one that serves.
PairDisks ==
    { [available |-> [Nowhere EXCEPT ![Default] =
                         << Found("plain", <<a>>, {80}, TRUE, NoDomain),
                            Found("secure", <<a>>, {443}, FALSE, a) >>],
       enabled |-> {Default}, certs |-> {a}] }

\* What the proofs ask of a disk holds of these.
ASSUME PlainDisksAreOrdinary ==
    \A d \in PlainDisks : /\ OneHome(d.available, d.enabled)
                          /\ NamesAgree(d.available, d.enabled)
                          /\ OnEighty(d.available)
==============================================================================
