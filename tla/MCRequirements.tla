---- MODULE MCRequirements ----
EXTENDS Requirements, TLC

CONSTANTS a, b, c

\* Each module declares a capability, named like itself.
MCProvides == [m \in Module |-> {m}]

\* Every graph over the modules; a module does not require itself.
MCManifests == {f \in [Module -> SUBSET Module] : \A m \in Module : m \notin f[m]}
====
