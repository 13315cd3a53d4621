\* A module process may die, modules may stop waiting for a reply; time passes.
SPECIFICATION TimedSpec
CONSTANTS
    nginx = nginx
    certbot = certbot
    n1 = n1
    n2 = n2
    c1 = c1
    c2 = c2
    s1 = s1
    Module = {nginx, certbot}
    Job = {n1, c1}
    Stray = {}
    Async = {n1}
    SyncHop = {n1}
    AsyncHop = {}
    MaxCrash = 1
    ReplyTimeout = TRUE
    Target <- MCTarget
    Footprint <- MCFootprint
    HopTarget <- MCHopTarget
INVARIANTS
  Serialized
  NoStrandedJob
PROPERTIES
  EveryCallAnswered
