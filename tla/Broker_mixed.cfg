\* Sync and async jobs on overlapping footprints, with a sync hop; nothing dies.
SPECIFICATION LiveSpec
CONSTANTS
    nginx = nginx
    certbot = certbot
    n1 = n1
    n2 = n2
    c1 = c1
    c2 = c2
    s1 = s1
    Module = {nginx, certbot}
    Job = {n1, c1, c2}
    Stray = {}
    Async = {n1}
    SyncHop = {n1}
    AsyncHop = {}
    MaxCrash = 0
    ReplyTimeout = FALSE
    Target <- MCTarget
    Footprint <- MCFootprint
    HopTarget <- MCHopTarget
INVARIANTS
  HopInsideFootprint
  NotOvertaken
PROPERTIES
  Implements
  EventuallyEnds
  EndsAsTold
