\* Every queue of up to four jobs against every set of running jobs.
SPECIFICATION LoopSpec
CONSTANTS
    webapps = webapps
    nginx = nginx
    certbot = certbot
    os = os
    Module = {webapps, nginx, certbot, os}
    Footprint <- MCFootprint
    MaxQueue = 4
INVARIANTS
  PlanIsRight
