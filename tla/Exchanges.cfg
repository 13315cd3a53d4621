\* Three jobs, one of them async, in a store that keeps two exchanges.
SPECIFICATION Spec
CONSTANTS
  system = system
  nginx = nginx
  certbot = certbot
  list = list
  provision = provision
  renew = renew
  Job = {list, provision, renew}
  Async = {provision}
  Calling = {provision, renew}
  Module = {system, nginx, certbot}
  System = system
  Target <- Targets
  HopTarget <- Hops
  Cap = 2
  MaxExchanges = 6
INVARIANTS
  AnswersLand
  
  
  
PROPERTIES
  Bounded
CHECK_DEADLOCK FALSE
