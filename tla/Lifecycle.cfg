\* Two modules, one of which requires the other; operators wait for health escalations.
SPECIFICATION Spec
CONSTANTS
  nginx = nginx
  certbot = certbot
  Op = Op
  Face = Face
  Module = {nginx, certbot}
  Order <- MCOrder
  Requires <- MCRequires
  HealthMaxRestarts = 1
  Patient = TRUE
  MaxInstance = 2
  MaxBoots = 1
  Renewed = {nginx}
INVARIANTS
  Owned
  ActiveIsServed
  RestIsDown
PROPERTIES
  ProvidersFirst
CHECK_DEADLOCK FALSE
