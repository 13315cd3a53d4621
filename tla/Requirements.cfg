\* Every dependency graph over three modules, one of which has been activated before.
SPECIFICATION Spec
CONSTANTS
  a = a
  b = b
  c = c
  Module = {a, b, c}
  Cap = {a, b, c}
  Provides <- MCProvides
  Manifests <- MCManifests
  Activated = {a}
  Hooked = {a}
INVARIANTS
  Cascaded
  FootprintIsClosure
  ProvidersBefore
PROPERTY
  WalksEnd
CHECK_DEADLOCK FALSE
