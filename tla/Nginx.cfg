\* Two domains, one of them configured by the operator.
SPECIFICATION NginxSpec
CONSTANTS
  a = a
  b = b
  Default = default
  NoDomain = none
  Domain = {a, b}
  Files <- MCFiles
  Id = {"site", "any", "plain", "secure"}
  Disks <- PlainDisks
  MaxJobs = 3
INVARIANTS
  StillLive
  OkIsServed
  SiteDark
  
CHECK_DEADLOCK FALSE
