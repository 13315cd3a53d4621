\* A jail of the distribution and one of the catalog; no file sorts after the drop-ins.
SPECIFICATION Spec
CONSTANTS
  sshd = sshd
  web = web
  office = office
  Jail = {sshd, web}
  Catalog = {web}
  Addr = {office}
  Value = {"r1", "r2"}
  DefaultIgnore = {}
  Unset = Unset
  Below <- Plain
  After <- Nothing
  MaxCalls = 3
  MaxEdits = 2
  MaxFaults = 2
INVARIANTS
  DropinHasFilter
  

  
CHECK_DEADLOCK FALSE
