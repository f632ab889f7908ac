SPECIFICATION Spec
CONSTANTS
  d1 = d1
  f1 = f1
  k1 = k1
  open = open
  Devs = {d1}
  Fixers = {}
  Desks = {k1}
  IssueOf <- MCIssueOf
  OpenPulls = {}
  Main = main
  Human = human
  Manifests = {open}
  Grants <- MCGrants
  MaxTurns = 2
  MaxBlocks = 1
  MaxPushes = 0
  Faults = TRUE
  None = None
PROPERTIES
  EveryRunEnds
CHECK_DEADLOCK FALSE
