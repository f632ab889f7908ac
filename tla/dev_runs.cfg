SPECIFICATION Spec
CONSTANTS
  d1 = d1
  f1 = f1
  k1 = k1
  open = open
  Devs = {d1}
  Fixers = {f1}
  Desks = {}
  IssueOf <- MCIssueOf
  OpenPulls = {}
  Main = main
  Human = human
  Manifests = {open}
  Grants <- MCGrants
  MaxTurns = 2
  MaxBlocks = 2
  MaxPushes = 1
  Faults = TRUE
  None = None
INVARIANTS
  IInv
  EffectsAudited
PROPERTIES
  RemoteKept
  CommitsKept
  AcceptedDelivered
  EndedRunsBlockNobody
CHECK_DEADLOCK FALSE
