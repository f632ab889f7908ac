SPECIFICATION Spec
CONSTANTS
  r1 = r1
  r2 = r2
  r3 = r3
  i1 = i1
  c1 = c1
  c2 = c2
  a1 = a1
  a2 = a2
  t1 = t1
  Runs = {r1, r2}
  Issues = {i1}
  Clients = {c1}
  Agents = {a1, a2}
  Templates = {t1}
  IssueOf <- SameIssue
  ClientOf <- SameClient
  AgentOf <- SameAgent
  TemplateOf <- SharedTemplate
  HasOutcome = {}
  HasStore = {r1}
  MaxThreads = 2
  DreamingEnabled = TRUE
  Faults = TRUE
  None = None
INVARIANTS IInv ResultsAllOrNothing DreamOnlyAfterSuccess
PROPERTIES ChildRowsStable RefinesLedger
CHECK_DEADLOCK FALSE
