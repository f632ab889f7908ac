SPECIFICATION Spec
CONSTANTS
  k1 = k1
  k2 = k2
  a1 = a1
  a2 = a2
  w1 = w1
  w2 = w2
  w3 = w3
  w4 = w4
  i0 = i0
  j0 = j0
  Clients = {k1, k2}
  Agents = {a1, a2}
  Issues = {i0, j0}
  Analyses = {j0}
  Filters <- MCNarrow
  Loops = {w1, w2}
  Sessions = {w3}
  Proposals = {w4}
  AgentOf <- MCAgentOf
  TaskOf <- MCTaskOf
  Placements <- MCPlacements
  Price <- MCPrice
  Plan <- MCPlan
  Unit = 10
  Gap = 2
  PerSecond = 2
  PeriodEnd = 3
  PageSize = 1
  TopClients = 2
  MaxTime = 5
  MaxCalls = 3
  MaxRuns = 2
  Faults = TRUE
  None = None
CONSTRAINT
  MCBound
INVARIANTS
  IInv
PROPERTIES
  SettledPeriodFixed
  AssignedOnce
  AnswersTrue
CHECK_DEADLOCK FALSE
