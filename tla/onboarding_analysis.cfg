SPECIFICATION OAFairSpec
CONSTANTS
  r1 = r1
  r2 = r2
  g1 = g1
  c1 = c1
  c2 = c2
  w1 = w1
  w2 = w2
  Starts = {r1, g1}
  Cancels = {c1}
  Greenfield = {g1}
  Workspaces = {w1, w2}
  MayFail = TRUE
  Null = Null
INVARIANTS OAInv FailureTold CancelNotLost
PROPERTIES EverythingEnds
CHECK_DEADLOCK FALSE
