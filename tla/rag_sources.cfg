SPECIFICATION FairSpec
CONSTANTS
  n1 = n1
  n2 = n2
  f1 = f1
  f2 = f2
  d1 = d1
  d2 = d2
  stack = stack
  h1 = h1
  h2 = h2
  Ingests = {n1, n2}
  Feedbacks = {f1}
  Deletes = {d1}
  Collections = {stack}
  CollOf <- OneCollection
  Hashes = {h1, h2}
  Faults = TRUE
  Pending = Pending
  None = None
INVARIANTS IInv RetrievableRemovable OneWriterPerSource
PROPERTIES EveryCallEnds
CHECK_DEADLOCK FALSE
