SPECIFICATION FairSpec
CONSTANTS
  Jobs = {j1, j2}
  Workers = {w1, w2}
  Callbacks = {c1}
  NULL = NULL
  max_workers = 3
  IdRange = 3
  AddedAt = {0, 2}
  PausedAt = {}
PROPERTIES
  CancelJobsReturns
  JobServed
CHECK_DEADLOCK FALSE
