SPECIFICATION CancelSpec
CONSTANTS
  j1 = j1
  j2 = j2
  j3 = j3
  j4 = j4
  Jobs = {j1, j2, j3}
  Workers = {w1, w2}
  queue = queue
  Callbacks = {queue}
  NULL = NULL
  max_workers = 3
  IdRange = 4
  AddedAt = {1}
  PausedAt = {}
  Key <- KeyValues
  m_jobsAtOnce = 1
  m_lifo = FALSE
  m_priority = 1
INVARIANT CancelledNotCalled
CHECK_DEADLOCK FALSE
