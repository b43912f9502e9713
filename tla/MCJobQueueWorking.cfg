SPECIFICATION FairWorkingSpec
CONSTANTS
  j1 = j1
  j2 = j2
  j3 = j3
  j4 = j4
  Jobs = {j1, j2, j3, j4}
  Workers = {w1, w2, w3}
  queue = queue
  Callbacks = {queue}
  NULL = NULL
  max_workers = 3
  IdRange = 4
  AddedAt = {1}
  PausedAt = {}
  Key <- FourKeyValues
  m_jobsAtOnce = 1
  m_lifo = FALSE
  m_priority = 1
INVARIANTS
  QueueTypeOK
  UniqueJobs
PROPERTIES
  QueuedJobServed
  ImplementsSerialQueue
CHECK_DEADLOCK FALSE
