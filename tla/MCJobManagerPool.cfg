SPECIFICATION Spec
CONSTANTS
  Jobs = {j1, j2, j3}
  Workers = {w1, w2, w3, w4}
  Callbacks = {c1}
  NULL = NULL
  max_workers = 3
  IdRange = 3
  AddedAt = {0, 1}
  PausedAt = {0}
SYMMETRY Symmetry
INVARIANTS
  TypeOK
  QueuesDisjoint
  OneWorkerPerJob
  NoDanglingNoLeak
  PriorityReserve
  PoolBounded
  QuiescentAfterCancelJobs
PROPERTY ImplementsService
