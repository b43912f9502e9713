SPECIFICATION FairSpec
CONSTANTS
  Idents = {1, 2}
  Infos = {i1}
  NONE = NONE
  Jobs = {j1, j2}
  Refs = {r1, r2, r3}
  Refusable = {2}
  max_workers = 4
INVARIANTS
  TypeOK
  HandlesLive
PROPERTY ServicePublished
CHECK_DEADLOCK FALSE
