SPECIFICATION Spec
CONSTANTS
  Idents = {1, 2}
  Infos = {i1}
  NONE = NONE
  Jobs = {j1, j2, j3}
  Refs = {r1, r2, r3}
  Refusable = {}
  max_workers = 4
SYMMETRY Symmetry
INVARIANT PublishedMatches
CHECK_DEADLOCK FALSE
