SPECIFICATION PatientSpec
CONSTANTS
  Idents = {1, 2, 3}
  Infos = {i1, i2}
  NONE = NONE
  Jobs = {j1, j2, j3}
  Refs = {r1, r2, r3}
  Refusable = {}
  max_workers = 4
SYMMETRY Symmetry
INVARIANTS
  PublishedMatches
  NoLeakedRegistration
  RemoveAnswersExistence
CHECK_DEADLOCK FALSE
