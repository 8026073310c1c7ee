SPECIFICATION Spec
CONSTANTS
  Users = {t1, t2}
  Main = main
  Rungs = 2
  MaxSurfaces = 2
  NULL = NULL
  main = main  t1 = t1  t2 = t2
SYMMETRY MCSymmetry
INVARIANTS
  NothingLeaks
  HolderKnows
  PresentsCleanly
CHECK_DEADLOCK FALSE
