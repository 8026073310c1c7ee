SPECIFICATION WeakSpec
CONSTANTS
  t1 = t1
  t2 = t2
  Nobody = Nobody
  Threads = {t1, t2}
  Lockers = {t1, t2}
  Destroyers = {}
  OnceCallers = {}
  StaticValues = {0}
  StoresInOrder = FALSE
  MaxDepth = 1
  MaxObjects = 1
INVARIANTS
  MutualExclusion
