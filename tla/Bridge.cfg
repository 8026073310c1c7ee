SPECIFICATION FairBridgeSpec
CONSTANTS
  t1 = t1  t2 = t2  t3 = t3
  Nobody = Nobody
  Threads = {t1, t2, t3}
  Lockers = {t2, t3}
  Destroyers = {t1}
  OnceCallers = {t1, t2}
  StaticValues = {1}
  StoresInOrder = TRUE
  MaxDepth = 2
  MaxObjects = 2
  Waiters = {t1, t2}
  Posters = {t2, t3}
  Makers = {t1}
  Uses = {"mutex", "cond", "rwlock"}
  MaxItems = 2
  MaxMade = 2
INVARIANTS
  MutualExclusion
  NoUseAfterFree
  OnceOnce
  NoLostSignal
PROPERTIES
  OnceReturns
  CallsAreAtomic
