SPECIFICATION FairSpec
CONSTANTS
  libs = libs
  assets = assets
  sentinel = sentinel
  Order <- MCOrder
  CrashAt <- AllPoints
  FaultAt <- AllPoints
  MaxCrashes = 2
  MaxFaults = 1
INVARIANTS
  ReadyMeansComplete
  KeptUnlessCut
  AtomicSwap
PROPERTIES
  MarkerCommits
  EventuallyReady
  ImplementsSwap
