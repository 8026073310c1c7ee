SPECIFICATION FairSpec
CONSTANTS
  CrashAt <- AllPoints
  FaultAt <- AllPoints
  MaxCrashes = 2
  MaxFaults = 1
INVARIANTS
  PreparedUnlessCut
  SentinelVouches
  RejectedNotStarted
PROPERTIES
  Prepares
