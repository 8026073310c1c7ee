SPECIFICATION Spec
CONSTANTS
  CrashAt = {"validate"}
  FaultAt = {}
  MaxCrashes = 1
  MaxFaults = 0
INVARIANTS
  GameRunsPrepared
