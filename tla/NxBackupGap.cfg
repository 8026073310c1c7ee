SPECIFICATION Spec
CONSTANTS
  libs = libs
  assets = assets
  sentinel = sentinel
  Order <- MCOrder2
  CrashAt = {"logBackup"}
  FaultAt = {}
  MaxCrashes = 1
  MaxFaults = 0
INVARIANTS
  OldPayloadKept
