SPECIFICATION FairSpec
CONSTANTS
  k1 = k1
  k2 = k2
  Controllers <- MCControllers
  MaxCount = 2
  MaxSuspends = 4
CHECK_DEADLOCK FALSE
INVARIANTS
  NoStrandedWait
  QueuedSuspendStops
PROPERTIES
  ResumedRuns
