CONSTANTS
  MaxDirs = 3
  MaxPlays = 0
  MaxFaults = 0
  MaxCrashes = 2
SPECIFICATION Spec
INVARIANTS
  RecoveryIsIdempotent
