CONSTANTS
  MaxDirs = 3
  MaxPlays = 1
  MaxFaults = 1
  MaxCrashes = 1
SPECIFICATION Spec
INVARIANTS
  NothingLost
  SuccessMeansDone
  FailureMeansUndone
  OneDisruptionRecovers
PROPERTY
  ReplacedAtomically
