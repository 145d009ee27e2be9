CONSTANTS
  o1 = o1
  o2 = o2
  Own <- MCOwn
  Safe = Safe
  Torn = Torn
  None = None
  MaxFaults = 3
SPECIFICATION RecoverySpec
INVARIANTS
  SafeModeLastsOneRun
  CrashReported
PROPERTIES
  OnlyOwnSavesChangeSettings
