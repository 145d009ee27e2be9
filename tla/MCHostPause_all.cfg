CONSTANTS
  kHostPauseToken = 7
  Missions <- MCMissions
  MaxGen = 3
SPECIFICATION FairSpec
INVARIANTS RetailIntentKept NoOrphanToken WatchdogMissesNoPause
PROPERTIES RequestsTakeEffect SuppressionEnds
