CONSTANTS
  t1 = t1  t2 = t2  t3 = t3
  NoThread = NoThread
  Threads <- MCThreads
  Workers <- MCWorkers
  MaxDepth = 2
  MaxCalls = 3
SPECIFICATION Spec
INVARIANTS SnapshotIsRight WaitersAreWoken
PROPERTY ImplementsLock
CHECK_DEADLOCK FALSE
