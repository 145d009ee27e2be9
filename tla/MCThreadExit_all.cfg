SPECIFICATION FairSpec
CONSTANTS
  c1 = c1
  c2 = c2
  c3 = c3
  w1 = w1
  Callbacks <- MCCallbacks
  Owning <- MCOwning
  Waiters <- MCWaiters
CHECK_DEADLOCK FALSE
INVARIANTS
  DestroyedAfterClose
  SignalMeansJoined
  StrongCompletion
PROPERTIES
  EndedCompletes
  CallbacksRun
