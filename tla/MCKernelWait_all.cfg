SPECIFICATION FairSpec
CONSTANTS
  a = a
  b = b
  isr = isr
  ev = ev
  sem = sem
  mut = mut
  Threads = {a, b, isr}
  Isr = isr
  Nobody = Nobody
  ManualReset = {}
  AutoReset = {ev}
  Semaphores = {sem}
  Mutants = {mut}
  MaximumCount = 1
  MaxCallbacks <- SomeCallbacks
  MaxDepth = 1
  Requests <- SomeRequests
INVARIANTS NoLostWakeup RenderWakeupKept
PROPERTIES Implements LoneWaitsEnd
CHECK_DEADLOCK FALSE
