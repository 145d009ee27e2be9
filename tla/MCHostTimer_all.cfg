SPECIFICATION FairTimerSpec
CONSTANTS
  t1 = t1
  t2 = t2
  i1 = i1
  i2 = i2
  Threads = {t1, t2}
  Dispatch = Dispatch
  Items = {i1, i2}
  NoItem = NoItem
  Free = Free
INVARIANTS NoneAfterDisarm ExpiryIsItsOwn
PROPERTIES DisarmReturns ArmedFires
CHECK_DEADLOCK FALSE
