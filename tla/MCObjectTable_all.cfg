SPECIFICATION Spec
CONSTANTS
  t1 = t1
  t2 = t2
  a = a
  b = b
  n1 = n1
  ev = ev
  sem = sem
  Threads = {t1, t2}
  Objects = {a, b}
  Names = {n1}
  Kinds = {ev, sem}
  NoObject = NoObject
  NoName = NoName
  FirstCapacity = 2
  MaxCapacity = 4
  MaxOwned = 2
SYMMETRY Symmetry
INVARIANTS PointersCounted HandlesCounted RetainedIsOurs NamesLeadHome
