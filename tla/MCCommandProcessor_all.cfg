SPECIFICATION FairSpec
CONSTANTS
  b1 = b1
  b2 = b2
  ui = ui
  loader = loader
  Bases = {b1, b2}
  NoBase = NoBase
  Sizes = {2, 4}
  Hosts = {ui, loader}
  MaxGeneration = 2
  MaxCommands = 3
  MaxCalls = 2
INVARIANTS RingIsFaithful AcceptedIsRun
CHECK_DEADLOCK FALSE
PROPERTIES HostsReturn DoorbellsAnswered
