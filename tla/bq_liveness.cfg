SPECIFICATION FairSpec
CONSTANTS
  Appenders = {t1}
  Capacity = 1
  ClockCheck = 1
  HasObserver = FALSE
  Outcomes = {"ok"}
  MaxExtra = 0
  MaxEntries = 2
  MaxFlushes = 2
INVARIANTS
  L1
PROPERTIES
  FlushResolves
  ThreadExits
  AlwaysParksAgain
CHECK_DEADLOCK FALSE
