SPECIFICATION Spec
CONSTANTS
  Appenders = {t1, t2}
  Capacity = 2
  ClockCheck = 1
  HasObserver = TRUE
  Outcomes = {"validation_lost"}
  MaxExtra = 2
  MaxEntries = 3
  MaxFlushes = 1
SYMMETRY Symmetry
INVARIANTS
  TypeOK
  ShutdownDrains
  FlushSafety
  NoLostWakeup
  Accounting
PROPERTIES
  ImplementsEntrySink
CHECK_DEADLOCK FALSE
