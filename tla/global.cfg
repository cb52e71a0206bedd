CONSTANTS
  Threads = {t1, t2}
  MaxAttach = 2
  MaxEntries = 1
  MaxFns = 2
SPECIFICATION FairSpec
INVARIANTS HandleOwnsSlot ShutdownFnsRun AcceptedIsWritten
PROPERTY DropReturns
CHECK_DEADLOCK FALSE
