CONSTANTS
  Threads = {t1, t2, t3}
  Capacity = 2
  MaxEntries = 4
  MaxFlushes = 1
SPECIFICATION FairSpec
INVARIANTS NothingStranded ExactlyOneFate
PROPERTIES FlushCoversContents ResolveReturns
CHECK_DEADLOCK FALSE
