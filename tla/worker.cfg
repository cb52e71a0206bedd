CONSTANTS
  Clients = {t1, t2}
  e1 = e1
  e2 = e2
  e3 = e3
  Watched = {e1, e2, e3}
  Load = load
  KeyOf <- TwoKeys
  Gone = gone
  MaxQueued = 2
SPECIFICATION FairSpec
INVARIANTS EachInOnePlace FlushCovers
PROPERTIES SentIsEmitted NobodyHangs
CHECK_DEADLOCK FALSE
