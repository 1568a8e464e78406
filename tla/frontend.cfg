CONSTANTS
  t1 = t1
  t2 = t2
  w1 = w1
  w2 = w2
  Threads = {t1, t2}
  Workers = {w1, w2}
  Owner <- MCOwner
  Static = {w1}
  Null = Null
  MaxMessages = 2
  MaxCalls = 4
SPECIFICATION FairSpec
INVARIANTS
  ActiveIsAlive
  FirstComesFirst
  KeptIsSaved
PROPERTIES
  NeverReplaced
  CallsReturn
CHECK_DEADLOCK FALSE
