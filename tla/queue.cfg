CONSTANTS
  p1 = p1
  p2 = p2
  k1 = k1
  k2 = k2
  Producers = {p1, p2}
  Consumers = {k1, k2}
  MaxPush = 2
  MaxTry = 1
  None = None
SPECIFICATION FairSpec
INVARIANTS
  NoLostWakeup
PROPERTIES
  FifoSpec
  EveryItemTaken
