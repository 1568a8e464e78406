CONSTANTS
  c1 = c1
  c2 = c2
  s1 = s1
  s2 = s2
  Clients = {c1, c2}
  Sinks = {s1}
  FatalThreads = {c1}
  MaxCalls = 2
  OwnerJoins = FALSE
  None = None
SPECIFICATION FairSpec
PROPERTIES
  ShutdownEnds
  FatalEndsProcess
  CallsReturn
  QueuesDrain
