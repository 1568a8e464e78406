CONSTANTS
  c1 = c1
  c2 = c2
  s1 = s1
  s2 = s2
  Clients = {c1, c2}
  Sinks = {s1, s2}
  FatalThreads = {c1, s1}
  MaxCalls = 2
  OwnerJoins = FALSE
  None = None
SPECIFICATION Spec
INVARIANTS
  DeliveryComplete
  DeliveryOrdered
  QuitIsLast
  OneDestroyer
  ShutdownFlushes
  FatalFlushes
PROPERTIES
  BroadcastSpec
\* A fatal event in a sink's callback hangs the process.
CHECK_DEADLOCK FALSE
