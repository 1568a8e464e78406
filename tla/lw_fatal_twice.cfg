CONSTANTS
  c1 = c1
  c2 = c2
  s1 = s1
  s2 = s2
  Clients = {c1, c2}
  Sinks = {s1}
  FatalThreads = {c1, c2}
  MaxCalls = 2
  OwnerJoins = TRUE
  None = None
SPECIFICATION Spec
INVARIANT FatalWaitsForFlush
