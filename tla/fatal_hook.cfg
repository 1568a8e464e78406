CONSTANTS
  t1 = t1
  t2 = t2
  abrt = abrt
  segv = segv
  Bg = Bg
  Threads = {t1, t2}
  Owners = {}
  Targets = {t1, t2}
  Signals = {abrt, segv}
  Abort = abrt
  HookSignals = {segv}
  Overrides = {{segv}}
  ExitHandlers = {}
  MaxSent = 0
  MaxOverrides = 0
  MaxCrashes = 4
SPECIFICATION FairSpec
PROPERTIES
  EveryFatalEnds
CHECK_DEADLOCK FALSE
