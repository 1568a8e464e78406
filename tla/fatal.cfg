CONSTANTS
  t1 = t1
  t2 = t2
  abrt = abrt
  segv = segv
  Bg = Bg
  Threads = {t1, t2}
  Owners = {t1}
  Targets = {t1, t2}
  Signals = {abrt, segv}
  Abort = abrt
  HookSignals = {segv}
  Overrides = {{segv}}
  ExitHandlers = {"own"}
  MaxSent = 1
  MaxOverrides = 1
  MaxCrashes = 2
SPECIFICATION WorkerFairSpec
INVARIANTS
  WayBack
  OneSignalPasses
  HookNotReentered
  RecursionNoted
  EndsByItsSignal
PROPERTIES
  QueuedFatalEnds
CHECK_DEADLOCK FALSE
