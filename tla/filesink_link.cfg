CONSTANTS
  Sinks = {s1}
  Dirs = {cwd, logs}
  Cwd = cwd
  LogLink = {}
  FileLevels = {300}
  Levels = {200, 300}
  Unlinkable = {}
  MaxTime = 1
  MaxMessages = 1
  MaxEvents = 1
SPECIFICATION Spec
INVARIANTS
  LinkPointsToLatest
CHECK_DEADLOCK FALSE
