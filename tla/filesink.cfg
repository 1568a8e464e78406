CONSTANTS
  Sinks = {s1, s2}
  Dirs = {cwd, logs}
  Cwd = cwd
  LogLink = {}
  FileLevels = {300}
  Levels = {200, 300}
  Unlinkable = {cwd, logs}
  MaxTime = 1
  MaxMessages = 2
  MaxEvents = 2
SYMMETRY Alike
SPECIFICATION Spec
INVARIANTS
  TypeOK
  MessagesOnDisk
  OldFileNamesNew
PROPERTIES
  StreamKept
  OldMessagesStay
CHECK_DEADLOCK FALSE
