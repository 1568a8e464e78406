CONSTANTS
  Threads = {t1, t2}
  N = 3
  MaxDrift = 5
  DcheckOn = TRUE
  Formats <- MCFormats
  Instants <- MCInstants
  Local <- MCLocal
  TimeBuffer = 25
  Levels = {100, 300, 500, 800, 1000, 1001, 2000}
  Signals = {"SIGABRT", "SIGSEGV", "SIGUSR1"}
  Paths <- MCPaths
  Frames <- MCFrames
  Lines <- MCLines
  Mangled = "name"
  Demangled = "realname"
  Texts <- MCTexts
  Sizes = {1, 2, 3, 4, 6}
SPECIFICATION MCSpec
INVARIANTS
  TimestampRight
  ReportComplete
  FramesKept
  CutIsMarked
PROPERTIES
  CountsExact
  RacesSettle
  FirstNFallsSilent
