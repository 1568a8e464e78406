CONSTANTS
  Levels = {200, 300, 500, 700, 1000}
  Defaults = {300, 500, 1000}
  Info = 300
  MaxChanges = 3
SPECIFICATION Spec
INVARIANTS
  EveryLevelAsAsked
