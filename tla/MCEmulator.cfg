SPECIFICATION Spec
CONSTANTS
  f1 = f1
  f2 = f2
  none = none
  NoLine = none
  NotSaved = NotSaved
  WatchFor = {1}
  NoWatch = NoWatch
  Programs <- MCPrograms
  Line <- MCLine
  Goals = {0, 2}
  Stops = {2}
  Steps = {0, 2}
  MaxSP = 1
  MaxTemps = 1
  MaxRan = 1
INVARIANTS
  BreaksHold
  RawUndone
PROPERTIES
  TempsSpent
  NextReturns
CHECK_DEADLOCK FALSE
