SPECIFICATION MCSpec
CONSTANTS
  Procs = {p1, p2}
  NoFunction = NoFunction
  NoLibrary = NoLibrary
  Libraries <- MCLibraries
  Keeps = {TRUE, FALSE}
  Requests <- MCRequests
  MaxProgramLines = 2
  Sorted <- MCSorted
  Twice = FALSE
INVARIANTS LinksNeeded LoadsTheLines FindsItsCopy NothingLeft SafeOrder
PROPERTY LoopEnds
CHECK_DEADLOCK FALSE
SYMMETRY Symmetry
