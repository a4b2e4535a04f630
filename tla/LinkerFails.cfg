SPECIFICATION MCSpec
CONSTANTS
  Procs = {p1}
  NoFunction = NoFunction
  NoLibrary = NoLibrary
  Libraries <- MCLibraries
  Keeps = {FALSE}
  Requests <- MCRequests
  MaxProgramLines = 3
  Sorted <- MCSorted
  Twice = TRUE
INVARIANTS LoadsEveryLine UsesLinked DependenciesLinked
CHECK_DEADLOCK FALSE
