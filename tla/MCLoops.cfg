SPECIFICATION LoopSpec
CONSTANTS
  Half = 4
  Forms = {"For", "ForIdown"}
INVARIANT DownRuns
PROPERTY LoopStops
CHECK_DEADLOCK FALSE
