SPECIFICATION LoopSpec
CONSTANTS
  Half = 4
  Forms = {"For", "ForIup", "ForIdown"}
INVARIANTS UpRuns DownRunsUnsigned EndsAtStop
CHECK_DEADLOCK FALSE
