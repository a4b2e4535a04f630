SPECIFICATION MacroSpec
CONSTANTS
  Half = 32
  Byte = 8
  Depth = 2
  Banks = 1
  Casts <- Nothing
  Polls <- Nothing
  Logical <- MCLogical
  Slack = 2
  Ascii = 8
  Space = 4
  NewLine = 1
  RawText = {}
  RawErrPy = {}
  RawErrC = {}
  Encoded <- MCEncoded
  Digit <- Nothing
  Radix = 10
  Dash = 6
  PlusSign = 5
  White = {1}
  LineMax = 2
  LongMax = 0
  Now = 100
  Backend = "python"
  Starts <- MCStarts
  MaxMacros = 2
INVARIANTS FlagsAsNamed RotationsPure
CHECK_DEADLOCK FALSE
