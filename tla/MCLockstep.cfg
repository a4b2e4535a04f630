SPECIFICATION Spec
CONSTANTS
  Half = 32
  Byte = 8
  Depth = 3
  Banks = 3
  Casts <- MCCasts
  Polls <- MCPolls
  Logical <- MCLogical
  Slack = 2
  Ascii = 7
  Space = 4
  NewLine = 1
  RawText = {1, 2}
  RawErrPy = {1, 2}
  RawErrC = {1}
  Encoded <- MCEncoded
  Digit <- MCDigit
  Radix = 8
  Dash = 6
  PlusSign = 4
  White = {1, 3}
  LineMax = 4
  LongMax = 255
  Now = 100
  Starts <- MCStarts
  Args <- MCArgs
  MaxSteps = 1
INVARIANTS SameMachine SameFlags SameFaults CheckFollows RingZero
CHECK_DEADLOCK FALSE
