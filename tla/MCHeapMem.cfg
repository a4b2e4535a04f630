SPECIFICATION Spec
CONSTANTS
  ByteSize = 256
  HeapID = 32768
  SizeInBytes = 36
  Top = 32820
  Sizes = {0, 4, 9, 30}
  NewSizes = {5, 20}
  Bytes = {1}
  MaxCalls = 7
PROPERTIES ImplementsHeap KeepsBytes
CHECK_DEADLOCK FALSE
