SPECIFICATION Spec
CONSTANTS
  HeapID = 101
  SizeInBytes = 36
  Word = 154
  Sizes = {0, 4, 9, 15, 30}
INVARIANTS InsideHeap NoAdjacentFree OneResult
CHECK_DEADLOCK FALSE
