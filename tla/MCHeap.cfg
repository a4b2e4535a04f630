SPECIFICATION Spec
CONSTANTS
  HeapID = 101
  SizeInBytes = 36
  Word = 154
  Sizes = {0, 4, 9, 15, 30}
INVARIANTS NoOverlap EmptyIsWhole
PROPERTY ImplementsAllocator
CHECK_DEADLOCK FALSE
