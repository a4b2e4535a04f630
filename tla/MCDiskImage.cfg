SPECIFICATION Spec
CONSTANTS
  EntryCount = 7
  FirstBlock = 4
  BlockCount = 9
  BlockSize = 2
  a = a
  A = A
  b = b
  empty = empty
  middle = middle
  large = large
  None = None
  Names <- MCNames
  Fold <- MCFold
  Payloads <- MCPayloads
  Length <- MCLength
INVARIANTS CheckClean UniqueNames ReadsBack DeletedIsWhole
