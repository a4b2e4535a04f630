SPECIFICATION Spec
CONSTANTS
  EntryCount = 3
  FirstBlock = 4
  BlockCount = 5
  BlockSize = 2
  a = a
  b = b
  one = one
  two = two
  None = None
  NoImage = NoImage
  Torn = Torn
  Names <- MCNames
  Fold <- MCFold
  Payloads = {one, two}
  Length <- MCLength
  Procs = {p1, p2}
  Backups = {TRUE, FALSE}
INVARIANT AlwaysClean
PROPERTIES Atomic BackupIsPrevious
SYMMETRY Symmetry
