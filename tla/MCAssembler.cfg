SPECIFICATION Spec24
CONSTANTS
  Names <- MCNames
  Macros <- StructureMacros
  Closes <- MCCloses
  Libs = {"lib"}
  Incs = {"inc"}
  NextLines <- MCNextLines
  NextLines24 <- MCNextLines24
  AddressSize = 64
  MaxBankLines = 5
  WhileBreaks = {"WHILEBREAK"}
  Orgs = {4}
  Values = {1}
  MaxLines = 6
  MaxStructureLines = 6
  MaxNameLines = 5
INVARIANTS
  JumpsNest
  BlocksPair
  NamesResolve
  EndPastWords
CHECK_DEADLOCK FALSE
