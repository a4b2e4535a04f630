SPECIFICATION Spec24
CONSTANTS
  Names <- MCNames
  Macros <- StructureMacros
  Closes <- MCCloses
  Libs = {"lib"}
  Incs = {"inc"}
  NextLines <- MCNextLines
  NextLines24 <- MCNextLines24
  AddressSize = 64
  MaxBankLines = 5
  WhileBreaks = {"WHILECONTINUE"}
  Orgs = {4}
  Values = {1}
  MaxLines = 6
  MaxStructureLines = 6
  MaxNameLines = 5
INVARIANTS
  ContinueContinues
  LocalsPrivate
  CopiesCode
  EndPastBanks
  EntersItsBank
  DataGoOn
CHECK_DEADLOCK FALSE
