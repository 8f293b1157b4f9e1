SPECIFICATION Spec
CONSTANTS
  Span <- MCSpan
  PageCount = 64
  PML4 = 1
  BootTables <- MCNothing
  Leftover <- MCNothing
  FreeSets <- MCFree
  Requests <- MCOnePage
INVARIANTS
  NoFault
CHECK_DEADLOCK FALSE
