SPECIFICATION Spec
CONSTANTS
  Span <- MCSpan
  PageCount = 64
  PML4 = 1
  BootTables <- MCNothing
  Leftover <- MCLeftover
  FreeSets <- MCFreeOrLeft
  Requests <- MCCallsOrNone
INVARIANTS
  NothingMapped
CHECK_DEADLOCK FALSE
