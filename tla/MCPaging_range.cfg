SPECIFICATION Spec
CONSTANTS
  Span <- MCSpan
  PageCount = 64
  PML4 = 1
  BootTables <- MCIdentity
  Leftover <- MCNothing
  FreeSets <- MCFree
  Requests <- MCTwoPages
INVARIANTS
  WholeRangeMapped
CHECK_DEADLOCK FALSE
