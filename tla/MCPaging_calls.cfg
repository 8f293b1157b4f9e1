SPECIFICATION Spec
CONSTANTS
  Span <- MCSpan
  PageCount = 64
  PML4 = 1
  BootTables <- MCIdentity
  Leftover <- MCNothing
  FreeSets <- MCFree
  Requests <- MCCalls
INVARIANTS
  FirstPageMapped
  OthersUnchanged
  TranslateRight
  TablesApart
  FaultsOnlyByInterim
CHECK_DEADLOCK FALSE
