SPECIFICATION FairSpec
CONSTANTS
  t1 = t1
  t2 = t2
  t3 = t3
  Null = Null
  Tables <- MCTables
  Rsdps <- MCRsdps
  Lists <- MCLists
  Sdts <- MCSdts
  Lengths = {0, 9, 10, 11, 12, 13}
  Bytes = {0, 1, 2, 3}
  HeaderSize = 9
  MadtHeader = 11
  EntrySize = 1
  SizeValues = 64
CHECK_DEADLOCK FALSE
INVARIANTS
  OnlyChecked
  ReadsInTables
  ResultRight
  TraceBalanced
PROPERTIES
  Ends
