SPECIFICATION FairSpec
CONSTANTS
  MinOrder = 1
  MaxOrder = 3
  Size <- BootSize
  MemMap <- BootMap
  Requests = {2, 3, 7}
  NumStatic = 3
  NodesPerPage = 3
  MemsetSize = 7
  PageTableLevels = 3
  MaxStackDepth = 12
CHECK_DEADLOCK FALSE
INVARIANTS
  OnlyThePageIsSetUp
