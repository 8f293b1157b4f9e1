SPECIFICATION FairSpec
CONSTANTS
  MinOrder = 1
  MaxOrder = 3
  Size <- PlentySize
  MemMap <- PlentyMap
  Requests = {0, 2, 3, 8, 9}
  NumStatic = 40
  NodesPerPage = 3
  MemsetSize = 7
  PageTableLevels = 3
  MaxStackDepth = 7
CHECK_DEADLOCK FALSE
INVARIANTS
  UnavailableSound
  NoIdleSplit
  OverflowNeedsEmptyPool
PROPERTIES
  LowestFirst
  KeepsPromise
