SPECIFICATION FairSpec
CONSTANTS
  MinOrder = 1
  MaxOrder = 4
  Size <- GrowthSize
  MemMap <- GrowthMap
  Requests = {1, 2, 4, 8}
  NumStatic = 1
  NodesPerPage = 5
  MemsetSize = 7
  PageTableLevels = 3
  MaxStackDepth = 24
CHECK_DEADLOCK FALSE
INVARIANTS
  BlocksUsable
  UsableTiled
  GrantsDisjoint
  SplitTargetsIntact
  NothingSkipped
  NestedGrowthIsDoomed
  PoolBalance
  NodesIntact
PROPERTIES
  PallocReturns
