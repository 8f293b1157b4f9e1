SPECIFICATION MCSpec
CONSTANTS
  Nodes = {n1, n2, n3, n4}
  Names = {"pool", "toplevel"}
  DNodes = {n1, n2, n3}
  Null = Null
  RangeLen = 2
INVARIANTS
  HeldNodesAreLoose
PROPERTIES
  KeepsLists
  KeepsList
