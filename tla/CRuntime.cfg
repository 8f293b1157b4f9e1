SPECIFICATION Spec
CONSTANTS
  LastAddr = 4
  ByteValues = 2
  Fills = {0, 3}
INVARIANTS
  ResultRight
  CompareRight
