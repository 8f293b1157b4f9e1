SPECIFICATION FairSpec
CONSTANTS
  Byte <- MCByte
  Texts <- MCTexts
  Numbers = {0, 10, 171}
  Inputs = {7, 174}
  Kinds = {"healthy", "stuck", "absent"}
  Settings <- MCSettings
  RxSize = 2
  MaxWritten = 3
  MaxArrived = 3
CHECK_DEADLOCK FALSE
INVARIANTS
  SettingsRight
  QuietUnlessReady
  NothingLost
  NumberRight
  ReadsInOrder
PROPERTIES
  WritesEnd
