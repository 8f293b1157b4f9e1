SPECIFICATION KernelSpec
CONSTANTS
  Byte <- MCByte
  Texts <- MCTexts
  Characters <- MCCharacters
  Numbers = {}
  Inputs = {174}
  Kinds = {"healthy", "stuck", "absent"}
  Settings <- MCSettings
  RxSize = 1
  MaxWritten = 0
  MaxArrived = 1
  Firmwares <- MCFirmwares
  MaxTraces = 1
CHECK_DEADLOCK FALSE
INVARIANTS
  CrashesOnlyEarly
  LastWords
  PatternsApart
PROPERTIES
  BootEnds
