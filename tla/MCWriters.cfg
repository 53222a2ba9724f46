\* The four writers, on a display that may refuse any byte.
SPECIFICATION WritersSpec
CONSTANTS
  ClkMax = 3
  LastBit = 7
  Words = {}
  Addr = 61
  Rows = 16
  LastPage = 2
  Columns = 2
  Commands <- MCCommands
  OFFSET_SCROLL = 3
  InitialHigherColumnAddress = 3
  LowerColumnAddresses <- MCLowerColumnAddresses
  DisplayStartLine = 14
  Cells <- MCCells
  ROMIndices = {0, 1, 2}
  Characters = {2}
INVARIANTS
  WritersTypeOK
  NoWordLost
  UnitsAddressFirst
PROPERTIES
  Delivers
  CommandsEnd
  ScrollFollowsDisplay
