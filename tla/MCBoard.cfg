\* Every order of buttons, the display acknowledging.
SPECIFICATION BoardSpec
CONSTANTS
  ClkMax = 3
  LastBit = 2
  Words = {}
  Addr = 60
  Rows = 2
  LastRow = 2
  LastCol = 2
  LastPage = 1
  Columns = 1
  Commands <- MCCommands
  OFFSET_SCROLL = 3
  InitialHigherColumnAddress = 1
  LowerColumnAddresses = {}
  DisplayStartLine = 2
  ButtonSequences <- MCSequences
  Levels = {0}
INVARIANTS
  SequencePlayed
  AddressFirst
  BoardNoWordLost
PROPERTIES
  SequencesEnd
