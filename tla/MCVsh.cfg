\* A display of four text rows and columns, every order of three keys.
SPECIFICATION SimSpec
CONSTANTS
  ClkMax = 3
  LastBit = 7
  Words = {}
  Addr = 60
  Rows = 4
  LastRow = 4
  LastCol = 4
  LastPage = 3
  Columns = 32
  page_count = 4
  i2c_width = 32
  CharColumns <- MCCharColumns
  Commands <- MCCommands
  OFFSET_SCROLL = 3
  InitialHigherColumnAddress <- MCInitialHigherColumn
  LowerColumnAddresses <- MCLowerColumns
  DisplayStartLine <- MCStartLine
  ButtonSequences <- MCSequences
  Buttons <- MCButtons
  Levels = {}
  MaxPresses = 3
INVARIANTS
  NoComplaint
  IDAnswers
  DisplayAsTold
PROPERTIES
  PressPlays
