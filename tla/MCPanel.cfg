\* Every stream of commands on a small display.
SPECIFICATION PanelSpec
CONSTANTS
  LastRow = 2
  LastCol = 2
  Users <- MCUsers
  Bytes = {165}
INVARIANTS
  PanelTypeOK
  UnitsTakeTurns
PROPERTIES
  Renders
