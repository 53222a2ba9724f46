\* The open controller: any user, any target, three-bit bytes.
SPECIFICATION FairSpec
CONSTANTS
  ClkMax = 3
  LastBit = 2
  Words <- MCWords
INVARIANTS
  TypeOK
  SclMatchesFsm
  BitOnWire
  PopsTakenWord
  NackEndsTransfer
  SdaReleasedAfterLastBit
PROPERTIES
  SdaStable
  Progress
