\* The comment on the acknowledgement of a byte read.
SPECIFICATION FairSpec
CONSTANTS
  ClkMax = 3
  LastBit = 2
  Words <- MCWords
PROPERTIES
  ReadOnAcks
