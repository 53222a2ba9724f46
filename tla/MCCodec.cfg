\* Composed sequences, and other bytes, to both parsers.
SPECIFICATION CodecSpec
CHECK_DEADLOCK FALSE
CONSTANTS
  Elements <- MCElements
  MaxLen = 4
  Noise <- MCNoise
  MaxNoise = 4
INVARIANTS
  RoundTrip
  ParsersAgree
  LabelsPoint
