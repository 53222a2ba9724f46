\* Power-up and SPI_TEST, on the reader and on its black box.
SPECIFICATION Spec
CONSTANTS
  Tres1TdpCycles = 4
  FlashBase = 11259375
  Image <- MCImage
  TestLen = 4
  ToRead = 2
  Tests <- MCTests
INVARIANTS
  ROMReadsBack
  TestShowsFlash
PROPERTIES
  Streams
  ComesToRest
