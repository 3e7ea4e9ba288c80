SPECIFICATION FairSpec
CONSTANTS
  Bytes <- MCBytes
  Sizes <- MCSizes
  MinLen = 1
  MaxLen = 2
  Wrap = 9
INVARIANTS
  ReadsInside WritesInside
PROPERTIES
  Decodes Terminates
CHECK_DEADLOCK FALSE
