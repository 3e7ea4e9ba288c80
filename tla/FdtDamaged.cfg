CONSTANTS
  Images <- MCImages
  Nodes <- MCNodes
  Props <- MCProps
  DataAt = 1000
  RamEnd = 60000
  Wrap = 65536
SPECIFICATION FairSpec
PROPERTY ErrorEndsWalk
CHECK_DEADLOCK FALSE
