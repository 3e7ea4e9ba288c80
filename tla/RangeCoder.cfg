SPECIFICATION Spec
CONSTANTS
  Byte = 4
  Top = 16
  Total = 8
  Unit = 4
  Header = 1
  First = 4
  ErrorDump = 3
  Data <- MCData
  Probs = {"IsMatch", "IsRep"}
INVARIANTS
  InputInside ProbInside OneByteEnough BitsOfStream
CHECK_DEADLOCK FALSE
