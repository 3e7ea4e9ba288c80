SPECIFICATION Spec
CONSTANTS
  PosBits = 1
  LowBits = 1
  MidBits = 1
  HighBits = 2
  SlotBits = 4
  EndPosModelIndex = 8
  AlignBits = 2
  LitBits = 2
  MinLen = 2
  Settings <- MCSettings
INVARIANTS TypeOK OwnPlace RightSymbol
CHECK_DEADLOCK FALSE
