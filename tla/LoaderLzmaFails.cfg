SPECIFICATION Spec
CONSTANTS
  CPU_TYPES = {"IPQ806X"}
  TickSec = 5
  RamTop = 18
  TEXT_BASE = 7
  PAGE_TABLE = 17
  HeadPayload = 0
  U32 = 64
  IPQ_ARCH = 4200
  OtherArch = 1
  Images <- MCOnlyDamaged
INVARIANT StartedIsPlaced
