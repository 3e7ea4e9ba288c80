SPECIFICATION FairSpec
CONSTANTS
  CPU_TYPES = {"IPQ4XXX", "IPQ806X"}
  TickSec = 5
  RamTop = 18
  TEXT_BASE = 7
  PAGE_TABLE = 17
  HeadPayload = 0
  U32 = 64
  IPQ_ARCH = 4200
  OtherArch = 1
  Images <- MCAll
INVARIANTS
  KernelPlaced NothingVitalLost EntryContract HangArmed RebootIn5
PROPERTY BootResolves
