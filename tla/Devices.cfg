CONSTANTS
  GPT_FREQ_KHZ = 2
  GPT_FREQ = 7
  Word = 32
  Parts = 4
  Lag = 3
  Usecs <- MCUsecs
  Times <- MCTimes
  LeftConfig <- MCLeftConfig
  LeftOut = {0, 1}
  LastPhy = 1
  Tries = 2
  Polls = 2
  Short = 1
  Long = 4
  Period = 44
  Texts <- MCTexts
  Words = 2
SPECIFICATION DevicesSpec
INVARIANTS DevicesTypeOK Waited NotTooLong ResetPulse Settled InTime TransferKept
PROPERTIES PhysEnd AllSent
CHECK_DEADLOCK FALSE
