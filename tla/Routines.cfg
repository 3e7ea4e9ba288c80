CONSTANTS
  Memory <- MCMemory
  Byte = {0, 1}
  Jobs <- MCJobs
  WordSize = 3
  PropBytes <- MCPropBytes
  Processors <- MCProcessors
  WordBits = 16
  Chars <- MCChars
  Meanings <- MCMeanings
  Raw <- MCRaw
  Lengths = {0, 1, 8, 81}
  LP_MAX_BUF = 80
  Numbers <- MCNumbers
  Widths = {0, 1, 2, 8}
  Word = 268435456
SPECIFICATION RoutinesSpec
INVARIANTS RoutinesTypeOK Copied AsCommented ReadsAsInC ReadsWhatIsMeant
PROPERTY AllLines
CHECK_DEADLOCK FALSE
