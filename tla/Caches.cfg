SPECIFICATION Spec
CONSTANTS
  Sections = 3
  STACK = 1
  PAGE_TABLE = 2
  Ahead = 2
  Sources = {1}
  Stored = {0, 1}
  Word = {0, 1}
  Levels = 3
  Clidr <- MCClidr
  Builds <- MCBuilds
INVARIANTS
  EntryClean TableUncached NothingLost
PROPERTY Transparent
