CONSTANTS
  BufferCount = 4
  BufferSize = 2
  StartAfter = 1
  Truncate = 2
  MaxOutburst = 2
  UserActs = TRUE
  MaxBlocks = 7
SPECIFICATION FairSpec
INVARIANTS TypeOK PlaysCleanly CountIsTrue
PROPERTIES InOrder SpaceComes
CHECK_DEADLOCK FALSE
