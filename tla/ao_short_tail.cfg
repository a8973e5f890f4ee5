CONSTANTS
  BufferCount = 4
  BufferSize = 2
  StartAfter = 1
  Truncate = 2
  MaxOutburst = 2
  UserActs = FALSE
  MaxBlocks = 4
SPECIFICATION FairSpec
PROPERTIES FileEnds
CHECK_DEADLOCK FALSE
