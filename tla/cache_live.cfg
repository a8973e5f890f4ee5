CONSTANTS
  CacheSize = 0
  SectorSize = 1
  ChunkArg = 0
  SeekArg = 9
  PrefillArg = 9
  MinSectors = 2
  FillSectors = 1
  ChunkSectors = 1
  BackDivisor = 2
  Build = "gekko"
  FileSize = 3
  SeekTargets <- MCFewTargets
  Commands = {"seek"}
  JumpTargets <- MCJumpTargets
  MayInterrupt = TRUE
  ReadMayFail = TRUE
  SeekMayFail = TRUE
  ErrorLimit = 2
SPECIFICATION FairSpec
PROPERTIES PrefillEnds ReadReturns UninitEnds
