CONSTANTS
  CacheSize = 0
  SectorSize = 2
  ChunkArg = 0
  SeekArg = 3
  PrefillArg = 2
  MinSectors = 4
  FillSectors = 2
  ChunkSectors = 1
  BackDivisor = 4
  Build = "gekko"
  FileSize = 13
  SeekTargets <- MCNoTargets
  Commands = {"seek"}
  JumpTargets <- MCJumpTargets
  MayInterrupt = FALSE
  ReadMayFail = FALSE
  SeekMayFail = FALSE
  ErrorLimit = 2
SPECIFICATION Spec
INVARIANTS WindowHoldsFile
