CONSTANTS
  CacheSize = 0
  SectorSize = 2
  ChunkArg = 0
  SeekArg = 3
  PrefillArg = 2
  MinSectors = 4
  FillSectors = 2
  ChunkSectors = 1
  BackDivisor = 2
  Build = "pthread"
  FileSize = 13
  SeekTargets <- MCNoTargets
  Commands = {}
  JumpTargets = {}
  MayInterrupt = FALSE
  ReadMayFail = FALSE
  SeekMayFail = FALSE
  ErrorLimit = 2
SPECIFICATION Spec
INVARIANTS ReaderGetsFile NoRace EofComesFromSource
