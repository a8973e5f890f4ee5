CONSTANTS
  CacheSize = 0
  SectorSize = 2
  ChunkArg = 8
  SeekArg = 3
  PrefillArg = 2
  MinSectors = 4
  FillSectors = 2
  ChunkSectors = 1
  BackDivisor = 4
  Build = "gekko"
  FileSize = 13
  SeekTargets <- MCSeekTargets
  Commands = {}
  JumpTargets = {}
  MayInterrupt = FALSE
  ReadMayFail = FALSE
  SeekMayFail = FALSE
  ErrorLimit = 2
SPECIFICATION Spec
INVARIANTS TypeOK WindowHoldsFile NoRace
PROPERTIES BackBytesKept UnreadKept ImplementsFileStream
