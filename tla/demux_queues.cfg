SPECIFICATION FairSpec
CONSTANTS
  Audio = "audio"
  Video = "video"
  Sub = "sub"
  File <- MCFile
  MaxPacks = 2
  MaxPackBytes = 4
  ReadLengths = {1}
  MaxLengths = {3, 4}
  MaxSeeks = 1
  MaxLost = 1
INVARIANTS TypeOK ListsAreTrue MemoryIsHeld NothingLostOrTwice StopsAtStartCode PtsIsNext
PROPERTIES EveryPacketIsRead
