---------------------------- MODULE CacheGeometry ----------------------------
(***************************************************************************)
(* The sizes the stream cache derives from its arguments, as cache_init    *)
(* and stream_enable_cache compute them (src/mplayer/stream/cache2.c).     *)
(* The code's literals (16 sectors at least, fill limit of 8 sectors,      *)
(* default read chunk of 4 sectors, a quarter or a half of the buffer      *)
(* kept for seeking back) are constants, so that a small instance keeps    *)
(* their ratios.                                                           *)
(***************************************************************************)
EXTENDS Integers

CONSTANTS
  CacheSize,     \* stream_enable_cache's size, in bytes
  SectorSize,    \* stream->sector_size, or STREAM_BUFFER_SIZE when it is 0
  ChunkArg,      \* stream->read_chunk; 0 asks for the default
  SeekArg,       \* stream_enable_cache's seek_limit
  PrefillArg,    \* stream_enable_cache's min
  MinSectors,    \* 16 in the code
  FillSectors,   \* 8 in the code
  ChunkSectors,  \* 4 in the code
  BackDivisor    \* 4 under GEKKO, 2 otherwise

ASSUME GeometryAssumption ==
  /\ CacheSize \in Nat /\ ChunkArg \in Nat /\ SeekArg \in Nat /\ PrefillArg \in Nat
  /\ SectorSize \in Nat \ {0}
  /\ MinSectors \in Nat \ {0} /\ FillSectors \in Nat \ {0} /\ ChunkSectors \in Nat \ {0}
  /\ BackDivisor \in Nat \ {0, 1}
  \* 16 * 3 >= 8 * 4 under GEKKO, 16 * 1 >= 8 * 2 otherwise
  /\ MinSectors * (BackDivisor - 1) >= FillSectors * BackDivisor

AtLeast(x, low)  == IF x < low THEN low ELSE x
AtMost(x, high)  == IF x > high THEN high ELSE x

BufferSize == AtLeast(CacheSize \div SectorSize, MinSectors) * SectorSize
FillLimit  == FillSectors * SectorSize
BackSize   == BufferSize \div BackDivisor

\* "make sure that we won't wait from cache_fill more data than it is allowed to fill"
SeekLimit == AtMost(SeekArg, BufferSize - FillLimit)

\* Mutant: the clamp of the prefill to what the filler may fill is lost.
UnclampedPrefill == AtLeast(PrefillArg, 1)
Prefill == AtLeast(AtMost(PrefillArg, BufferSize - FillLimit), 1)

ReadChunk == IF ChunkArg = 0 THEN ChunkSectors * SectorSize ELSE ChunkArg
==============================================================================
