------------------------------ MODULE FileStream ------------------------------
(***************************************************************************)
(* What the stream cache promises the demuxers that read through it: the   *)
(* bytes of the file, in order, from where the last seek put them.  It     *)
(* says nothing of windows, threads or sectors.  A call may come back with *)
(* nothing: that is how the end of the file looks.                         *)
(***************************************************************************)
EXTENDS Integers, Sequences

CONSTANTS
  FileSize,     \* the bytes of the file are those at 0 .. FileSize - 1
  SectorSize,   \* the most a call leaves to be read
  SeekTargets   \* the positions asked for

VARIABLES
  tell,    \* the file position of the next byte: stream_tell
  unread,  \* the bytes that can be read without a call, each its file position
  busy     \* a call is in progress

vars == <<tell, unread, busy>>

Bytes(pos, n) == [i \in 1 .. n |-> pos + i - 1]

Init == tell = 0 /\ unread = <<>> /\ busy = FALSE

Skip == \E n \in 1 .. Len(unread) :
  tell' = tell + n /\ unread' = SubSeq(unread, n + 1, Len(unread)) /\ UNCHANGED busy

CallRead == ~busy /\ unread = <<>> /\ busy' = TRUE /\ UNCHANGED <<tell, unread>>

\* A seek to a byte the last call brought needs no other call.
SeekNear(pos) ==
  /\ ~busy /\ pos < tell + Len(unread) /\ pos + SectorSize >= tell + Len(unread)
  /\ tell' = pos /\ unread' = Bytes(pos, tell + Len(unread) - pos) /\ UNCHANGED busy

CallSeek(pos) == ~busy /\ tell' = pos /\ unread' = <<>> /\ busy' = TRUE

\* A call brings the bytes at tell.  One that cannot reach tell brings what precedes it
\* in its sector, if anything: the seek has failed and tell says so.
Return ==
  /\ busy /\ busy' = FALSE
  /\ \E n \in 0 .. SectorSize, short \in 0 .. SectorSize - 1 :
       /\ short = 0 \/ n < short
       /\ tell' = tell - short
       /\ n > 0 => tell' + n <= FileSize
       /\ unread' = Bytes(tell', n)

Next ==
  \/ Skip \/ CallRead \/ Return
  \/ \E pos \in SeekTargets : SeekNear(pos) \/ CallSeek(pos)

Spec == Init /\ [][Next]_vars
===============================================================================
