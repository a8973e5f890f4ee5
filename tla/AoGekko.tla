------------------------------- MODULE AoGekko -------------------------------
(***************************************************************************)
(* The audio output of src/mplayer/libao2/ao_gekko.c: a ring of buffers    *)
(* which the main thread fills (play) and the audio DMA plays, with the    *)
(* interrupt handler switch_buffers between them, and the part of the main *)
(* loop that feeds it (fill_audio_out_buffers of mplayer.c).               *)
(*                                                                         *)
(* A block of sound is its number in the order of writing, so that a block *)
(* played twice, out of order or while it is rewritten is visible.         *)
(*                                                                         *)
(* The DMA is external.  It is taken to work as the handler's accounting   *)
(* (get_delay, get_space, the StopDMA branch) needs it to: when a transfer *)
(* ends, or is started, it takes over the programmed address and length    *)
(* and raises the interrupt, in which the transfer after it is programmed. *)
(***************************************************************************)
EXTENDS Integers

CONSTANTS
  BufferCount,  \* BUFFER_COUNT
  BufferSize,   \* BUFFER_SIZE, in units of the DMA's count of bytes left
  StartAfter,   \* request_size in blocks, rounded down: 1 for stereo, 3 for 5.1
  Truncate,     \* what get_delay's .04 s are, in the same units as BufferSize
  MaxOutburst,  \* MAX_OUTBURST, in blocks
  UserActs,     \* the user pauses, resumes, seeks and quits
  MaxBlocks     \* bound: blocks written over the whole behaviour

ASSUME AoAssumption ==
  /\ BufferCount \in Nat /\ BufferSize \in Nat /\ StartAfter \in Nat
  /\ Truncate \in Nat /\ MaxOutburst \in Nat /\ MaxBlocks \in Nat
  /\ BufferSize > 0 /\ StartAfter > 0 /\ StartAfter < BufferCount - 1
  /\ UserActs \in BOOLEAN

VARIABLES
  \* the static variables of ao_gekko.c
  buffers, bufferFill, bufferPlay, buffered, playing, dmaLast,
  \* the DMA: running, the buffer it reads, what is left of it
  dmaOn, dmaBuffer, dmaLeft,
  \* the main thread: where it is, blocks of the current play() still to go, the
  \* value of buffered it loaded, whether play() has written a block, whether the
  \* player is paused, blocks still to decode, whether the stream ends with part of one
  pc, todo, loaded, processed, paused, toDecode, tail,
  \* history: blocks written, the last one the DMA began, updates of buffered lost
  written, heard, lost

ring    == <<buffers, bufferFill, written>>
counter == <<bufferPlay, buffered>>
dma     == <<dmaOn, dmaBuffer, dmaLeft>>
call    == <<pc, todo, loaded, processed>>
player  == <<paused, toDecode, tail>>
vars    == <<ring, counter, playing, dmaLast, dma, call, player, heard, lost>>

Silence == 0
Torn    == -1    \* a buffer that is being written
Index   == 0 .. BufferCount - 1

\* (i + 1) % BUFFER_COUNT
Following(i) == IF i = BufferCount - 1 THEN 0 ELSE i + 1

Init ==
  /\ buffers = [i \in Index |-> Silence]
  /\ bufferFill = 0 /\ bufferPlay = 0 /\ buffered = 0
  /\ playing = FALSE /\ dmaLast = 0
  /\ dmaOn = FALSE /\ dmaBuffer = 0 /\ dmaLeft = 0
  /\ pc = "idle" /\ todo = 0 /\ loaded = 0 /\ processed = FALSE
  /\ paused = FALSE /\ toDecode \in 0 .. MaxBlocks /\ tail \in BOOLEAN
  /\ written = 0 /\ heard = 0 /\ lost = 0

------------------------------------------------------------------------------
(* The DMA and its interrupt.                                               *)

\* Mutant: the handler does not look whether there is a block to play.
AlwaysSwitch(buffer, length, count, next) ==
  /\ buffered' = (IF count > 0 THEN count - 1 ELSE 0) /\ bufferPlay' = Following(next)
  /\ dmaOn' = TRUE /\ dmaBuffer' = buffer /\ dmaLeft' = length
  /\ heard' = buffers[buffer]
  /\ playing' = TRUE /\ UNCHANGED dmaLast
\* A transfer begins, and with it the interrupt: switch_buffers, which finds the
\* given values of buffered and buffer_play.  The buffer it programs is always
\* buffers[buffer_play]: that is where the next transfer begins.
BeginTransfer(buffer, length, count, next) ==
  \/ /\ count > 0
     /\ buffered' = count - 1 /\ bufferPlay' = Following(next)
     /\ dmaOn' = TRUE /\ dmaBuffer' = buffer /\ dmaLeft' = length
     /\ heard' = buffers[buffer]
     /\ playing' = TRUE /\ UNCHANGED dmaLast
  \/ /\ count <= 0
     /\ buffered' = count /\ bufferPlay' = next
     /\ dmaOn' = FALSE /\ dmaBuffer' = buffer /\ dmaLeft' = length
     /\ playing' = FALSE /\ dmaLast' = 0 /\ UNCHANGED heard

DmaRuns ==
  /\ dmaOn /\ dmaLeft > 0
  /\ dmaLeft' = dmaLeft - 1
  /\ UNCHANGED <<ring, counter, playing, dmaLast, dmaOn, dmaBuffer, call, player, heard, lost>>

Interrupt ==
  /\ dmaOn /\ dmaLeft = 0
  /\ BeginTransfer(bufferPlay, BufferSize, buffered, bufferPlay)
  /\ UNCHANGED <<ring, call, player, lost>>

------------------------------------------------------------------------------
(* play(): one action for each access to what the interrupt also uses.      *)

\* Mutant: a ring whose last buffer counts as free as well.
SpaceForAll == buffered < BufferCount
\* get_space() >= request_size: the buffer the DMA reads is not counted as free.
HasSpace == buffered < BufferCount - 1

NextBlock ==
  /\ pc = "space" /\ todo > 0 /\ HasSpace
  /\ buffers' = [buffers EXCEPT ![bufferFill] = Torn] /\ pc' = "write"
  /\ UNCHANGED <<bufferFill, written, counter, playing, dmaLast, dma, todo, loaded, processed,
                 player, heard, lost>>

FinishBlock ==
  /\ pc = "write"
  /\ buffers' = [buffers EXCEPT ![bufferFill] = written + 1]
  /\ bufferFill' = Following(bufferFill) /\ written' = written + 1
  /\ todo' = todo - 1 /\ toDecode' = toDecode - 1 /\ processed' = TRUE /\ pc' = "load"
  /\ UNCHANGED <<counter, playing, dmaLast, dma, loaded, paused, tail, heard, lost>>

\* buffered += BUFFER_SIZE is a load and a store; the interrupt may come between.
LoadCount ==
  /\ pc = "load"
  /\ loaded' = buffered /\ pc' = "store"
  /\ UNCHANGED <<ring, counter, playing, dmaLast, dma, todo, processed, player, heard, lost>>

StoreCount ==
  /\ pc = "store"
  /\ buffered' = loaded + 1 /\ lost' = lost + (loaded - buffered) /\ pc' = "space"
  /\ UNCHANGED <<ring, bufferPlay, playing, dmaLast, dma, todo, loaded, processed, player, heard>>

LeaveLoop ==
  /\ pc = "space" /\ (todo = 0 \/ ~HasSpace)
  /\ pc' = "start"
  /\ UNCHANGED <<ring, counter, playing, dmaLast, dma, todo, loaded, processed, player, heard, lost>>

ShouldStart == ~playing /\ buffered > StartAfter

\* playing = true; switch_buffers(); AUDIO_StartDMA().
StartDma ==
  /\ pc = "start" /\ ShouldStart
  /\ BeginTransfer(Following(bufferPlay), BufferSize, buffered - 1, Following(bufferPlay))
  /\ pc' = "played"
  /\ UNCHANGED <<ring, todo, loaded, processed, player, lost>>

NoStart ==
  /\ pc = "start" /\ ~ShouldStart
  /\ pc' = "played"
  /\ UNCHANGED <<ring, counter, playing, dmaLast, dma, todo, loaded, processed, player, heard, lost>>

------------------------------------------------------------------------------
(* The main thread around play(): fill_audio_out_buffers, get_delay, pauses, *)
(* seeks, the end of a file and of the output.                               *)

\* A chunk of n decoded blocks; with nothing left to decode, the part of a block
\* that is still there, or the end of the file (return 0).
Fill(n) ==
  /\ pc = "idle" /\ ~paused /\ HasSpace
  /\ n <= toDecode /\ n <= MaxOutburst /\ (n = 0 => toDecode = 0)
  /\ pc' = IF n = 0 /\ ~tail THEN "ended" ELSE "space"
  /\ todo' = n /\ processed' = FALSE
  /\ UNCHANGED <<ring, counter, playing, dmaLast, dma, loaded, player, heard, lost>>

EndFill ==
  /\ pc = "played" /\ processed
  /\ pc' = "idle"
  /\ UNCHANGED <<ring, counter, playing, dmaLast, dma, todo, loaded, processed, player, heard, lost>>

\* play() took nothing, at the end of the file: get_delay() decides.
AskPlaying ==
  /\ pc = "played" /\ ~processed
  /\ pc' = IF playing THEN "left" ELSE "judge"
  /\ UNCHANGED <<ring, counter, playing, dmaLast, dma, todo, loaded, processed, player, heard, lost>>

AskLeft ==
  /\ pc = "left"
  /\ dmaLast' = dmaLeft /\ pc' = "judge"
  /\ UNCHANGED <<ring, counter, playing, dma, todo, loaded, processed, player, heard, lost>>

\* "Audio output truncated at end": what is left of a_out_buffer is dropped.
Judge ==
  /\ pc = "judge"
  /\ tail' = (tail /\ buffered * BufferSize + dmaLast >= Truncate) /\ pc' = "idle"
  /\ UNCHANGED <<ring, counter, playing, dmaLast, dma, todo, loaded, processed, paused, toDecode,
                 heard, lost>>

\* audio_pause() takes the count before it stops the DMA.
Pause ==
  /\ UserActs /\ pc = "idle" /\ ~paused
  /\ dmaLast' = dmaLeft /\ pc' = "stop"
  /\ UNCHANGED <<ring, counter, playing, dma, todo, loaded, processed, player, heard, lost>>

StopDma ==
  /\ pc = "stop"
  /\ dmaOn' = FALSE /\ playing' = FALSE /\ paused' = TRUE /\ pc' = "idle"
  /\ UNCHANGED <<ring, counter, dmaLast, dmaBuffer, dmaLeft, todo, loaded, processed, toDecode,
                 tail, heard, lost>>

\* Mutant: the DMA is not started again, though playing says it runs.
ResumeWithoutStart ==
  /\ pc = "idle" /\ paused
  /\ playing' = TRUE /\ paused' = FALSE
  /\ UNCHANGED <<ring, counter, dma, dmaLast, call, toDecode, tail, heard, lost>>
\* audio_resume(): what the DMA had left, but of the buffer that comes next.
Resume ==
  /\ pc = "idle" /\ paused
  /\ BeginTransfer(bufferPlay, dmaLast, buffered, bufferPlay)
  /\ paused' = FALSE
  /\ UNCHANGED <<ring, call, toDecode, tail, lost>>

\* Mutant: the count of blocks survives.
ResetButCount ==
  /\ pc = "ended" \/ (UserActs /\ pc = "idle")
  /\ dmaOn' = FALSE /\ buffers' = [i \in Index |-> Silence]
  /\ bufferFill' = 0 /\ bufferPlay' = 0 /\ playing' = FALSE /\ dmaLast' = 0 /\ paused' = FALSE
  /\ heard' = written /\ lost' = 0 /\ pc' = "idle"
  /\ toDecode' \in 0 .. MaxBlocks - written /\ tail' \in BOOLEAN
  /\ UNCHANGED <<buffered, written, dmaBuffer, dmaLeft, todo, loaded, processed>>
\* reset(): at a seek, after a pause in which the file was left, at the end of a
\* file.  The blocks not yet begun are dropped: none of them is waited for.
Reset ==
  /\ pc = "ended" \/ (UserActs /\ pc = "idle")
  /\ dmaOn' = FALSE
  /\ buffers' = [i \in Index |-> Silence]
  /\ bufferFill' = 0 /\ bufferPlay' = 0 /\ buffered' = 0
  /\ playing' = FALSE /\ dmaLast' = 0 /\ paused' = FALSE
  /\ heard' = written /\ lost' = 0
  /\ toDecode' \in 0 .. MaxBlocks - written /\ tail' \in BOOLEAN
  /\ pc' = "idle"
  /\ UNCHANGED <<written, dmaBuffer, dmaLeft, todo, loaded, processed>>

\* uninit(): the DMA is stopped before its memory is freed.
Uninit ==
  /\ pc = "ended" \/ (UserActs /\ pc = "idle")
  /\ dmaOn' = FALSE /\ pc' = "closed"
  /\ UNCHANGED <<ring, counter, playing, dmaLast, dmaBuffer, dmaLeft, todo, loaded, processed,
                 player, heard, lost>>

Play == NextBlock \/ FinishBlock \/ LoadCount \/ StoreCount \/ LeaveLoop \/ StartDma \/ NoStart
Feed == (\E n \in 0 .. MaxOutburst : Fill(n)) \/ EndFill \/ AskPlaying \/ AskLeft \/ Judge
User == Pause \/ StopDma \/ Resume \/ Reset \/ Uninit
Hardware == DmaRuns \/ Interrupt

Next == Play \/ Feed \/ User \/ Hardware

Spec == Init /\ [][Next]_vars

\* The DMA transfers, and the main thread goes on with what it has begun; what the user
\* does is his choice.
FairSpec == Spec /\ WF_vars(Hardware) /\ WF_vars(Play) /\ WF_vars(Feed \/ StopDma)

------------------------------------------------------------------------------
(* Properties.                                                              *)

TypeOK ==
  /\ buffers \in [Index -> Nat \cup {Torn}]
  /\ bufferFill \in Index /\ bufferPlay \in Index /\ dmaBuffer \in Index
  /\ buffered \in 0 .. BufferCount - 1 /\ loaded \in 0 .. BufferCount - 2
  /\ dmaLast \in 0 .. BufferSize /\ dmaLeft \in 0 .. BufferSize
  /\ playing \in BOOLEAN /\ dmaOn \in BOOLEAN /\ processed \in BOOLEAN
  /\ paused \in BOOLEAN /\ tail \in BOOLEAN
  /\ pc \in {"idle", "space", "write", "load", "store", "start", "played", "left", "judge",
             "stop", "ended", "closed"}
  /\ todo \in Nat /\ toDecode \in Nat /\ written \in Nat /\ lost \in Nat
  /\ heard \in Nat \cup {Torn}

\* While no update of buffered has been lost, the buffer the DMA reads keeps the block the
\* DMA began with: play() neither overtakes the DMA nor starts it where it writes.
PlaysCleanly == dmaOn /\ lost = 0 => heard > 0 /\ buffers[dmaBuffer] = heard

\* get_delay() and get_space() rest on buffered: outside of an update, and while none has been
\* lost to the interrupt, it is the number of blocks written and not yet begun or dropped.
CountIsTrue == lost = 0 /\ pc \notin {"load", "store"} => buffered = written - heard

\* What is in a buffer that has been left behind: silence, a block that is being written,
\* or one of the last BufferCount blocks.
LeftInRing(block) ==
  \/ block = Silence
  \/ block = Torn /\ pc = "write"
  \/ block \in written - BufferCount + 1 .. written

\* While no update of buffered has been lost, blocks are begun in the order of writing, each
\* at most once, and none is left out but the first one after a start, which switch_buffers
\* skips.  After a lost update the DMA may begin blocks again, or one that is being written,
\* but never goes back farther than once round the ring.
InOrder ==
  [][dmaOn' /\ heard' # heard =>
       \/ heard' = heard + 1
       \/ heard' = heard + 2 /\ ~playing
       \/ lost > 0 /\ LeftInRing(heard')]_vars

\* A full ring gets space again, though updates of buffered may have been lost, unless the
\* player is paused or the output closed: fill_audio_out_buffers does not wait for ever.
SpaceComes == ~HasSpace ~> HasSpace \/ paused \/ pc = "closed"

\* libao2.txt on the last part of the audio in a file, and mplayer.c's "sanity check to avoid
\* hanging": when the user does nothing the file comes to its end.
FileEnds == <>(pc = "ended")
=============================================================================
