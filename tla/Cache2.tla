-------------------------------- MODULE Cache2 --------------------------------
(***************************************************************************)
(* The stream cache of src/mplayer/stream/cache2.c: a filler thread        *)
(* (cache_mainloop) reads the source ahead into a ring buffer from which   *)
(* the player's main thread reads, with no lock between them.              *)
(*                                                                         *)
(* Every action is one access of a thread to the shared cache_vars_t, or   *)
(* one blocking call.  A byte of the file is represented by its position,  *)
(* so that a byte delivered under a wrong position is visible.             *)
(***************************************************************************)
EXTENDS CacheGeometry, Sequences, FiniteSets

CONSTANTS
  Build,         \* "gekko": the filler (priority 70) preempts the main thread and
                 \* is joined; "pthread": equal threads, no join (nor in fork builds)
  FileSize,      \* the source delivers the positions 0 .. FileSize - 1
  SeekTargets,   \* positions the player seeks to
  Commands,      \* stream controls the player sends, a subset of {"get", "seek"}
  JumpTargets,   \* source positions a "seek" control may lead to
  MayInterrupt,  \* stream_check_interrupt may report a user command
  ReadMayFail,   \* a read of the source may fail before the end of the file
  SeekMayFail,   \* a seek of the source may fail
  ErrorLimit     \* 500 in the code

ASSUME CacheAssumption ==
  /\ Build \in {"gekko", "pthread"}
  /\ FileSize \in Nat /\ ErrorLimit \in Nat
  /\ SeekTargets \subseteq Nat /\ JumpTargets \subseteq Nat
  /\ Commands \subseteq {"get", "seek"}
  /\ {MayInterrupt, ReadMayFail, SeekMayFail} \subseteq BOOLEAN

VARIABLES
  \* cache_vars_t
  buffer, minPos, maxPos, offset, readPos, eof,
  control, ctlRes, ctlNewPos, threadActive,
  \* the filler's stream_t (stream2): where the source is, stream->error
  srcPos, srcError,
  \* the filler: where it is, cache_fill's read, space and len (0 outside the call), and
  \* the command it runs
  fpc, snap, space, len, fcmd,
  \* the main thread: where it is, cache_read's size, newb and pos, the control it
  \* sent, and the bytes of the seek target beyond its sector
  mpc, want, newb, slot, mcmd, goal,
  \* the main thread's stream_t: pos, eof, buf_pos, and buffer[0 .. buf_len - 1]
  spos, seof, bufPos, sbuf

window    == <<minPos, maxPos, offset>>
controls  == <<control, ctlRes, ctlNewPos>>
locals    == <<snap, space, len, fcmd>>
source    == <<srcPos, srcError>>
calls     == <<mpc, want, newb, slot, mcmd, goal>>
stream    == <<spos, seof, bufPos, sbuf>>
\* what only the one thread writes; both write eof and controls
fillerOwn == <<buffer, window, fpc, locals, source>>
mainOwn   == <<readPos, threadActive, calls, stream>>
vars      == <<fillerOwn, mainOwn, eof, controls>>

Junk   == -1          \* a slot nothing is promised about
NoCmd  == "none"      \* control == -1
Unset  == "unset"     \* control == 0, as memset leaves it
Quit   == "quit"      \* control == -2
NoGoal == -1          \* cache_stream_fill_buffer called by itself, not by a seek

------------------------------------------------------------------------------
(* Scheduling.  Under GEKKO the filler has the higher priority: the main    *)
(* thread runs only while the filler sleeps, blocks in the source, or has   *)
(* ended, and the filler may wake up between any two steps of the main one. *)

\* Mutant: two threads of equal priority.
AlwaysRuns == TRUE
Blocked    == fpc \in {"sleep", "reading", "seeking", "polling", "executing", "exit"}
MainMayRun == Build = "gekko" => Blocked

Init ==
  /\ buffer = [i \in 0 .. BufferSize - 1 |-> Junk]
  /\ minPos = 0 /\ maxPos = 0 /\ offset = 0 /\ readPos = 0 /\ eof = FALSE
  /\ control = Unset /\ ctlRes = "unsupported" /\ ctlNewPos = 0 /\ threadActive = TRUE
  /\ srcPos = 0 /\ srcError = 0
  /\ fpc = "snapshot" /\ snap = 0 /\ space = 0 /\ len = 0 /\ fcmd = NoCmd
  /\ mpc = "prefill" /\ want = 0 /\ newb = 0 /\ slot = 0 /\ mcmd = NoCmd /\ goal = NoGoal
  /\ spos = 0 /\ seof = FALSE /\ bufPos = 0 /\ sbuf = <<>>

------------------------------------------------------------------------------
(* The filler: cache_mainloop, which runs cache_fill, sleeps when it filled *)
(* nothing, and runs cache_execute_control.                                 *)

\* Mutant: the wrap of the ring buffer is forgotten.
UnwrappedSlotOf(p) == p - offset
\* Where the byte of file position p is: the reader's computation, which has to
\* cope with an offset the filler has not, or has just, moved on.
SlotOf(p) ==
  LET d == p - offset
  IN  IF d < 0 THEN d + BufferSize ELSE IF d >= BufferSize THEN d - BufferSize ELSE d

\* Where the filler puts the byte after the last one of the window when that is m.
FillSlot(m) == LET d == m - offset IN IF d >= BufferSize THEN d - BufferSize ELSE d

\* cache_fill's back, newb, space (before and after it is reduced) and back2
Back     == AtMost(AtLeast(snap - minPos, 0), BackSize)
Ahead    == AtLeast(maxPos - snap, 0)
\* Mutant: the bytes kept for seeking back are not subtracted.
FreeWithoutBack == BufferSize - Ahead
\* Mutant: the bytes the reader has not read yet are not subtracted.
FreeWithoutAhead == BufferSize - Back
Free     == BufferSize - (Ahead + Back)
Request  == AtMost(AtMost(Free, BufferSize - FillSlot(maxPos)), ReadChunk)
\* Mutant: the bytes about to be overwritten are not taken out of the window.
StaleMin == minPos
RaisedMin == AtLeast(minPos, snap - (BufferSize - (Request + Ahead)))
Slots(first, n) == first .. first + n - 1

\* Content is dropped "only if seeking backward or too much fwd".
MustDrop == snap < minPos \/ (snap > maxPos /\ snap >= maxPos + SeekLimit)

Snapshot ==
  /\ fpc = "snapshot"
  /\ snap' = readPos /\ fpc' = "checkEof"
  /\ UNCHANGED <<buffer, eof, space, len, fcmd, mainOwn, window, controls, source>>

CheckEof ==
  /\ fpc = "checkEof"
  /\ IF eof THEN fpc' = "sleep" /\ snap' = 0
            ELSE fpc' = (IF MustDrop THEN "dropMax" ELSE "plan") /\ UNCHANGED snap
  /\ UNCHANGED <<buffer, eof, space, len, fcmd, mainOwn, window, controls, source>>

\* offset = min_filepos = max_filepos = read: three stores, the last named first.
DropMax ==
  /\ fpc = "dropMax"
  /\ maxPos' = snap /\ fpc' = "dropMin"
  /\ UNCHANGED <<buffer, minPos, offset, eof, mainOwn, controls, locals, source>>

DropMin ==
  /\ fpc = "dropMin"
  /\ minPos' = snap /\ fpc' = "dropOffset"
  /\ UNCHANGED <<buffer, maxPos, offset, eof, mainOwn, controls, locals, source>>

DropOffset ==
  /\ fpc = "dropOffset"
  /\ offset' = snap /\ fpc' = "seeking"
  /\ UNCHANGED <<buffer, minPos, maxPos, eof, mainOwn, controls, locals, source>>

\* stream_reset and stream_seek_internal, whose result cache_fill ignores.
SeekSource ==
  /\ fpc = "seeking"
  /\ \/ srcPos' = snap
     \/ SeekMayFail /\ UNCHANGED srcPos
  /\ fpc' = "plan"
  /\ UNCHANGED <<buffer, eof, srcError, mainOwn, window, controls, locals>>

PlanFull ==
  /\ fpc = "plan" /\ Free < FillLimit
  /\ fpc' = "sleep" /\ snap' = 0
  /\ UNCHANGED <<buffer, eof, space, len, fcmd, mainOwn, window, controls, source>>

\* min_filepos is raised, then the source is asked to read into the ring buffer,
\* whose slots it overwrites at any time from now on.
StartRead ==
  /\ fpc = "plan" /\ Free >= FillLimit
  /\ minPos' = RaisedMin
  /\ space' = Request
  /\ buffer' = [i \in DOMAIN buffer |->
                  IF i \in Slots(FillSlot(maxPos), Request) THEN Junk ELSE buffer[i]]
  /\ fpc' = "reading"
  /\ UNCHANGED <<maxPos, offset, eof, snap, len, fcmd, mainOwn, controls, source>>

\* stream_read_internal returns data, possibly less than asked for.
ReadData ==
  /\ fpc = "reading"
  /\ \E n \in 1 .. AtMost(space, FileSize - srcPos) :
       LET first == FillSlot(maxPos)
       IN  /\ len' = n
           /\ buffer' = [i \in DOMAIN buffer |->
                           IF i \in Slots(first, n) THEN srcPos + (i - first) ELSE buffer[i]]
           /\ srcPos' = srcPos + n
  /\ fpc' = "publish"
  /\ UNCHANGED <<eof, snap, space, fcmd, srcError, mainOwn, window, controls>>

\* stream_read_internal returns 0: the end of the file, a lost connection, or
\* an I/O error, the first of which sets stream->error.
ReadNothing ==
  /\ fpc = "reading"
  /\ \/ srcPos >= FileSize /\ UNCHANGED srcError
     \/ ReadMayFail /\ srcError' \in {srcError, AtLeast(srcError, 1)}
  /\ fpc' = "noData"
  /\ UNCHANGED <<buffer, eof, srcPos, mainOwn, window, controls, locals>>

\* Once stream->error is set an empty read is retried as long as the cache holds 5% of
\* its size, ErrorLimit times at most.  srcError is capped: the code compares it with
\* ErrorLimit only.
GiveUp == srcError + 1 > ErrorLimit \/ (maxPos - readPos) * 100 < 5 * BufferSize
\* Mutant: an empty read is not recorded as the end of the file.
ForgetEof ==
  /\ fpc = "noData" /\ fpc' = "sleep" /\ snap' = 0 /\ space' = 0
  /\ UNCHANGED <<buffer, eof, len, fcmd, mainOwn, window, controls, source>>
NoData ==
  /\ fpc = "noData"
  /\ srcError' = IF srcError > 0 THEN AtMost(srcError + 1, ErrorLimit + 1) ELSE 0
  /\ eof' = IF srcError = 0 \/ GiveUp THEN TRUE ELSE eof
  /\ fpc' = "sleep" /\ snap' = 0 /\ space' = 0
  /\ UNCHANGED <<buffer, len, fcmd, srcPos, mainOwn, window, controls>>

PublishMax ==
  /\ fpc = "publish"
  /\ maxPos' = maxPos + len /\ fpc' = "wrap"
  /\ UNCHANGED <<buffer, minPos, offset, eof, mainOwn, controls, locals, source>>

WrapOffset ==
  /\ fpc = "wrap"
  /\ offset' = IF FillSlot(maxPos - len) + len >= BufferSize THEN offset + BufferSize ELSE offset
  /\ fpc' = "control" /\ snap' = 0 /\ space' = 0 /\ len' = 0
  /\ UNCHANGED <<buffer, minPos, maxPos, eof, fcmd, mainOwn, controls, source>>

WakeUp ==
  /\ fpc = "sleep" /\ fpc' = "control"
  /\ UNCHANGED <<buffer, eof, mainOwn, window, controls, locals, source>>

\* cache_mainloop's condition after a control that did not quit
LoopOrExit == IF Build = "gekko" /\ ~threadActive THEN "exit" ELSE "snapshot"

\* cache_execute_control: control is read four times.  A quit is obeyed when the first
\* reading finds it; between that and the second the source may be asked for its length.
\* Mutant: the request is not taken back once it has been served.
Unacknowledged ==
  /\ fpc = "control" /\ control = Quit
  /\ ctlRes' = "unsupported" /\ ctlNewPos' = 0
  /\ fpc' = "exit"
  /\ UNCHANGED <<buffer, eof, control, mainOwn, window, locals, source>>
ObeyQuit ==
  /\ fpc = "control" /\ control = Quit
  /\ control' = NoCmd /\ ctlRes' = "unsupported" /\ ctlNewPos' = 0
  /\ fpc' = "exit"
  /\ UNCHANGED <<buffer, eof, mainOwn, window, locals, source>>

PollLength ==
  /\ fpc = "control" /\ control # Quit
  /\ fpc' = "polling"
  /\ UNCHANGED <<buffer, eof, mainOwn, window, controls, locals, source>>

NoControl ==
  /\ fpc = "polling" /\ control = NoCmd
  /\ fpc' = LoopOrExit
  /\ UNCHANGED <<buffer, eof, mainOwn, window, controls, locals, source>>

\* control as memset left it, or a quit the first reading missed, which is lost.
RefuseControl ==
  /\ fpc = "polling" /\ control \in {Unset, Quit}
  /\ control' = NoCmd /\ ctlRes' = "unsupported" /\ ctlNewPos' = srcPos
  /\ fpc' = LoopOrExit
  /\ UNCHANGED <<buffer, eof, mainOwn, window, locals, source>>

StartControl ==
  /\ fpc = "polling" /\ control \in Commands
  /\ fcmd' = control /\ fpc' = "executing"
  /\ UNCHANGED <<buffer, eof, snap, space, len, mainOwn, window, controls, source>>

\* STREAM_OK and STREAM_ERROR are both "done": cache_do_control tells only
\* STREAM_UNSUPPORTED apart, so a failed seek moves the reader as well.
FinishControl ==
  /\ fpc = "executing"
  /\ \/ ctlRes' = "unsupported" /\ UNCHANGED srcPos
     \/ ctlRes' = "done" /\ UNCHANGED srcPos
     \/ ctlRes' = "done" /\ fcmd = "seek" /\ srcPos' \in JumpTargets
  /\ ctlNewPos' = srcPos'
  /\ control' = NoCmd
  /\ fcmd' = NoCmd /\ fpc' = LoopOrExit
  /\ UNCHANGED <<buffer, eof, snap, space, len, srcError, mainOwn, window>>

Filler ==
  \/ Snapshot \/ CheckEof \/ DropMax \/ DropMin \/ DropOffset \/ SeekSource
  \/ PlanFull \/ StartRead \/ ReadData \/ ReadNothing \/ NoData \/ PublishMax \/ WrapOffset
  \/ WakeUp \/ ObeyQuit \/ PollLength \/ NoControl \/ RefuseControl \/ StartControl \/ FinishControl

------------------------------------------------------------------------------
(* The main thread: the wait of stream_enable_cache, cache_stream_fill_buffer *)
(* and cache_stream_seek_long with cache_read in them, cache_do_control, and  *)
(* cache_uninit.                                                              *)

StartUninit ==
  /\ control' = Quit /\ mcmd' = Quit /\ mpc' = "awaitReply"
  /\ UNCHANGED <<eof, ctlRes, ctlNewPos, readPos, threadActive, want, newb, slot, goal, stream>>

Prefilled == readPos >= minPos /\ maxPos - readPos >= Prefill

EndPrefill ==
  /\ mpc = "prefill" /\ (Prefilled \/ eof)
  /\ mpc' = "idle"
  /\ UNCHANGED <<eof, controls, readPos, threadActive, want, newb, slot, mcmd, goal, stream>>

\* The player consumes bytes of stream_t.buffer, without the cache.
Consume ==
  /\ mpc = "idle"
  /\ bufPos' \in bufPos + 1 .. Len(sbuf)
  /\ UNCHANGED <<eof, controls, readPos, threadActive, calls, spos, seof, sbuf>>

FillBuffer ==
  /\ mpc = "idle" /\ bufPos = Len(sbuf)
  /\ mpc' = "checkMax" /\ want' = SectorSize /\ sbuf' = <<>>
  /\ UNCHANGED <<eof, controls, readPos, threadActive, newb, slot, mcmd, goal, spos, seof, bufPos>>

Aligned(pos) == (pos \div SectorSize) * SectorSize

\* stream_seek: within stream_t.buffer, or through cache_stream_seek_long.
InBuffer(pos) == pos < spos /\ pos >= spos - Len(sbuf)

SeekInBuffer(pos) ==
  /\ mpc = "idle" /\ InBuffer(pos)
  /\ bufPos' = pos - (spos - Len(sbuf))
  /\ UNCHANGED <<eof, controls, readPos, threadActive, calls, spos, seof, sbuf>>

SeekLong(pos) ==
  /\ mpc = "idle" /\ ~InBuffer(pos)
  /\ readPos' = Aligned(pos) /\ spos' = Aligned(pos) /\ goal' = pos - Aligned(pos)
  /\ mpc' = "clearEof"
  /\ UNCHANGED <<eof, controls, threadActive, want, newb, slot, mcmd, seof, bufPos, sbuf>>

ClearEof ==
  /\ mpc = "clearEof"
  /\ eof' = FALSE
  /\ mpc' = "checkMax" /\ want' = SectorSize /\ sbuf' = <<>>
  /\ UNCHANGED <<controls, readPos, threadActive, newb, slot, mcmd, goal, spos, seof, bufPos>>

CheckMax ==
  /\ mpc = "checkMax"
  /\ mpc' = IF readPos >= maxPos THEN "checkEof" ELSE "checkMin"
  /\ UNCHANGED <<eof, controls, readPos, threadActive, want, newb, slot, mcmd, goal, stream>>

\* Mutant: cache_read looks at the upper bound of the window only.
IgnoreMin ==
  /\ mpc = "checkMin" /\ mpc' = "measure"
  /\ UNCHANGED <<eof, controls, readPos, threadActive, want, newb, slot, mcmd, goal, stream>>
CheckMin ==
  /\ mpc = "checkMin"
  /\ mpc' = IF readPos < minPos THEN "checkEof" ELSE "measure"
  /\ UNCHANGED <<eof, controls, readPos, threadActive, want, newb, slot, mcmd, goal, stream>>

\* Nothing to read: give up at the end of the file, else sleep and look again.
\* Mutant: it gives up instead of looking again.
WaitNoMore ==
  /\ mpc = "checkEof" /\ mpc' = "return"
  /\ UNCHANGED <<eof, controls, readPos, threadActive, want, newb, slot, mcmd, goal, stream>>
WaitForData ==
  /\ mpc = "checkEof"
  /\ mpc' = IF eof THEN "return" ELSE "checkMax"
  /\ UNCHANGED <<eof, controls, readPos, threadActive, want, newb, slot, mcmd, goal, stream>>

\* Mutant: once there is any data, a whole sector is taken to be there.
MeasureSector ==
  /\ mpc = "measure"
  /\ newb' = want /\ mpc' = "locate"
  /\ UNCHANGED <<eof, controls, readPos, threadActive, want, slot, mcmd, goal, stream>>
Measure ==
  /\ mpc = "measure"
  /\ newb' = maxPos - readPos /\ mpc' = "locate"
  /\ UNCHANGED <<eof, controls, readPos, threadActive, want, slot, mcmd, goal, stream>>

Locate ==
  /\ mpc = "locate"
  /\ slot' = SlotOf(readPos)
  /\ newb' = AtMost(AtMost(newb, BufferSize - slot'), want)
  /\ mpc' = "copy"
  /\ UNCHANGED <<eof, controls, readPos, threadActive, want, mcmd, goal, stream>>

\* What memcpy finds at slot i, memory outside the ring buffer included
Contents(i) == IF i \in DOMAIN buffer THEN buffer[i] ELSE Junk

Copy ==
  /\ mpc = "copy"
  /\ sbuf' = sbuf \o [i \in 1 .. newb |-> Contents(slot + i - 1)]
  /\ mpc' = "advance"
  /\ UNCHANGED <<eof, controls, readPos, threadActive, want, newb, slot, mcmd, goal,
                 spos, seof, bufPos>>

Advance ==
  /\ mpc = "advance"
  /\ readPos' = readPos + newb /\ want' = want - newb
  /\ mpc' = IF want' > 0 THEN "checkMax" ELSE "return"
  /\ newb' = 0 /\ slot' = 0
  /\ UNCHANGED <<eof, controls, threadActive, mcmd, goal, stream>>

\* The end of cache_stream_fill_buffer and, for a seek, of cache_stream_seek_long
Return ==
  /\ mpc = "return"
  /\ spos' = spos + Len(sbuf) /\ seof' = (sbuf = <<>>)
  /\ bufPos' = IF goal \in 0 .. Len(sbuf) THEN goal ELSE 0
  /\ mpc' = "idle" /\ goal' = NoGoal /\ want' = 0
  /\ UNCHANGED <<eof, controls, readPos, threadActive, newb, slot, mcmd, sbuf>>

SendControl(c) ==
  /\ mpc = "idle"
  /\ control' = c /\ mcmd' = c /\ mpc' = "awaitReply"
  /\ UNCHANGED <<eof, ctlRes, ctlNewPos, readPos, threadActive, want, newb, slot, goal, stream>>

Uninit == mpc = "idle" /\ StartUninit

AfterControl == IF mcmd = Quit THEN "stop" ELSE "idle"

TakeReply ==
  /\ mpc = "awaitReply" /\ control = NoCmd
  /\ IF mcmd = "seek" /\ ctlRes # "unsupported"
     THEN readPos' = ctlNewPos /\ spos' = ctlNewPos
     ELSE UNCHANGED <<readPos, spos>>
  /\ mpc' = AfterControl /\ mcmd' = NoCmd
  /\ UNCHANGED <<eof, controls, threadActive, want, newb, slot, goal, seof, bufPos, sbuf>>

Stop ==
  /\ mpc = "stop"
  /\ IF Build = "gekko"
     THEN threadActive' = FALSE /\ mpc' = "join"
     ELSE mpc' = "freed" /\ UNCHANGED threadActive
  /\ UNCHANGED <<eof, controls, readPos, want, newb, slot, mcmd, goal, stream>>

Join ==
  /\ mpc = "join" /\ fpc = "exit"
  /\ mpc' = "freed"
  /\ UNCHANGED <<eof, controls, readPos, threadActive, want, newb, slot, mcmd, goal, stream>>

\* What the player decides to do between two calls
Player ==
  \/ Consume
  \/ FillBuffer
  \/ \E pos \in SeekTargets : SeekInBuffer(pos) \/ SeekLong(pos)
  \/ \E c \in Commands : SendControl(c)
  \/ Uninit

\* The steps of a call, which the thread takes by itself
Call ==
  \/ EndPrefill
  \/ ClearEof \/ CheckMax \/ CheckMin \/ WaitForData \/ Measure \/ Locate \/ Copy \/ Advance
  \/ Return \/ TakeReply \/ Stop \/ Join

\* stream_check_interrupt reports a command of the user while a call waits.
InterruptPrefill == mpc = "prefill" /\ ~Prefilled /\ ~eof /\ StartUninit

InterruptRead ==
  /\ mpc = "checkEof" /\ ~eof
  /\ eof' = TRUE /\ mpc' = "return"
  /\ UNCHANGED <<controls, readPos, threadActive, want, newb, slot, mcmd, goal, stream>>

\* The control stays where it is, for the filler to serve.
InterruptControl ==
  /\ mpc = "awaitReply" /\ control # NoCmd
  /\ eof' = TRUE /\ mpc' = AfterControl /\ mcmd' = NoCmd
  /\ UNCHANGED <<controls, readPos, threadActive, want, newb, slot, goal, stream>>

Interrupt == MayInterrupt /\ (InterruptPrefill \/ InterruptRead \/ InterruptControl)

Main == MainMayRun /\ (Player \/ Call \/ Interrupt) /\ UNCHANGED fillerOwn

Ended == mpc = "freed" /\ fpc = "exit" /\ UNCHANGED vars

Next == Filler \/ Main \/ Ended

Spec == Init /\ [][Next]_vars

\* Both threads are scheduled and the source's calls return.  Under GEKKO the main
\* thread is the one that runs whenever the filler sleeps, hence strong fairness.
FairSpec == Spec /\ WF_vars(Filler) /\ SF_vars(MainMayRun /\ Call /\ UNCHANGED fillerOwn)

------------------------------------------------------------------------------
(* Properties                                                              *)

FillerPlaces == {"snapshot", "checkEof", "dropMax", "dropMin", "dropOffset", "seeking", "plan",
                 "reading", "noData", "publish", "wrap", "sleep", "control", "polling", "executing",
                 "exit"}
MainPlaces == {"prefill", "idle", "clearEof", "checkMax", "checkMin", "checkEof", "measure",
               "locate", "copy", "advance", "return", "awaitReply", "stop", "join", "freed"}
InRead == mpc \in {"checkMax", "checkMin", "checkEof", "measure", "locate", "copy", "advance",
                  "return"}
Busy == InRead \/ mpc = "clearEof"
Replies == {"done", "unsupported"}

\* The variables keep their types, and cache_fill's and cache_read's lengths their ranges.
TypeOK ==
  /\ buffer \in [0 .. BufferSize - 1 -> Nat \cup {Junk}]
  /\ minPos \in Nat /\ maxPos \in Nat /\ offset \in Nat /\ readPos \in Nat
  /\ eof \in BOOLEAN /\ threadActive \in BOOLEAN
  /\ control \in Commands \cup {NoCmd, Unset, Quit} /\ ctlRes \in Replies /\ ctlNewPos \in Nat
  /\ srcPos \in Nat /\ srcError \in 0 .. ErrorLimit + 1
  /\ fpc \in FillerPlaces /\ snap \in Nat
  /\ space \in 0 .. BufferSize /\ len \in 0 .. BufferSize /\ fcmd \in Commands \cup {NoCmd}
  /\ mpc \in MainPlaces /\ want \in 0 .. SectorSize /\ newb \in Nat /\ slot \in 0 .. BufferSize - 1
  /\ mcmd \in Commands \cup {NoCmd, Quit} /\ goal \in -1 .. SectorSize - 1
  /\ spos \in Nat /\ seof \in BOOLEAN /\ bufPos \in 0 .. SectorSize
  /\ sbuf \in Seq(Nat \cup {Junk}) /\ Len(sbuf) <= SectorSize

\* "buffer contain only a part of the file, from min-max pos": outside the three stores that
\* drop the contents, every position of the window is where cache_read looks for it.
WindowHoldsFile ==
  fpc \notin {"dropMin", "dropOffset"} =>
    \A p \in minPos .. maxPos - 1 : SlotOf(p) \in 0 .. BufferSize - 1 /\ buffer[SlotOf(p)] = p

\* The bytes the player gets from its stream buffer are those of the file at the position
\* stream_tell reports, whatever it read, skipped or seeked before.
ReaderGetsFile ==
  mpc # "clearEof" =>
    \A i \in 1 .. Len(sbuf) : sbuf[i] = i - 1 + (IF Busy THEN spos ELSE spos - Len(sbuf))

\* For its reader the cache is the file stream it stands for.
File == INSTANCE FileStream WITH
          tell   <- spos + (IF Busy THEN AtLeast(goal, 0) ELSE bufPos - Len(sbuf)),
          unread <- IF Busy THEN <<>> ELSE SubSeq(sbuf, bufPos + 1, Len(sbuf)),
          busy   <- Busy
ImplementsFileStream == File!Spec

\* cache2.c "doesn't require locking": while the source writes into the ring buffer
\* the main thread copies no byte of that region.
NoRace ==
  fpc = "reading" /\ mpc = "copy"
    => Slots(FillSlot(maxPos), space) \cap Slots(slot, newb) = {}

\* A fill takes no more than what lies farther than back_size behind the reader.
BackBytesKept == [][StartRead /\ minPos' # minPos => snap - minPos' >= BackSize]_vars

InWindow == minPos <= readPos /\ readPos < maxPos

\* The byte the reader is about to read is not dropped while it waits or copies.
UnreadKept ==
  [][InWindow /\ readPos' = readPos => InWindow']_vars

\* A read or a seek that returns nothing, which its callers take for the end of the file,
\* has reached the end of the file.
EmptyReadMeansEof == mpc = "return" /\ sbuf = <<>> => readPos >= FileSize

\* Played from start to end, a read comes back short only when the source has delivered
\* everything, however late the main thread sees what the filler has stored.
EofComesFromSource == mpc = "return" /\ Len(sbuf) < SectorSize => srcPos >= FileSize

\* The wait of stream_enable_cache, every read and every seek, and cache_uninit return.
PrefillEnds == mpc = "prefill" ~> mpc # "prefill"
ReadReturns == mpc \in {"clearEof", "checkMax"} ~> mpc = "idle"
UninitEnds  == mcmd = Quit ~> mpc = "freed"
===============================================================================
