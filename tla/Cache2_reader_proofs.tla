------------------------- MODULE Cache2_reader_proofs -------------------------
(***************************************************************************)
(* What the main thread gets out of the cache under GEKKO, where the       *)
(* filler preempts it: the bytes of the file, and therefore the file       *)
(* stream of FileStream.  The argument rests on the window invariant of    *)
(* Cache2_proofs and on one fact of the scheduling: a position the main    *)
(* thread has found in the window stays there, because the filler takes    *)
(* its snapshot of readPos and raises minPos without being interrupted.    *)
(* At the end, a file played through without a seek, in either build.      *)
(***************************************************************************)
EXTENDS Cache2_proofs, SequenceTheorems

\* Where the main thread holds that readPos is in the window
Checked == {"measure", "locate", "copy", "advance"}
Dropping == {"dropMax", "dropMin", "dropOffset"}
\* Where a read is under way and nothing is copied but not counted
Reading == {"checkMax", "checkMin", "checkEof", "measure", "locate", "copy", "return"}

\* The main thread's own numbers: what is in stream_t.buffer, and what is still wanted.
StreamInv ==
  /\ mpc \in MainPlaces
  /\ sbuf \in Seq(Int) /\ spos \in Int /\ goal \in Int /\ bufPos \in Int
  /\ 0 <= bufPos /\ NoGoal <= goal /\ goal < SectorSize
  /\ Len(sbuf) <= SectorSize
  /\ mpc # "clearEof" /\ ~InRead => bufPos <= Len(sbuf) /\ goal = NoGoal
  /\ mpc \in Reading \ {"return"} => want + Len(sbuf) = SectorSize
  /\ mpc = "advance" => want - newb + Len(sbuf) = SectorSize
  /\ mcmd \in Commands \cup {NoCmd, Quit}

\* sbuf holds the bytes of the file from first on.
Delivered(first) ==
  /\ \A i \in 1 .. Len(sbuf) : sbuf[i] = first + i - 1
  /\ Len(sbuf) > 0 => first + Len(sbuf) <= FileSize

DeliveredInv ==
  /\ mpc \in Reading => readPos = spos + Len(sbuf) /\ Delivered(spos)
  /\ mpc = "advance" => readPos + newb = spos + Len(sbuf) /\ Delivered(spos)
  /\ mpc = "clearEof" => readPos = spos
  /\ mpc \notin Reading \cup {"advance", "clearEof"} =>
       readPos = spos /\ Delivered(spos - Len(sbuf))

\* The filler's snapshot is the reader's position until it acts on it, or the window was
\* emptied for the snapshot.
SnapInv ==
  /\ fpc \in {"checkEof"} \cup Dropping => snap = readPos
  /\ fpc = "dropMax" => MustDrop
  /\ fpc = "plan" => snap = readPos \/ (minPos = snap /\ maxPos = snap)

\* What the main thread has checked still holds.
CheckedInv ==
  /\ mpc = "checkMin" => readPos <= maxPos
  /\ mpc \in Checked => minPos <= readPos /\ readPos <= maxPos /\ fpc \notin Dropping
  /\ mpc \in {"locate", "copy", "advance"} => 0 <= newb /\ readPos + newb <= maxPos
  /\ mpc = "copy" =>
       /\ slot = SlotOf(readPos) /\ slot \in 0 .. BufferSize - 1
       /\ newb <= BufferSize - slot /\ newb <= want

ReaderInv == StreamInv /\ DeliveredInv /\ SnapInv /\ CheckedInv

\* Before the prefill the reader has read nothing.
LEMMA ReaderInit == Init => ReaderInv
<1> SUFFICES ASSUME Init PROVE ReaderInv
  OBVIOUS
<1>1. Len(sbuf) = 0 /\ sbuf \in Seq(Int)
  BY DEF Init
<1>2. StreamInv
  BY <1>1, GeometryAssumption
     DEF Init, StreamInv, MainPlaces, InRead, Reading, NoGoal, NoCmd
<1>3. DeliveredInv /\ SnapInv /\ CheckedInv
  BY <1>1 DEF Init, DeliveredInv, Delivered, Reading, SnapInv, Dropping, CheckedInv, Checked
<1> QED BY <1>2, <1>3 DEF ReaderInv

------------------------------------------------------------------------------
(* The steps of the filler *)

\* A step of the filler that leaves the window alone leaves the reader's checks valid.
LEMMA CheckedFrame ==
  ASSUME CheckedInv, UNCHANGED <<minPos, maxPos, offset, mainOwn>>,
         mpc \in Checked => fpc' \notin Dropping
  PROVE  CheckedInv'
  BY DEF CheckedInv, SlotOf, mainOwn, calls

\* A position of the window, or the one after it, does not change its slot when the
\* ring buffer wraps.
LEMMA WrapKeepsSlots ==
  ASSUME Ints, WindowInv, WrapOffset, NEW p \in Int, minPos <= p, p <= maxPos
  PROVE  SlotOf(p)' = SlotOf(p)
<1>1. Window(maxPos - len, maxPos)
  BY DEF WindowInv, WrapOffset
<1>2. FillSlot(maxPos - len) = maxPos - len - offset
  BY <1>1, BufferSizePositive DEF Window, FillSlot, Ints
<1>3. offset' = IF maxPos - offset >= BufferSize THEN offset + BufferSize ELSE offset
  BY <1>2 DEF WrapOffset, Ints
<1> QED BY <1>1, <1>3, BufferSizePositive DEF SlotOf, Window, Ints

\* The raised lower bound does not pass the snapshot, nor a window emptied for it.
LEMMA RaisedMinBelowSnap ==
  ASSUME Ints, Window(maxPos, maxPos)
  PROVE  RaisedMin <= snap \/ RaisedMin = minPos
<1>1. BackSize \in Int /\ BackSize >= 0
  BY BufferSizePositive, GeometryAssumption DEF BackSize
<1>2. ReadChunk \in Int
  BY GeometryAssumption DEF ReadChunk
<1>3. /\ Back \in Int /\ Back >= 0
      /\ Ahead \in Int /\ Ahead >= 0
      /\ Free \in Int /\ Free = BufferSize - (Ahead + Back)
  BY <1>1, BufferSizePositive DEF Free, Back, Ahead, AtLeast, AtMost, Ints
<1>4. FillSlot(maxPos) \in Int
  BY NextSlot DEF Ints
<1>5. Request \in Int /\ Request <= Free
  BY <1>2, <1>3, <1>4, BufferSizePositive DEF Request, AtMost
<1> QED BY <1>3, <1>5, BufferSizePositive DEF RaisedMin, AtLeast, Ints

\* The filler writes nothing of the main thread's.
LEMMA FillerLeavesMain ==
  ASSUME Filler
  PROVE  UNCHANGED mainOwn /\ (StreamInv => StreamInv') /\ (DeliveredInv => DeliveredInv')
<1>1. UNCHANGED mainOwn
  BY DEF Filler, Snapshot, CheckEof, DropMax, DropMin, DropOffset, SeekSource, PlanFull,
         StartRead, ReadData, ReadNothing, NoData, PublishMax, WrapOffset, WakeUp, ObeyQuit,
         PollLength, NoControl, RefuseControl, StartControl, FinishControl
<1>2. StreamInv => StreamInv'
  BY <1>1 DEF StreamInv, InRead, mainOwn, calls, stream
<1>3. DeliveredInv => DeliveredInv'
  BY <1>1 DEF DeliveredInv, Delivered, mainOwn, calls, stream
<1> QED BY <1>1, <1>2, <1>3

\* No step of the filler takes away what the reader has checked, measured or located.
LEMMA ReaderFiller ==
  ASSUME Ints, WindowInv, ReaderInv, SourceObeys, Filler PROVE ReaderInv'
<1>1. UNCHANGED mainOwn
  BY FillerLeavesMain
<1>2. StreamInv' /\ DeliveredInv'
  BY FillerLeavesMain DEF ReaderInv
<1>3. SnapInv' /\ CheckedInv'
  <2>0. SnapInv /\ CheckedInv
    BY DEF ReaderInv
  <2>1. CASE Snapshot
    <3>1. UNCHANGED <<minPos, maxPos, offset>> /\ fpc' = "checkEof" /\ snap' = readPos
      BY <2>1 DEF Snapshot, window
    <3> QED BY <1>1, <2>0, <3>1, CheckedFrame DEF SnapInv, Dropping, mainOwn
  <2>2. CASE CheckEof
    <3>1. UNCHANGED <<minPos, maxPos, offset>>
      BY <2>2 DEF CheckEof, window
    <3>2. snap = readPos
      BY <2>0, <2>2 DEF CheckEof, SnapInv
    <3>3. \/ fpc' = "sleep"
          \/ fpc' = "dropMax" /\ MustDrop /\ snap' = snap
          \/ fpc' = "plan" /\ snap' = snap
      BY <2>2 DEF CheckEof
    <3>4. mpc \in Checked => fpc' \notin Dropping
      BY <2>0, <3>2, <3>3 DEF CheckedInv, MustDrop, Dropping, Ints
    <3>5. MustDrop /\ snap' = snap => MustDrop'
      BY <3>1 DEF MustDrop
    <3>6. CheckedInv'
      BY <1>1, <2>0, <3>1, <3>4, CheckedFrame
    <3>7. readPos' = readPos
      BY <1>1 DEF mainOwn
    <3>8. SnapInv'
      BY <3>2, <3>3, <3>5, <3>7 DEF SnapInv, Dropping
    <3> QED BY <3>6, <3>8
  <2>3. CASE DropMax
    <3>1. mpc \notin Checked /\ snap = readPos
      BY <2>0, <2>3 DEF DropMax, CheckedInv, SnapInv, Dropping
    <3>2. maxPos' = snap /\ fpc' = "dropMin" /\ snap' = snap
      BY <2>3 DEF DropMax, locals
    <3> QED BY <1>1, <3>1, <3>2
            DEF SnapInv, CheckedInv, Checked, Dropping, mainOwn, calls, Ints
  <2>4. CASE DropMin
    <3>1. UNCHANGED <<maxPos, snap>> /\ fpc' = "dropOffset"
      BY <2>4 DEF DropMin, locals
    <3>2. mpc \notin Checked /\ snap = readPos
      BY <2>0, <2>4 DEF DropMin, CheckedInv, SnapInv, Dropping
    <3> QED BY <1>1, <2>0, <3>1, <3>2
            DEF SnapInv, CheckedInv, Checked, Dropping, mainOwn, calls
  <2>5. CASE DropOffset
    <3>1. UNCHANGED <<maxPos, snap>> /\ fpc' = "seeking"
      BY <2>5 DEF DropOffset, locals
    <3>2. mpc \notin Checked
      BY <2>0, <2>5 DEF DropOffset, CheckedInv, Dropping
    <3> QED BY <1>1, <2>0, <3>1, <3>2
            DEF SnapInv, CheckedInv, Checked, Dropping, mainOwn, calls
  <2>6. CASE SeekSource
    <3>1. UNCHANGED <<minPos, maxPos, offset, snap>> /\ fpc' = "plan"
      BY <2>6 DEF SeekSource, window, locals
    <3>2. minPos = snap /\ maxPos = snap
      BY <2>6 DEF SeekSource, WindowInv
    <3> QED BY <1>1, <2>0, <3>1, <3>2, CheckedFrame DEF SnapInv, Dropping
  <2>7. CASE StartRead
    <3>1. Window(maxPos, maxPos)
      BY <2>7 DEF StartRead, WindowInv, Whole
    <3>2. fpc' = "reading" /\ minPos' = RaisedMin /\ UNCHANGED <<maxPos, offset>>
      BY <2>7 DEF StartRead
    <3>3. mpc \in Checked => minPos' <= readPos
      <4>1. snap = readPos \/ (minPos = snap /\ maxPos = snap)
        BY <2>0, <2>7 DEF StartRead, SnapInv
      <4> QED BY <2>0, <3>1, <3>2, <4>1, RaisedMinBelowSnap DEF CheckedInv, Ints
    <3> QED BY <1>1, <2>0, <3>2, <3>3
            DEF SnapInv, CheckedInv, Checked, Dropping, SlotOf, mainOwn, calls
  <2>8. CASE PublishMax
    <3>1. Window(maxPos, maxPos + len)
      BY <2>8 DEF PublishMax, WindowInv
    <3>2. fpc' = "wrap" /\ maxPos' >= maxPos /\ UNCHANGED <<minPos, offset>>
      BY <2>8, <3>1 DEF PublishMax, Window, Ints
    <3>3. maxPos' \in Int
      BY <2>8 DEF PublishMax, Ints
    <3> QED BY <1>1, <2>0, <3>2, <3>3
            DEF SnapInv, CheckedInv, Checked, Dropping, SlotOf, mainOwn, calls, Ints
  <2>9. CASE WrapOffset
    <3>1. fpc' = "control" /\ UNCHANGED <<minPos, maxPos>>
      BY <2>9 DEF WrapOffset
    <3>2. mpc = "copy" => SlotOf(readPos)' = SlotOf(readPos)
      <4> SUFFICES ASSUME mpc = "copy" PROVE SlotOf(readPos)' = SlotOf(readPos)
        OBVIOUS
      <4>1. minPos <= readPos /\ readPos <= maxPos /\ readPos \in Int
        BY <2>0 DEF CheckedInv, Checked, Ints
      <4>2. readPos' = readPos
        BY <1>1 DEF mainOwn
      <4> QED BY <2>9, <4>1, <4>2, WrapKeepsSlots DEF SlotOf
    <3> QED BY <1>1, <2>0, <3>1, <3>2
            DEF SnapInv, CheckedInv, Checked, Dropping, mainOwn, calls
  <2>10. CASE PlanFull \/ ReadData \/ ReadNothing \/ NoData \/ WakeUp \/ ObeyQuit
              \/ PollLength \/ NoControl \/ RefuseControl \/ StartControl \/ FinishControl
    <3>1. UNCHANGED <<minPos, maxPos, offset>>
      BY <2>10 DEF PlanFull, ReadData, ReadNothing, NoData, WakeUp, ObeyQuit,
         PollLength, NoControl, RefuseControl, StartControl, FinishControl, window
    <3>2. fpc' \notin {"checkEof", "plan"} \cup Dropping
      BY <2>10 DEF PlanFull, ReadData, ReadNothing, NoData, WakeUp, ObeyQuit,
         PollLength, NoControl, RefuseControl, StartControl, FinishControl, LoopOrExit, Dropping
    <3> QED BY <1>1, <2>0, <3>1, <3>2, CheckedFrame DEF SnapInv, Dropping
  <2> QED BY <2>1, <2>2, <2>3, <2>4, <2>5, <2>6, <2>7, <2>8, <2>9, <2>10, Filler DEF Filler
<1> QED BY <1>2, <1>3 DEF ReaderInv

------------------------------------------------------------------------------
(* The steps of the main thread *)

\* A position of the window, or the one after it, has a slot, and the bytes from it on that
\* neither pass the end of the window nor the end of the ring buffer are in the slots that
\* follow.
SlotsServe ==
  minPos <= readPos /\ readPos <= maxPos =>
    /\ SlotOf(readPos) \in 0 .. BufferSize - 1
    /\ \A k \in Nat :
         readPos + k < maxPos /\ SlotOf(readPos) + k < BufferSize
           => Contents(SlotOf(readPos) + k) = readPos + k /\ maxPos <= FileSize

\* Where a filler of higher priority can be when the main thread runs.
LEMMA BlockedPlaces ==
  ASSUME Build = "gekko", WindowInv, Main
  PROVE  /\ fpc \notin {"checkEof", "plan"} \cup Dropping
         /\ \/ Window(maxPos, maxPos)
            \/ fpc = "seeking" /\ minPos = snap /\ maxPos = snap /\ offset = snap
         /\ UNCHANGED fillerOwn
  BY DEF Main, MainMayRun, Blocked, Dropping, WindowInv, Whole

\* The main thread of GEKKO runs when the window is whole, or empty for a seek.
LEMMA CopyFindsFile ==
  ASSUME Build = "gekko", Ints, WindowInv, Main PROVE SlotsServe
<1> SUFFICES ASSUME minPos <= readPos, readPos <= maxPos
             PROVE  /\ SlotOf(readPos) \in 0 .. BufferSize - 1
                    /\ \A k \in Nat :
                         readPos + k < maxPos /\ SlotOf(readPos) + k < BufferSize
                           => Contents(SlotOf(readPos) + k) = readPos + k /\ maxPos <= FileSize
  BY DEF SlotsServe
<1>1. CASE Window(maxPos, maxPos)
  <2>1. \/ offset <= readPos /\ SlotOf(readPos) = readPos - offset
        \/ readPos < offset /\ SlotOf(readPos) = readPos - offset + BufferSize
    BY <1>1, BufferSizePositive DEF SlotOf, Window, Ints
  <2>2. SlotOf(readPos) \in 0 .. BufferSize - 1
    BY <1>1, <2>1, BufferSizePositive DEF Window, Ints
  <2>3. ASSUME NEW k \in Nat, readPos + k < maxPos, SlotOf(readPos) + k < BufferSize
        PROVE  Contents(SlotOf(readPos) + k) = readPos + k /\ maxPos <= FileSize
    <3>1. SlotOf(readPos + k) = SlotOf(readPos) + k
      BY <1>1, <2>1, <2>3, BufferSizePositive DEF SlotOf, Window, Ints
    <3>2. /\ SlotOf(readPos + k) \in 0 .. BufferSize - 1
          /\ buffer[SlotOf(readPos + k)] = readPos + k
      BY <1>1, <2>3 DEF Window, Holds, Ints
    <3>3. maxPos <= FileSize
      BY <1>1, <2>3 DEF Window, Ints
    <3> QED BY <3>1, <3>2, <3>3 DEF Contents, Ints
  <2> QED BY <2>2, <2>3
<1>2. CASE fpc = "seeking" /\ minPos = snap /\ maxPos = snap /\ offset = snap
  BY <1>2, BufferSizePositive DEF SlotOf, Ints
<1> QED BY <1>1, <1>2, BlockedPlaces

\* Places of the main thread where it neither reads nor has a read begun
AtRest == MainPlaces \ (Checked \cup Reading \cup {"checkMin", "clearEof"})

\* Steps that keep the stream buffer and lead to a place of rest.
LEMMA RestingStep ==
  ASSUME StreamInv, DeliveredInv, mpc \in AtRest, mpc' \in AtRest, mpc' # "advance",
         0 <= bufPos', bufPos' <= Len(sbuf), bufPos' \in Int,
         mcmd' \in Commands \cup {NoCmd, Quit},
         UNCHANGED <<sbuf, spos, readPos, goal>>
  PROVE  StreamInv' /\ DeliveredInv' /\ CheckedInv'
<1>1. mpc \notin Reading \cup {"advance", "clearEof", "checkMin"} \cup Checked
  BY DEF AtRest, Checked
<1>2. mpc' \notin Reading \cup {"advance", "clearEof", "checkMin"} \cup Checked
      /\ mpc' \in MainPlaces
  BY DEF AtRest, Checked
<1>3. StreamInv'
  <2>1. goal = NoGoal
    BY <1>1 DEF StreamInv, InRead, Reading
  <2> QED BY <1>2, <2>1 DEF StreamInv
<1>4. DeliveredInv'
  BY <1>1, <1>2 DEF DeliveredInv, Delivered
<1>5. CheckedInv'
  BY <1>2 DEF CheckedInv, Reading
<1> QED BY <1>3, <1>4, <1>5

\* Steps of cache_read that copy nothing and count nothing.
LEMMA ReadingStep ==
  ASSUME StreamInv, DeliveredInv, mpc \in Reading \ {"return"}, mpc' \in Reading,
         UNCHANGED <<sbuf, spos, readPos, goal, bufPos, want, mcmd>>
  PROVE  StreamInv' /\ DeliveredInv'
<1>1. mpc' \in MainPlaces /\ InRead' /\ mpc' # "advance" /\ mpc' # "clearEof"
      /\ mpc # "advance" /\ mpc # "clearEof"
  BY DEF Reading, MainPlaces, InRead
<1>2. StreamInv'
  BY <1>1 DEF StreamInv
<1>3. DeliveredInv'
  BY <1>1 DEF DeliveredInv, Delivered
<1> QED BY <1>2, <1>3

\* The player's decisions start from a stream buffer in order and leave one.
LEMMA ReaderPlayer ==
  ASSUME Ints, StreamInv, DeliveredInv, CheckedInv, Player
  PROVE  StreamInv' /\ DeliveredInv' /\ CheckedInv'
<1>1. CASE Consume
  <2>1. mpc = "idle" /\ bufPos' \in bufPos + 1 .. Len(sbuf)
        /\ UNCHANGED <<mpc, mcmd, sbuf, spos, readPos, goal>>
    BY <1>1 DEF Consume, calls
  <2>2. bufPos' \in Int /\ 0 <= bufPos' /\ bufPos' <= Len(sbuf)
    BY <2>1 DEF StreamInv
  <2> QED BY <2>1, <2>2, RestingStep DEF StreamInv, AtRest, MainPlaces, Checked, Reading
<1>2. CASE FillBuffer
  <2>1. /\ mpc = "idle" /\ mpc' = "checkMax" /\ want' = SectorSize /\ sbuf' = <<>>
        /\ UNCHANGED <<readPos, mcmd, goal, spos, bufPos>>
    BY <1>2 DEF FillBuffer
  <2> QED BY <2>1, GeometryAssumption
          DEF StreamInv, DeliveredInv, Delivered, CheckedInv, Checked, Reading, InRead,
              MainPlaces, Ints
<1>3. ASSUME NEW pos \in SeekTargets, SeekInBuffer(pos)
      PROVE  StreamInv' /\ DeliveredInv' /\ CheckedInv'
  <2>1. mpc = "idle" /\ InBuffer(pos) /\ bufPos' = pos - (spos - Len(sbuf))
        /\ UNCHANGED <<mpc, mcmd, sbuf, spos, readPos, goal>>
    BY <1>3 DEF SeekInBuffer, calls
  <2>2. pos \in Int
    BY ONLY CacheAssumption, pos \in SeekTargets
  <2>3. bufPos' \in Int /\ 0 <= bufPos' /\ bufPos' <= Len(sbuf)
    BY <2>1, <2>2 DEF StreamInv, InBuffer
  <2> QED BY <2>1, <2>3, RestingStep DEF StreamInv, AtRest, MainPlaces, Checked, Reading
<1>4. ASSUME NEW pos \in SeekTargets, SeekLong(pos)
      PROVE  StreamInv' /\ DeliveredInv' /\ CheckedInv'
  <2>1. /\ mpc = "idle" /\ mpc' = "clearEof" /\ readPos' = Aligned(pos)
        /\ spos' = Aligned(pos) /\ goal' = pos - Aligned(pos)
        /\ UNCHANGED <<mcmd, bufPos, sbuf>>
    BY <1>4 DEF SeekLong
  <2>2. Aligned(pos) \in Int /\ goal' \in 0 .. SectorSize - 1
    BY <2>1, AlignedIsSector
  <2> QED BY <2>1, <2>2, GeometryAssumption
          DEF StreamInv, DeliveredInv, CheckedInv, Checked, Reading, InRead, MainPlaces, NoGoal
<1>5. ASSUME NEW c \in Commands, SendControl(c)
      PROVE  StreamInv' /\ DeliveredInv' /\ CheckedInv'
  <2>1. /\ mpc = "idle" /\ mpc' = "awaitReply" /\ mcmd' = c
        /\ UNCHANGED <<readPos, goal, spos, bufPos, sbuf>>
    BY <1>5 DEF SendControl, stream
  <2> QED BY <2>1, RestingStep DEF StreamInv, AtRest, MainPlaces, Checked, Reading, InRead
<1>6. CASE Uninit
  <2>1. /\ mpc = "idle" /\ mpc' = "awaitReply" /\ mcmd' = Quit
        /\ UNCHANGED <<readPos, goal, spos, bufPos, sbuf>>
    BY <1>6 DEF Uninit, StartUninit, stream
  <2> QED BY <2>1, RestingStep DEF StreamInv, AtRest, MainPlaces, Checked, Reading, InRead
<1> QED BY <1>1, <1>2, <1>3, <1>4, <1>5, <1>6, Player DEF Player

\* Every step of cache_read, of a seek and of a control keeps the reader's invariant.
LEMMA ReaderCall ==
  ASSUME Ints, SourceObeys, StreamInv, DeliveredInv, CheckedInv, SlotsServe,
         fpc \notin Dropping, Call, UNCHANGED fillerOwn
  PROVE  StreamInv' /\ DeliveredInv' /\ CheckedInv'
<1>0. /\ fpc \notin Dropping
      /\ UNCHANGED <<buffer, minPos, maxPos, offset, fpc>>
  BY DEF fillerOwn, window
<1>1. CASE EndPrefill
  <2>1. mpc = "prefill" /\ mpc' = "idle"
        /\ UNCHANGED <<mcmd, sbuf, spos, readPos, goal, bufPos>>
    BY <1>1 DEF EndPrefill, stream
  <2> QED BY <2>1, RestingStep DEF StreamInv, AtRest, MainPlaces, Checked, Reading, InRead
<1>2. CASE ClearEof
  <2>1. /\ mpc = "clearEof" /\ mpc' = "checkMax" /\ want' = SectorSize /\ sbuf' = <<>>
        /\ UNCHANGED <<readPos, mcmd, goal, spos, bufPos>>
    BY <1>2 DEF ClearEof
  <2> QED BY <2>1, GeometryAssumption
          DEF StreamInv, DeliveredInv, Delivered, CheckedInv, Checked, Reading, InRead,
              MainPlaces, Ints
<1>3. CASE CheckMax
  <2>1. /\ mpc = "checkMax" /\ mpc' = IF readPos >= maxPos THEN "checkEof" ELSE "checkMin"
        /\ UNCHANGED <<sbuf, spos, readPos, goal, bufPos, want, mcmd>>
    BY <1>3 DEF CheckMax, stream
  <2>2. CASE readPos >= maxPos
    <3>1. mpc' = "checkEof"
      BY <2>1, <2>2
    <3> QED BY <2>1, <3>1, ReadingStep DEF Reading, CheckedInv, Checked
  <2>3. CASE ~(readPos >= maxPos)
    <3>1. mpc' = "checkMin"
      BY <2>1, <2>3
    <3>2. readPos' <= maxPos'
      BY <1>0, <2>1, <2>3 DEF Ints
    <3> QED BY <2>1, <3>1, <3>2, ReadingStep DEF Reading, CheckedInv, Checked
  <2> QED BY <2>2, <2>3
<1>4. CASE CheckMin
  <2>1. /\ mpc = "checkMin" /\ mpc' = IF readPos < minPos THEN "checkEof" ELSE "measure"
        /\ UNCHANGED <<sbuf, spos, readPos, goal, bufPos, want, mcmd>>
    BY <1>4 DEF CheckMin, stream
  <2>2. CASE readPos < minPos
    <3>1. mpc' = "checkEof"
      BY <2>1, <2>2
    <3> QED BY <2>1, <3>1, ReadingStep DEF Reading, CheckedInv, Checked
  <2>3. CASE ~(readPos < minPos)
    <3>1. mpc' = "measure"
      BY <2>1, <2>3
    <3>2. minPos' <= readPos' /\ readPos' <= maxPos' /\ fpc' \notin Dropping
      BY <1>0, <2>1, <2>3 DEF Ints, CheckedInv
    <3> QED BY <2>1, <3>1, <3>2, ReadingStep DEF Reading, CheckedInv, Checked
  <2> QED BY <2>2, <2>3
<1>5. CASE WaitForData
  <2>1. mpc = "checkEof" /\ mpc' \in {"return", "checkMax"}
        /\ UNCHANGED <<sbuf, spos, readPos, goal, bufPos, want, mcmd>>
    BY <1>5 DEF WaitForData, stream
  <2> QED BY <2>1, ReadingStep DEF Reading, CheckedInv, Checked
<1>6. CASE Measure
  <2>1. mpc = "measure" /\ mpc' = "locate" /\ newb' = maxPos - readPos
        /\ UNCHANGED <<sbuf, spos, readPos, goal, bufPos, want, mcmd>>
    BY <1>6 DEF Measure, stream
  <2>2. StreamInv' /\ DeliveredInv'
    BY <2>1, ReadingStep DEF Reading
  <2> QED BY <1>0, <2>1, <2>2 DEF CheckedInv, Checked, Ints
<1>7. CASE Locate
  <2>1. /\ mpc = "locate" /\ mpc' = "copy" /\ slot' = SlotOf(readPos)
        /\ newb' = AtMost(AtMost(newb, BufferSize - slot'), want)
        /\ UNCHANGED <<sbuf, spos, readPos, goal, bufPos, want, mcmd>>
    BY <1>7 DEF Locate, stream
  <2>2. StreamInv' /\ DeliveredInv'
    BY <2>1, ReadingStep DEF Reading
  <2>3. /\ minPos <= readPos /\ readPos <= maxPos /\ 0 <= newb /\ readPos + newb <= maxPos
    BY <2>1 DEF CheckedInv, Checked
  <2>4. slot' \in 0 .. BufferSize - 1 /\ slot' = SlotOf(readPos)'
    BY <1>0, <2>1, <2>3 DEF SlotOf, SlotsServe
  <2>5. want \in Int /\ 0 <= want
    BY <2>1, GeometryAssumption DEF StreamInv, Reading, Ints
  <2>6. 0 <= newb' /\ newb' <= newb /\ newb' <= BufferSize - slot' /\ newb' <= want
        /\ newb' \in Int
    BY <2>1, <2>3, <2>4, <2>5, BufferSizePositive DEF AtMost, Ints
  <2> QED BY <1>0, <2>1, <2>2, <2>3, <2>4, <2>6 DEF CheckedInv, Checked, Ints
<1>8. CASE Copy
  <2> DEFINE copied == [i \in 1 .. newb |-> Contents(slot + i - 1)]
  <2>1. /\ mpc = "copy" /\ mpc' = "advance" /\ sbuf' = sbuf \o copied
        /\ UNCHANGED <<spos, readPos, goal, bufPos, want, newb, mcmd>>
    BY <1>8 DEF Copy
  <2>2. /\ minPos <= readPos /\ readPos <= maxPos /\ newb \in Nat /\ readPos + newb <= maxPos
        /\ slot = SlotOf(readPos) /\ slot \in 0 .. BufferSize - 1
        /\ newb <= BufferSize - slot /\ newb <= want
    BY <2>1 DEF CheckedInv, Checked, Ints
  <2>3. ASSUME NEW i \in 1 .. newb
        PROVE  Contents(slot + i - 1) = readPos + i - 1 /\ readPos + newb <= FileSize
    <3>1. i - 1 \in Nat /\ readPos + (i - 1) < maxPos /\ SlotOf(readPos) + (i - 1) < BufferSize
      BY <2>2, <2>3, BufferSizePositive DEF Ints
    <3>2. Contents(SlotOf(readPos) + (i - 1)) = readPos + (i - 1) /\ maxPos <= FileSize
      BY <2>2, <3>1 DEF SlotsServe
    <3>3. slot + i - 1 = SlotOf(readPos) + (i - 1)
      BY <2>2
    <3> QED BY <2>2, <3>2, <3>3, CacheAssumption DEF Ints
  <2>4. copied \in Seq(Int) /\ Len(copied) = newb
        /\ \A i \in 1 .. newb : copied[i] = readPos + i - 1
    BY <2>2, <2>3 DEF Ints
  <2> HIDE DEF copied
  <2>5. readPos = spos + Len(sbuf) /\ Delivered(spos) /\ want + Len(sbuf) = SectorSize
    BY <2>1 DEF DeliveredInv, StreamInv, Reading
  <2>6. sbuf' \in Seq(Int) /\ Len(sbuf') = Len(sbuf) + newb
    <3>1. sbuf \in Seq(Int) /\ copied \in Seq(Int) /\ Len(copied) = newb
      BY <2>4 DEF StreamInv
    <3>2. sbuf' = sbuf \o copied
      BY <2>1
    <3> QED BY <3>1, <3>2, ConcatProperties
  <2>7. ASSUME NEW i \in 1 .. Len(sbuf') PROVE sbuf'[i] = spos + i - 1
    <3>1. CASE i <= Len(sbuf)
      BY <2>1, <2>4, <2>5, <2>6, <3>1 DEF StreamInv, Delivered
    <3>2. CASE i > Len(sbuf)
      <4>1. sbuf'[i] = copied[i - Len(sbuf)] /\ i - Len(sbuf) \in 1 .. newb
        BY <2>1, <2>2, <2>4, <2>6, <3>2 DEF StreamInv
      <4> QED BY <2>4, <2>5, <4>1 DEF StreamInv
    <3> QED BY <3>1, <3>2 DEF StreamInv
  <2>8. Delivered(spos)'
    <3>1. Len(sbuf') > 0 => spos + Len(sbuf') <= FileSize
      <4>1. CASE newb = 0
        BY <2>5, <2>6, <4>1 DEF Delivered, StreamInv
      <4>2. CASE newb > 0
        <5>1. readPos + newb <= FileSize
          <6>1. 1 \in 1 .. newb
            BY <2>2, <4>2
          <6> QED BY <2>3, <6>1
        <5>2. spos + Len(sbuf') = readPos + newb
          BY <2>2, <2>5, <2>6 DEF StreamInv, Ints
        <5> QED BY <5>1, <5>2
      <4> QED BY <2>2, <4>1, <4>2
    <3> QED BY <2>1, <2>7, <3>1 DEF Delivered
  <2>9. Len(sbuf') <= SectorSize
    BY <2>2, <2>5, <2>6, GeometryAssumption DEF StreamInv, Ints
  <2>10. StreamInv'
    <3>1. want' - newb' + Len(sbuf') = SectorSize
      <4>1. want \in Int /\ newb \in Int /\ Len(sbuf) \in Int
        BY <2>2 DEF StreamInv, Ints
      <4>2. want' = want /\ newb' = newb /\ Len(sbuf') = Len(sbuf) + newb
        BY <2>1, <2>6
      <4> QED BY <2>5, <4>1, <4>2
    <3>2. mpc' \in MainPlaces /\ InRead' /\ mpc' \notin Reading
      BY <2>1 DEF Reading, InRead, MainPlaces
    <3>3. UNCHANGED <<spos, goal, bufPos, mcmd>>
      BY <2>1
    <3>4. /\ spos' \in Int /\ goal' \in Int /\ bufPos' \in Int
          /\ 0 <= bufPos' /\ NoGoal <= goal' /\ goal' < SectorSize
          /\ mcmd' \in Commands \cup {NoCmd, Quit}
      BY <3>3 DEF StreamInv
    <3> QED BY <2>6, <2>9, <3>1, <3>2, <3>4 DEF StreamInv
  <2>11. DeliveredInv'
    BY <2>1, <2>5, <2>6, <2>8 DEF DeliveredInv, Reading, StreamInv, Ints
  <2> QED BY <1>0, <2>1, <2>2, <2>10, <2>11 DEF CheckedInv, Checked
<1>9. CASE Advance
  <2>1. /\ mpc = "advance" /\ readPos' = readPos + newb /\ want' = want - newb
        /\ mpc' \in {"checkMax", "return"}
        /\ UNCHANGED <<mcmd, goal, spos, bufPos, sbuf>>
    BY <1>9 DEF Advance, stream
  <2>2. StreamInv'
    BY <2>1 DEF StreamInv, Reading, InRead, MainPlaces, Ints
  <2>3. DeliveredInv'
    BY <2>1 DEF DeliveredInv, Delivered, Reading
  <2> QED BY <2>1, <2>2, <2>3 DEF CheckedInv, Checked
<1>10. CASE Return
  <2>1. /\ mpc = "return" /\ mpc' = "idle" /\ spos' = spos + Len(sbuf)
        /\ bufPos' = IF goal \in 0 .. Len(sbuf) THEN goal ELSE 0
        /\ goal' = NoGoal /\ UNCHANGED <<readPos, mcmd, sbuf>>
    BY <1>10 DEF Return
  <2>2. bufPos' \in 0 .. Len(sbuf) /\ Len(sbuf) \in Nat
    BY <2>1 DEF StreamInv
  <2>3. StreamInv'
    BY <2>1, <2>2, GeometryAssumption DEF StreamInv, Reading, InRead, MainPlaces, NoGoal
  <2>4. spos' - Len(sbuf') = spos
    BY <2>1 DEF StreamInv
  <2>5. DeliveredInv'
    BY <2>1, <2>4 DEF DeliveredInv, Delivered, Reading
  <2> QED BY <2>1, <2>3, <2>5 DEF CheckedInv, Checked
<1>11. CASE TakeReply
  <2>1. mpc = "awaitReply" /\ mpc' \in {"stop", "idle"} /\ mcmd' = NoCmd
        /\ UNCHANGED <<goal, bufPos, sbuf>>
    BY <1>11 DEF TakeReply, AfterControl
  <2>2. UNCHANGED <<readPos, spos>>
    <3>1. mcmd # "seek"
      BY DEF StreamInv, SourceObeys, NoCmd, Quit
    <3> QED BY <1>11, <3>1 DEF TakeReply
  <2> QED BY <2>1, <2>2, RestingStep
          DEF StreamInv, AtRest, MainPlaces, Checked, Reading, InRead
<1>12. CASE Stop \/ Join
  <2>1. mpc \in {"stop", "join"} /\ mpc' \in {"join", "freed"}
        /\ UNCHANGED <<mcmd, readPos, goal, spos, bufPos, sbuf>>
    BY <1>12 DEF Stop, Join, stream
  <2> QED BY <2>1, RestingStep DEF StreamInv, AtRest, MainPlaces, Checked, Reading, InRead
<1> QED BY <1>1, <1>2, <1>3, <1>4, <1>5, <1>6, <1>7, <1>8, <1>9, <1>10, <1>11, <1>12,
           Call DEF Call

\* A user's command that cuts a wait short leaves the stream buffer in order.
LEMMA ReaderInterrupt ==
  ASSUME StreamInv, DeliveredInv, CheckedInv, Interrupt
  PROVE  StreamInv' /\ DeliveredInv' /\ CheckedInv'
<1>1. CASE mpc = "prefill"
  <2>1. mpc' = "awaitReply" /\ mcmd' = Quit
        /\ UNCHANGED <<sbuf, spos, readPos, goal, bufPos>>
    BY <1>1 DEF Interrupt, InterruptPrefill, InterruptRead, InterruptControl, StartUninit, stream
  <2> QED BY <1>1, <2>1, RestingStep
          DEF StreamInv, AtRest, MainPlaces, Checked, Reading, InRead
<1>2. CASE mpc = "checkEof"
  <2>1. mpc' = "return" /\ UNCHANGED <<sbuf, spos, readPos, goal, bufPos, want, mcmd>>
    BY <1>2 DEF Interrupt, InterruptPrefill, InterruptRead, InterruptControl, stream
  <2> QED BY <1>2, <2>1, ReadingStep DEF Reading, CheckedInv, Checked
<1>3. CASE mpc = "awaitReply"
  <2>1. mpc' \in {"stop", "idle"} /\ mcmd' = NoCmd
        /\ UNCHANGED <<sbuf, spos, readPos, goal, bufPos>>
    BY <1>3 DEF Interrupt, InterruptPrefill, InterruptRead, InterruptControl, AfterControl, stream
  <2> QED BY <1>3, <2>1, RestingStep
          DEF StreamInv, AtRest, MainPlaces, Checked, Reading, InRead
<1> QED BY <1>1, <1>2, <1>3 DEF Interrupt, InterruptPrefill, InterruptRead, InterruptControl

\* The main thread's steps together.
LEMMA ReaderMain ==
  ASSUME Build = "gekko", Ints, WindowInv, SourceObeys, ReaderInv, Main
  PROVE  ReaderInv'
<1>1. StreamInv /\ DeliveredInv /\ CheckedInv
  BY DEF ReaderInv
<1>2. UNCHANGED fillerOwn /\ fpc \notin {"checkEof", "plan"} \cup Dropping
  BY BlockedPlaces
<1>3. SnapInv'
  BY <1>2 DEF SnapInv, Dropping, fillerOwn
<1>4. StreamInv' /\ DeliveredInv' /\ CheckedInv'
  <2>1. CASE Player  BY <1>1, <2>1, ReaderPlayer
  <2>2. CASE Call  BY <1>1, <1>2, <2>2, CopyFindsFile, ReaderCall
  <2>3. CASE Interrupt  BY <1>1, <2>3, ReaderInterrupt
  <2> QED BY <2>1, <2>2, <2>3, Main DEF Main
<1> QED BY <1>3, <1>4 DEF ReaderInv

\* The end of both threads changes nothing.
LEMMA ReaderUnchanged == ASSUME ReaderInv, UNCHANGED vars PROVE ReaderInv'
  BY DEF ReaderInv, StreamInv, DeliveredInv, Delivered, SnapInv, MustDrop, CheckedInv, SlotOf,
         InRead,
         vars, fillerOwn, mainOwn, window, locals, source, calls, stream

\* Bytes delivered from the position of the stream are what its reader was promised.
LEMMA DeliveredIsFile == ASSUME StreamInv, DeliveredInv PROVE ReaderGetsFile
<1> SUFFICES ASSUME mpc # "clearEof", NEW i \in 1 .. Len(sbuf)
             PROVE  sbuf[i] = i - 1 + (IF Busy THEN spos ELSE spos - Len(sbuf))
  BY DEF ReaderGetsFile
<1>1. Delivered(IF Busy THEN spos ELSE spos - Len(sbuf))
  BY DEF DeliveredInv, Busy, InRead, Reading
<1>2. spos \in Int /\ Len(sbuf) \in Int
  BY DEF StreamInv
<1> QED BY <1>1, <1>2 DEF Delivered

\* The slots of checked positions are not those the source is writing.
LEMMA CheckedIsApart == ASSUME Ints, WindowInv, CheckedInv PROVE NoRace
<1> SUFFICES ASSUME fpc = "reading", mpc = "copy",
                    NEW i \in Slots(FillSlot(maxPos), space), i \in Slots(slot, newb)
             PROVE  FALSE
  BY DEF NoRace
<1>1. /\ Window(maxPos, maxPos)
      /\ maxPos + space - minPos <= BufferSize /\ maxPos + space - offset <= BufferSize
  BY DEF WindowInv
<1>2. /\ minPos <= readPos /\ readPos + newb <= maxPos /\ 0 <= newb
      /\ slot = SlotOf(readPos) /\ newb <= BufferSize - slot
  BY DEF CheckedInv, Checked
<1>3. FillSlot(maxPos) = maxPos - offset
  BY <1>1, NextSlot
<1>4. \/ offset <= readPos /\ slot = readPos - offset
      \/ readPos < offset /\ slot = readPos - offset + BufferSize
  BY <1>1, <1>2, BufferSizePositive DEF SlotOf, Window, Ints
<1>5. /\ i \in Int /\ maxPos - offset <= i /\ i < maxPos - offset + space
      /\ slot <= i /\ i < slot + newb
  <2>1. slot \in Int /\ newb \in Int /\ space \in Int /\ maxPos - offset \in Int
    BY DEF Ints
  <2> QED BY <2>1, <1>3 DEF Slots
<1> QED BY <1>1, <1>2, <1>4, <1>5, BufferSizePositive DEF Ints

------------------------------------------------------------------------------
(* The theorems *)

\* The inductive invariant of the cache under GEKKO
CacheInv == Ints /\ WindowInv /\ ReaderInv

\* The invariant of the whole cache, which the theorems below and the other proofs use.
LEMMA CacheInvariant ==
  ASSUME Build = "gekko", SourceObeys PROVE Spec => []CacheInv
<1>1. Init => CacheInv
  BY IntsInit, WindowInit, ReaderInit DEF CacheInv
<1>2. CacheInv /\ [Next]_vars => CacheInv'
  <2> SUFFICES ASSUME CacheInv, [Next]_vars PROVE CacheInv'
    OBVIOUS
  <2>0. Ints /\ WindowInv /\ ReaderInv
    BY DEF CacheInv
  <2>1. Ints' /\ WindowInv'
    BY <2>0, InvStep
  <2>2. ReaderInv'
    <3>1. CASE Filler  BY <2>0, <3>1, ReaderFiller
    <3>2. CASE Main  BY <2>0, <3>2, ReaderMain
    <3>3. CASE Ended \/ UNCHANGED vars  BY <2>0, <3>3, ReaderUnchanged DEF Ended
    <3> QED BY <3>1, <3>2, <3>3 DEF Next
  <2> QED BY <2>1, <2>2 DEF CacheInv
<1> QED BY <1>1, <1>2, PTL DEF Spec

\* Under GEKKO, whatever the player reads, skips, seeks or asks for and whenever it is
\* interrupted, cache_read delivers the bytes of the file at the position asked for.
THEOREM ReaderIsServed ==
  ASSUME Build = "gekko", SourceObeys PROVE Spec => []ReaderGetsFile
<1>1. CacheInv => ReaderGetsFile
  BY DeliveredIsFile DEF CacheInv, ReaderInv
<1> QED BY <1>1, CacheInvariant, PTL

\* Under GEKKO the bytes cache_read copies are never those the source is overwriting.
THEOREM NoRaceOnSlots ==
  ASSUME Build = "gekko", SourceObeys PROVE Spec => []NoRace
<1>1. CacheInv => NoRace
  BY CheckedIsApart DEF CacheInv, ReaderInv
<1> QED BY <1>1, CacheInvariant, PTL

\* Under GEKKO a position that is in the window stays there as long as the reader does not
\* move: a read that has found its byte does not lose it to a fill (cache_read's two
\* comparisons against cache_fill's drop and min_filepos).
THEOREM UnreadStays ==
  ASSUME Build = "gekko", SourceObeys PROVE Spec => UnreadKept
<1>1. CacheInv /\ [Next]_vars => [InWindow /\ readPos' = readPos => InWindow']_vars
  <2> SUFFICES ASSUME CacheInv, Next, InWindow, readPos' = readPos PROVE InWindow'
    BY DEF InWindow
  <2>1. Ints /\ WindowInv /\ SnapInv
    BY DEF CacheInv, ReaderInv
  <2>2. CASE UNCHANGED <<minPos, maxPos>>
    BY <2>2 DEF InWindow
  <2>3. CASE DropMax \/ DropMin \/ DropOffset
    <3>1. fpc \in Dropping /\ snap = readPos
      BY <2>1, <2>3 DEF SnapInv, DropMax, DropMin, DropOffset, Dropping
    <3>2. fpc # "dropMax"
      BY <2>1, <3>1 DEF SnapInv, MustDrop, InWindow, Ints
    <3>3. maxPos = snap
      BY <2>1, <3>1, <3>2 DEF WindowInv, Dropping
    <3> QED BY <2>1, <3>1, <3>3 DEF InWindow, Ints
  <2>4. CASE StartRead
    <3>1. Window(maxPos, maxPos) /\ minPos' = RaisedMin /\ maxPos' = maxPos
      BY <2>1, <2>4 DEF StartRead, WindowInv, Whole
    <3>2. snap = readPos
      BY <2>1, <2>4 DEF StartRead, SnapInv, InWindow, Ints
    <3>3. RaisedMin <= readPos
      BY <2>1, <3>1, <3>2, RaisedMinBelowSnap DEF InWindow
    <3> QED BY <3>1, <3>3 DEF InWindow
  <2>5. CASE PublishMax
    <3>1. maxPos' >= maxPos /\ minPos' = minPos /\ maxPos' \in Int
      BY <2>1, <2>5 DEF PublishMax, WindowInv, Window, Ints
    <3> QED BY <2>1, <3>1 DEF InWindow, Ints
  <2>6. \/ UNCHANGED <<minPos, maxPos>> \/ DropMax \/ DropMin \/ DropOffset
        \/ StartRead \/ PublishMax
    BY DEF Next, Filler, Main, Ended, Snapshot, CheckEof, SeekSource, PlanFull, ReadData,
       ReadNothing, NoData, WrapOffset, WakeUp, ObeyQuit, PollLength, NoControl,
       RefuseControl, StartControl, FinishControl, vars, fillerOwn, window
  <2> QED BY <2>2, <2>3, <2>4, <2>5, <2>6
<1> QED BY <1>1, CacheInvariant, PTL DEF Spec, UnreadKept

------------------------------------------------------------------------------
(* Type correctness.  It is not a matter of declarations: that newb is no   *)
(* negative number, slot a slot and space no more than the buffer depends   *)
(* on what the two threads leave each other.                                *)

FillerTypes ==
  /\ buffer \in [0 .. BufferSize - 1 -> Nat \cup {Junk}]
  /\ minPos \in Nat /\ maxPos \in Nat /\ offset \in Nat
  /\ srcPos \in Nat /\ srcError \in 0 .. ErrorLimit + 1
  /\ fpc \in FillerPlaces /\ snap \in Nat
  /\ space \in 0 .. BufferSize /\ len \in 0 .. BufferSize /\ fcmd \in Commands \cup {NoCmd}

SharedTypes ==
  /\ eof \in BOOLEAN
  /\ control \in Commands \cup {NoCmd, Unset, Quit} /\ ctlRes \in Replies /\ ctlNewPos \in Nat

MainTypes ==
  /\ readPos \in Nat /\ threadActive \in BOOLEAN
  /\ mpc \in MainPlaces /\ want \in 0 .. SectorSize /\ newb \in Nat /\ slot \in 0 .. BufferSize - 1
  /\ mcmd \in Commands \cup {NoCmd, Quit} /\ goal \in -1 .. SectorSize - 1
  /\ spos \in Nat /\ seof \in BOOLEAN /\ bufPos \in 0 .. SectorSize
  /\ sbuf \in Seq(Nat \cup {Junk}) /\ Len(sbuf) <= SectorSize

\* TypeOK by the thread that writes each variable.
LEMMA TypesAreTypeOK == TypeOK <=> FillerTypes /\ SharedTypes /\ MainTypes
  BY DEF TypeOK, FillerTypes, SharedTypes, MainTypes

\* The initial values have their types.
LEMMA TypesInit == Init => FillerTypes /\ SharedTypes /\ MainTypes
<1> SUFFICES ASSUME Init PROVE FillerTypes /\ SharedTypes /\ MainTypes
  OBVIOUS
<1>1. ErrorLimit \in Nat /\ SectorSize \in Nat \ {0} /\ BufferSize \in Nat \ {0}
  BY ONLY CacheAssumption, GeometryAssumption, BufferSizePositive
<1>2. FillerTypes
  BY <1>1 DEF Init, FillerTypes, FillerPlaces, NoCmd, Junk
<1>3. SharedTypes
  BY DEF Init, SharedTypes, Unset, Replies
<1>4. MainTypes
  <2>1. sbuf \in Seq(Nat \cup {Junk}) /\ Len(sbuf) = 0
    BY DEF Init
  <2> QED BY <1>1, <2>1 DEF Init, MainTypes, MainPlaces, NoCmd, NoGoal
<1> QED BY <1>2, <1>3, <1>4

\* What is asked of the source is between nothing and the whole buffer.
LEMMA RequestInBuffer ==
  ASSUME Ints, Window(maxPos, maxPos), Free >= FillLimit
  PROVE  Request \in 0 .. BufferSize
<1>1. FillLimit \in Nat
  <2>1. \A m, n \in Nat : m * n \in Nat
    OBVIOUS
  <2> QED BY <2>1, GeometryAssumption DEF FillLimit
<1>2. ReadChunk \in Nat
  <2>1. \A m, n \in Nat : m * n \in Nat
    OBVIOUS
  <2> QED BY <2>1, GeometryAssumption DEF ReadChunk
<1>3. Free \in Int
  <2>1. BackSize \in Int
    BY BufferSizePositive, GeometryAssumption DEF BackSize
  <2> QED BY <2>1, BufferSizePositive DEF Free, Back, Ahead, AtLeast, AtMost, Ints
<1>4. BufferSize - FillSlot(maxPos) \in 0 .. BufferSize
  BY NextSlot, BufferSizePositive DEF Window, Ints
<1> QED BY <1>1, <1>2, <1>3, <1>4, BufferSizePositive DEF Request, AtMost

\* The filler's steps keep the types of what both threads write.
LEMMA FillerKeepsTypes ==
  ASSUME CacheInv, FillerTypes, SharedTypes, MainTypes, Filler
  PROVE  FillerTypes' /\ SharedTypes' /\ MainTypes'
<1>0. Ints /\ WindowInv
  BY DEF CacheInv
<1>1. MainTypes'
  <2>1. UNCHANGED mainOwn
    BY DEF Filler, Snapshot, CheckEof, DropMax, DropMin, DropOffset, SeekSource, PlanFull,
         StartRead, ReadData, ReadNothing, NoData, PublishMax, WrapOffset, WakeUp, ObeyQuit,
         PollLength, NoControl, RefuseControl, StartControl, FinishControl
  <2> QED BY <2>1 DEF MainTypes, mainOwn, calls, stream
<1>2. FillerTypes' /\ SharedTypes'
  <2> USE DEF window, controls, locals, source, SharedTypes
  <2>1. CASE Snapshot
    BY <2>1 DEF Snapshot, FillerTypes, MainTypes, FillerPlaces
  <2>2. CASE CheckEof
    <3>1. fpc' \in {"sleep", "dropMax", "plan"} /\ snap' \in {0, snap}
          /\ UNCHANGED <<buffer, eof, space, len, fcmd, window, controls, source>>
      BY <2>2 DEF CheckEof
    <3> QED BY <3>1 DEF FillerTypes, FillerPlaces
  <2>3. CASE DropMax \/ DropMin \/ DropOffset
    BY <2>3 DEF DropMax, DropMin, DropOffset, FillerTypes, FillerPlaces
  <2>4. CASE SeekSource
    BY <2>4 DEF SeekSource, FillerTypes, FillerPlaces
  <2>5. CASE PlanFull
    BY <2>5 DEF PlanFull, FillerTypes, FillerPlaces
  <2>6. CASE StartRead
    <3>1. Window(maxPos, maxPos) /\ Free >= FillLimit
      BY <1>0, <2>6 DEF StartRead, WindowInv, Whole
    <3>2. minPos' \in Nat /\ space' \in 0 .. BufferSize
      <4>1. Request \in 0 .. BufferSize /\ RaisedMin \in Int /\ RaisedMin >= minPos
        BY <1>0, <3>1, RequestInBuffer, RequestFits
      <4> QED BY <2>6, <4>1 DEF StartRead, FillerTypes
    <3>3. buffer' \in [0 .. BufferSize - 1 -> Nat \cup {Junk}]
      BY <2>6 DEF StartRead, FillerTypes
    <3>4. fpc' = "reading"
          /\ UNCHANGED <<maxPos, offset, eof, snap, len, fcmd, controls, source>>
      BY <2>6 DEF StartRead
    <3> QED BY <3>2, <3>3, <3>4 DEF FillerTypes, FillerPlaces
  <2>7. CASE ReadData
    <3>1. PICK n \in 1 .. AtMost(space, FileSize - srcPos) :
            /\ len' = n
            /\ buffer' = [i \in DOMAIN buffer |->
                            IF i \in Slots(FillSlot(maxPos), n)
                            THEN srcPos + (i - FillSlot(maxPos)) ELSE buffer[i]]
            /\ srcPos' = srcPos + n
      BY <2>7 DEF ReadData
    <3>2. n \in Nat /\ n <= space /\ srcPos' \in Nat /\ len' \in 0 .. BufferSize
      BY <3>1, CacheAssumption, BufferSizePositive DEF AtMost, FillerTypes
    <3>3. FillSlot(maxPos) \in Int
      BY BufferSizePositive DEF FillSlot, FillerTypes
    <3>4. buffer' \in [0 .. BufferSize - 1 -> Nat \cup {Junk}]
      <4>1. ASSUME NEW i \in 0 .. BufferSize - 1 PROVE buffer'[i] \in Nat \cup {Junk}
        BY <3>1, <3>2, <3>3, BufferSizePositive DEF Slots, FillerTypes
      <4> QED BY <3>1, <4>1 DEF FillerTypes
    <3>5. fpc' = "publish"
          /\ UNCHANGED <<eof, snap, space, fcmd, srcError, window, controls>>
      BY <2>7 DEF ReadData
    <3> QED BY <3>2, <3>4, <3>5 DEF FillerTypes, FillerPlaces
  <2>8. CASE ReadNothing
    <3>1. srcError' \in {srcError, AtLeast(srcError, 1)} /\ fpc' = "noData"
          /\ UNCHANGED <<buffer, eof, srcPos, window, controls, locals>>
      BY <2>8 DEF ReadNothing
    <3>2. srcError' \in 0 .. ErrorLimit + 1
      BY <3>1, CacheAssumption DEF AtLeast, FillerTypes
    <3> QED BY <3>1, <3>2 DEF FillerTypes, FillerPlaces
  <2>9. CASE NoData
    <3>1. srcError' \in 0 .. ErrorLimit + 1
      BY <2>9, CacheAssumption DEF NoData, AtMost, FillerTypes
    <3>2. eof' \in BOOLEAN
      BY <2>9, Zenon DEF NoData
    <3>3. fpc' = "sleep" /\ snap' = 0 /\ space' = 0
          /\ UNCHANGED <<buffer, len, fcmd, srcPos, window, controls>>
      BY <2>9 DEF NoData
    <3>4. FillerTypes'
      BY <3>1, <3>3, BufferSizePositive DEF FillerTypes, FillerPlaces
    <3> QED BY <3>2, <3>3, <3>4
  <2>10. CASE PublishMax
    BY <2>10, BufferSizePositive DEF PublishMax, FillerTypes, FillerPlaces
  <2>11. CASE WrapOffset
    <3>1. offset' \in {offset, offset + BufferSize}
      BY <2>11 DEF WrapOffset
    <3>2. /\ fpc' = "control" /\ snap' = 0 /\ space' = 0 /\ len' = 0
          /\ UNCHANGED <<buffer, minPos, maxPos, eof, fcmd, controls, source>>
      BY <2>11 DEF WrapOffset
    <3> QED BY <3>1, <3>2, BufferSizePositive DEF FillerTypes, FillerPlaces
  <2>12. CASE WakeUp \/ PollLength \/ NoControl
    BY <2>12 DEF WakeUp, PollLength, NoControl, LoopOrExit, FillerTypes, FillerPlaces
  <2>13. CASE ObeyQuit \/ RefuseControl
    <3>1. /\ control' = NoCmd /\ ctlRes' = "unsupported" /\ ctlNewPos' \in {0, srcPos}
          /\ fpc' \in {"exit", "snapshot"}
          /\ UNCHANGED <<buffer, eof, window, locals, source>>
      BY <2>13 DEF ObeyQuit, RefuseControl, LoopOrExit
    <3> QED BY <3>1 DEF FillerTypes, FillerPlaces, Replies
  <2>14. CASE StartControl
    BY <2>14 DEF StartControl, FillerTypes, FillerPlaces
  <2>15. CASE FinishControl
    <3>1. JumpTargets \subseteq Nat
      BY ONLY CacheAssumption
    <3>2. srcPos' = srcPos \/ srcPos' \in JumpTargets
      BY <2>15 DEF FinishControl
    <3>3. ctlRes' \in Replies
      BY <2>15 DEF FinishControl, Replies
    <3>4. /\ ctlNewPos' = srcPos' /\ control' = NoCmd /\ fcmd' = NoCmd
          /\ fpc' \in {"exit", "snapshot"}
      BY <2>15 DEF FinishControl, LoopOrExit
    <3>5. UNCHANGED <<buffer, eof, snap, space, len, srcError, window>>
      BY <2>15 DEF FinishControl
    <3> QED BY <3>1, <3>2, <3>3, <3>4, <3>5 DEF FillerTypes, FillerPlaces
  <2> QED BY <2>1, <2>2, <2>3, <2>4, <2>5, <2>6, <2>7, <2>8, <2>9, <2>10, <2>11, <2>12,
             <2>13, <2>14, <2>15, Filler DEF Filler
<1> QED BY <1>1, <1>2

\* The main thread's steps keep the types of what both threads write.
LEMMA MainKeepsTypes ==
  ASSUME Build = "gekko", SourceObeys, CacheInv, CacheInv',
         FillerTypes, SharedTypes, MainTypes, Main
  PROVE  FillerTypes' /\ SharedTypes' /\ MainTypes'
<1>0. /\ Ints /\ WindowInv /\ CheckedInv
      /\ StreamInv' /\ CheckedInv' /\ Ints'
      /\ SectorSize \in Nat \ {0} /\ BufferSize \in Nat \ {0}
  BY BufferSizePositive, GeometryAssumption DEF CacheInv, ReaderInv
<1>1. FillerTypes'
  BY DEF Main, fillerOwn, window, locals, source, FillerTypes
\* what the invariant already says of the main thread's numbers
<1>2. mpc' \in MainPlaces /\ mcmd' \in Commands \cup {NoCmd, Quit} /\ Len(sbuf') <= SectorSize
      /\ goal' \in -1 .. SectorSize - 1
  BY <1>0 DEF StreamInv, NoGoal
<1> USE DEF controls, calls, stream
<1>3. SharedTypes'
  <2>1. CASE Player
    BY <2>1 DEF Player, Consume, FillBuffer, SeekInBuffer, SeekLong, SendControl, Uninit,
       StartUninit, SharedTypes
  <2>2. CASE Call
    BY <2>2 DEF Call, EndPrefill, ClearEof, CheckMax, CheckMin, WaitForData, Measure, Locate,
       Copy, Advance, Return, TakeReply, Stop, Join, SharedTypes
  <2>3. CASE Interrupt
    BY <2>3 DEF Interrupt, InterruptPrefill, InterruptRead, InterruptControl, StartUninit, SharedTypes
  <2> QED BY <2>1, <2>2, <2>3, Main DEF Main
<1>4. MainTypes'
  <2> USE <1>2 DEF MainTypes
  <2>1. CASE Consume
    <3>1. bufPos' \in 0 .. SectorSize
      BY <1>0, <2>1 DEF Consume
    <3> QED BY <2>1, <3>1 DEF Consume
  <2>2. CASE FillBuffer
    BY <1>0, <2>2 DEF FillBuffer
  <2>3. ASSUME NEW pos \in SeekTargets, SeekInBuffer(pos) PROVE MainTypes'
    <3>1. pos \in Nat
      BY ONLY CacheAssumption, pos \in SeekTargets
    <3>2. bufPos' \in 0 .. SectorSize
      BY <1>0, <2>3, <3>1 DEF SeekInBuffer, InBuffer
    <3> QED BY <2>3, <3>2 DEF SeekInBuffer
  <2>4. ASSUME NEW pos \in SeekTargets, SeekLong(pos) PROVE MainTypes'
    <3>1. Aligned(pos) \in Nat
      BY AlignedIsSector
    <3> QED BY <2>4, <3>1 DEF SeekLong
  <2>5. CASE Uninit \/ (\E c \in Commands : SendControl(c)) \/ Interrupt
    BY <2>5 DEF Uninit, StartUninit, SendControl, Interrupt, InterruptPrefill, InterruptRead, InterruptControl
  <2>6. CASE EndPrefill \/ CheckMax \/ CheckMin \/ WaitForData
    BY <2>6 DEF EndPrefill, CheckMax, CheckMin, WaitForData
  <2>7. CASE ClearEof
    BY <1>0, <2>7 DEF ClearEof
  <2>8. CASE Measure
    <3>1. newb' \in Nat
      BY <1>0, <2>8 DEF Measure, CheckedInv, Checked, Ints
    <3> QED BY <2>8, <3>1 DEF Measure
  <2>9. CASE Locate
    <3>1. mpc' = "copy" /\ UNCHANGED <<readPos, threadActive, want, mcmd, goal, stream>>
      BY <2>9 DEF Locate
    <3>2. slot' \in 0 .. BufferSize - 1
      BY <1>0, <3>1 DEF CheckedInv
    <3>3. newb' \in Nat
      BY <1>0, <3>1 DEF CheckedInv, Ints
    <3> QED BY <3>1, <3>2, <3>3
  <2>10. CASE Copy
    <3> DEFINE copied == [i \in 1 .. newb |-> Contents(slot + i - 1)]
    <3>1. sbuf' = sbuf \o copied
          /\ UNCHANGED <<readPos, threadActive, want, newb, slot, mcmd, goal, spos, seof, bufPos>>
      BY <2>10 DEF Copy
    <3>2. \A i \in Int : Contents(i) \in Nat \cup {Junk}
      BY DEF Contents, FillerTypes
    <3>3. copied \in Seq(Nat \cup {Junk})
      BY <3>2, <1>0
    <3> HIDE DEF copied
    <3>4. sbuf' \in Seq(Nat \cup {Junk})
      BY <3>1, <3>3, ConcatProperties
    <3> QED BY <3>1, <3>4
  <2>11. CASE Advance
    <3>1. mpc = "advance" /\ want' = want - newb /\ readPos' = readPos + newb
          /\ newb' = 0 /\ slot' = 0
          /\ UNCHANGED <<threadActive, mcmd, goal, stream>>
      BY <2>11 DEF Advance
    <3>2. want' \in 0 .. SectorSize
      <4>1. want - newb + Len(sbuf) = SectorSize /\ Len(sbuf) \in Nat /\ Len(sbuf) <= SectorSize
        BY <3>1 DEF CacheInv, ReaderInv, StreamInv
      <4> QED BY <1>0, <3>1, <4>1
    <3> QED BY <1>0, <3>1, <3>2
  <2>12. CASE Return
    <3>1. /\ bufPos' = IF goal \in 0 .. Len(sbuf) THEN goal ELSE 0
          /\ spos' = spos + Len(sbuf) /\ seof' = (sbuf = <<>>) /\ want' = 0
          /\ UNCHANGED <<readPos, threadActive, newb, slot, mcmd, sbuf>>
      BY <2>12 DEF Return
    <3>2. bufPos' \in 0 .. SectorSize /\ spos' \in Nat
      BY <1>0, <3>1
    <3>3. seof' \in BOOLEAN
      BY <3>1, Zenon
    <3> QED BY <1>0, <3>1, <3>2, <3>3
  <2>13. CASE TakeReply
    <3>1. readPos' \in Nat /\ spos' \in Nat
      BY <2>13 DEF TakeReply, SharedTypes
    <3> QED BY <2>13, <3>1 DEF TakeReply
  <2>14. CASE Stop \/ Join
    BY <2>14 DEF Stop, Join
  <2> QED BY <2>1, <2>2, <2>3, <2>4, <2>5, <2>6, <2>7, <2>8, <2>9, <2>10, <2>11, <2>12,
             <2>13, <2>14, Main DEF Main, Player, Call
<1> QED BY <1>1, <1>3, <1>4

\* Under GEKKO no variable leaves its type: no negative length, no slot outside the ring
\* buffer, no read of the source that is longer than the buffer.
THEOREM TypesAreKept ==
  ASSUME Build = "gekko", SourceObeys PROVE Spec => []TypeOK
<1> DEFINE Types == FillerTypes /\ SharedTypes /\ MainTypes
<1>1. Init => Types
  BY TypesInit
<1>2. Types /\ CacheInv /\ CacheInv' /\ [Next]_vars => Types'
  <2> SUFFICES ASSUME Types, CacheInv, CacheInv', [Next]_vars PROVE Types'
    OBVIOUS
  <2>1. CASE Filler  BY <2>1, FillerKeepsTypes
  <2>2. CASE Main  BY <2>2, MainKeepsTypes
  <2>3. CASE Ended \/ UNCHANGED vars
    BY <2>3 DEF Ended, vars, fillerOwn, mainOwn, window, controls, locals, source, calls,
       stream, FillerTypes, SharedTypes, MainTypes
  <2> QED BY <2>1, <2>2, <2>3 DEF Next
<1>3. Types => TypeOK
  BY TypesAreTypeOK
<1> QED BY <1>1, <1>2, <1>3, CacheInvariant, PTL DEF Spec

------------------------------------------------------------------------------
(* A file played through without a seek, in both builds.  Where no thread  *)
(* has priority the filler's snapshot of readPos may be old when it acts   *)
(* on it; the argument is that readPos then only grows, so that an old     *)
(* snapshot drops nothing and keeps more than it has to.                   *)

PlaysThrough == SeekTargets = {} /\ SourceObeys

\* The reader stays in the window, and the snapshot, however old, does too.
PlayWindow ==
  /\ minPos <= readPos /\ readPos <= maxPos /\ mpc # "clearEof"
  /\ fpc \notin Dropping \cup {"seeking"}
  /\ fpc \in {"checkEof", "plan"} => minPos <= snap /\ snap <= readPos

PlayInv == Ints /\ WindowInv /\ StreamInv /\ DeliveredInv /\ CheckedInv /\ PlayWindow

\* Before the prefill the window and the reader are at the start of the file.
LEMMA PlayInit == Init => PlayInv
<1> SUFFICES ASSUME Init PROVE PlayInv
  OBVIOUS
<1>1. PlayWindow
  BY DEF Init, PlayWindow, Dropping
<1> QED BY <1>1, IntsInit, WindowInit, ReaderInit DEF PlayInv, ReaderInv

\* No fill drops the window or raises its lower bound past the reader.
LEMMA PlayFiller ==
  ASSUME PlayInv, Ints', WindowInv', SourceObeys, Filler PROVE PlayInv'
<1>0. /\ Ints /\ WindowInv /\ CheckedInv /\ PlayWindow
      /\ mpc # "clearEof" /\ UNCHANGED <<readPos, mpc, newb, want, slot>>
  BY FillerLeavesMain DEF PlayInv, PlayWindow, mainOwn, calls
<1>1. StreamInv' /\ DeliveredInv'
  BY FillerLeavesMain DEF PlayInv
<1>2. PlayWindow' /\ CheckedInv'
  <2>1. CASE Snapshot
    <3>1. UNCHANGED <<minPos, maxPos, offset>> /\ fpc' = "checkEof" /\ snap' = readPos
      BY <2>1 DEF Snapshot, window
    <3> QED BY <1>0, <3>1 DEF PlayWindow, CheckedInv, Dropping, SlotOf, Ints
  <2>2. CASE CheckEof
    <3>1. UNCHANGED <<minPos, maxPos, offset>> /\ fpc = "checkEof"
      BY <2>2 DEF CheckEof, window
    <3>2. minPos <= snap /\ snap <= readPos /\ readPos <= maxPos
      BY <1>0, <3>1 DEF PlayWindow
    <3>3. ~MustDrop
      BY <1>0, <3>2 DEF MustDrop, Ints
    <3>4. fpc' = "sleep" \/ (fpc' = "plan" /\ snap' = snap)
      BY <2>2, <3>3 DEF CheckEof
    <3> QED BY <1>0, <3>1, <3>2, <3>4 DEF PlayWindow, CheckedInv, Dropping, SlotOf
  <2>3. CASE DropMax \/ DropMin \/ DropOffset \/ SeekSource
    BY <1>0, <2>3 DEF DropMax, DropMin, DropOffset, SeekSource, PlayWindow, Dropping
  <2>4. CASE StartRead
    <3>1. Window(maxPos, maxPos) /\ fpc = "plan"
      BY <1>0, <2>4 DEF StartRead, WindowInv, Whole
    <3>2. fpc' = "reading" /\ minPos' = RaisedMin /\ UNCHANGED <<maxPos, offset>>
      BY <2>4 DEF StartRead
    <3>3. minPos' <= readPos
      BY <1>0, <3>1, <3>2, RaisedMinBelowSnap DEF PlayWindow, Ints
    <3> QED BY <1>0, <3>2, <3>3 DEF PlayWindow, CheckedInv, Dropping, SlotOf
  <2>5. CASE PublishMax
    <3>1. Window(maxPos, maxPos + len)
      BY <1>0, <2>5 DEF PublishMax, WindowInv
    <3>2. fpc' = "wrap" /\ maxPos' >= maxPos /\ UNCHANGED <<minPos, offset>>
      BY <1>0, <2>5, <3>1 DEF PublishMax, Window, Ints
    <3>3. maxPos' \in Int
      BY <1>0, <2>5 DEF PublishMax, Ints
    <3> QED BY <1>0, <3>2, <3>3 DEF PlayWindow, CheckedInv, Checked, Dropping, SlotOf, Ints
  <2>6. CASE WrapOffset
    <3>1. fpc' = "control" /\ UNCHANGED <<minPos, maxPos>>
      BY <2>6 DEF WrapOffset
    <3>2. SlotOf(readPos)' = SlotOf(readPos)
      <4>1. minPos <= readPos /\ readPos <= maxPos /\ readPos \in Int
        BY <1>0 DEF PlayWindow, Ints
      <4> QED BY <1>0, <2>6, <4>1, WrapKeepsSlots DEF SlotOf
    <3> QED BY <1>0, <3>1, <3>2 DEF PlayWindow, CheckedInv, Dropping
  <2>7. CASE PlanFull \/ ReadData \/ ReadNothing \/ NoData \/ WakeUp \/ ObeyQuit
             \/ PollLength \/ NoControl \/ RefuseControl \/ StartControl \/ FinishControl
    <3>1. UNCHANGED <<minPos, maxPos, offset>>
      BY <2>7 DEF PlanFull, ReadData, ReadNothing, NoData, WakeUp, ObeyQuit,
         PollLength, NoControl, RefuseControl, StartControl, FinishControl, window
    <3>2. fpc' \notin {"checkEof", "plan", "seeking"} \cup Dropping
      BY <2>7 DEF PlanFull, ReadData, ReadNothing, NoData, WakeUp, ObeyQuit,
         PollLength, NoControl, RefuseControl, StartControl, FinishControl, LoopOrExit, Dropping
    <3> QED BY <1>0, <3>1, <3>2 DEF PlayWindow, CheckedInv, SlotOf
  <2> QED BY <2>1, <2>2, <2>3, <2>4, <2>5, <2>6, <2>7, Filler DEF Filler
<1> QED BY <1>1, <1>2 DEF PlayInv

\* Wherever the filler is, the bytes after the reader are in their slots up to maxPos.
LEMMA PlaySlots == ASSUME PlayInv PROVE SlotsServe
<1>0. Ints /\ WindowInv /\ PlayWindow
  BY DEF PlayInv
<1>1. PICK first \in Int, last \in Int : Window(first, last) /\ first <= maxPos /\ maxPos <= last
  <2>1. CASE fpc = "publish"
    BY <1>0, <2>1 DEF WindowInv, Window, Ints
  <2>2. CASE fpc = "wrap"
    BY <1>0, <2>2 DEF WindowInv, Window, Ints
  <2>3. CASE fpc \in Whole \cup {"reading"}
    BY <1>0, <2>3 DEF WindowInv, Ints
  <2> QED BY <1>0, <2>1, <2>2, <2>3 DEF WindowInv, PlayWindow, Dropping
<1>2. /\ minPos <= readPos /\ readPos <= maxPos
      /\ offset <= maxPos /\ maxPos - offset <= BufferSize /\ maxPos - minPos <= BufferSize
  BY <1>0, <1>1, BufferSizePositive DEF PlayWindow, Window, Ints
<1>3. \/ offset <= readPos /\ readPos - offset < BufferSize /\ SlotOf(readPos) = readPos - offset
      \/ readPos < offset /\ SlotOf(readPos) = readPos - offset + BufferSize
      \/ readPos = maxPos /\ SlotOf(readPos) = 0
  BY <1>0, <1>2, BufferSizePositive DEF SlotOf, Ints
<1>4. SlotOf(readPos) \in 0 .. BufferSize - 1
  <2>1. CASE offset <= readPos
    BY <1>0, <1>2, <1>3, <2>1, BufferSizePositive DEF Ints
  <2>2. CASE readPos < offset
    <3>1. readPos >= offset - BufferSize
      BY <1>0, <1>1, <1>2, <2>2, BufferSizePositive DEF Window, Holds, SlotOf, Ints
    <3> QED BY <1>0, <1>3, <2>2, <3>1, BufferSizePositive DEF Ints
  <2> QED BY <1>0, <2>1, <2>2 DEF Ints
<1>5. ASSUME NEW k \in Nat, readPos + k < maxPos, SlotOf(readPos) + k < BufferSize
      PROVE  Contents(SlotOf(readPos) + k) = readPos + k /\ maxPos <= FileSize
  <2>1. SlotOf(readPos + k) = SlotOf(readPos) + k
    BY <1>0, <1>2, <1>3, <1>5, BufferSizePositive DEF SlotOf, Ints
  <2>2. /\ SlotOf(readPos + k) \in 0 .. BufferSize - 1
        /\ buffer[SlotOf(readPos + k)] = readPos + k
    BY <1>0, <1>1, <1>2, <1>5 DEF Window, Holds, Ints
  <2>3. maxPos <= FileSize
    BY <1>0, <1>1, <1>2, <1>5, CacheAssumption DEF Window, Ints
  <2> QED BY <1>0, <2>1, <2>2, <2>3 DEF Contents, Ints
<1> QED BY <1>4, <1>5 DEF SlotsServe

\* The main thread moves forward within the window, at any point of a fill.
LEMMA PlayMain ==
  ASSUME PlaysThrough, PlayInv, Ints', WindowInv', Main PROVE PlayInv'
<1>0. /\ Ints /\ StreamInv /\ DeliveredInv /\ CheckedInv /\ SlotsServe /\ PlayWindow
      /\ SourceObeys /\ fpc \notin Dropping
      /\ UNCHANGED fillerOwn /\ UNCHANGED <<minPos, maxPos, fpc, snap>>
  BY PlaySlots DEF PlayInv, PlayWindow, PlaysThrough, Main, fillerOwn, window, locals
<1>1. StreamInv' /\ DeliveredInv' /\ CheckedInv'
  <2>1. CASE Player  BY <1>0, <2>1, ReaderPlayer
  <2>2. CASE Call  BY <1>0, <2>2, ReaderCall
  <2>3. CASE Interrupt  BY <1>0, <2>3, ReaderInterrupt
  <2> QED BY <2>1, <2>2, <2>3, Main DEF Main
<1>2. mpc' # "clearEof" /\ (readPos' = readPos \/ Advance)
  <2>1. CASE Player
    BY <2>1 DEF Player, PlaysThrough, Consume, FillBuffer, SendControl, Uninit, StartUninit, calls,
       PlayWindow, PlayInv
  <2>2. CASE Call
    <3>1. CASE TakeReply
      <4>1. mcmd # "seek"
        BY <1>0 DEF StreamInv, SourceObeys, NoCmd, Quit
      <4> QED BY <3>1, <4>1 DEF TakeReply, AfterControl
    <3> QED BY <1>0, <2>2, <3>1 DEF Call, EndPrefill, ClearEof, CheckMax, CheckMin, WaitForData,
          Measure, Locate, Copy, Advance, Return, Stop, Join, PlayWindow
  <2>3. CASE Interrupt
    BY <2>3 DEF Interrupt, InterruptPrefill, InterruptRead, InterruptControl, StartUninit,
       AfterControl
  <2> QED BY <2>1, <2>2, <2>3, Main DEF Main
<1>3. readPos <= readPos' /\ readPos' <= maxPos
  <2>1. CASE Advance
    <3>1. 0 <= newb /\ readPos + newb <= maxPos /\ readPos' = readPos + newb
      BY <1>0, <2>1 DEF Advance, CheckedInv
    <3> QED BY <1>0, <3>1 DEF Ints
  <2>2. CASE readPos' = readPos
    BY <1>0, <2>2 DEF PlayWindow, Ints
  <2> QED BY <1>2, <2>1, <2>2
<1>4. PlayWindow'
  BY <1>0, <1>2, <1>3 DEF PlayWindow, Ints
<1> QED BY <1>1, <1>4 DEF PlayInv

\* The invariant of a file played through.
LEMMA PlayStep ==
  ASSUME PlaysThrough, PlayInv, [Next]_vars PROVE PlayInv'
<1>1. Ints' /\ WindowInv'
  BY InvStep DEF PlayInv, PlaysThrough
<1>2. CASE Filler  BY <1>1, <1>2, PlayFiller DEF PlaysThrough
<1>3. CASE Main  BY <1>1, <1>3, PlayMain
<1>4. CASE UNCHANGED vars
  BY <1>1, <1>4 DEF PlayInv, PlayWindow, StreamInv, DeliveredInv, Delivered, CheckedInv, SlotOf,
     InRead, vars, fillerOwn, mainOwn, window, locals, source, calls, stream
<1> QED BY <1>2, <1>3, <1>4 DEF Next, Ended

\* The invariant of every state of a file played through.
LEMMA PlayInvariant == ASSUME PlaysThrough PROVE Spec => []PlayInv
<1>1. Init => PlayInv
  BY PlayInit
<1>2. PlayInv /\ [Next]_vars => PlayInv'
  BY PlayStep
<1> QED BY <1>1, <1>2, PTL DEF Spec

------------------------------------------------------------------------------
(* The theorems *)

\* In both builds a file that is played without a seek comes out right: however late either
\* thread sees what the other has stored, cache_read returns the bytes of the file.
THEOREM PlayedFileComesOut == ASSUME PlaysThrough PROVE Spec => []ReaderGetsFile
<1>1. PlayInv => ReaderGetsFile
  BY DeliveredIsFile DEF PlayInv
<1> QED BY <1>1, PlayInvariant, PTL

\* In both builds, without a seek, cache_read copies no byte the source is overwriting.
THEOREM PlayIsApart == ASSUME PlaysThrough PROVE Spec => []NoRace
<1>1. PlayInv => NoRace
  BY CheckedIsApart DEF PlayInv
<1> QED BY <1>1, PlayInvariant, PTL

\* Nothing but the end of the source makes the cache report an end.
EofInv ==
  /\ eof \/ fpc = "noData" => srcPos >= FileSize
  /\ EofComesFromSource

\* The source does not go back while a file is played through.
LEMMA SourceGoesOn ==
  ASSUME PlaysThrough, PlayInv, Next PROVE srcPos' >= srcPos
<1>0. srcPos \in Int /\ fpc # "seeking" /\ fcmd \in Commands \cup {NoCmd} /\ "seek" \notin Commands
  BY DEF PlayInv, PlayWindow, Ints, PlaysThrough, SourceObeys
<1>1. CASE ReadData  BY <1>0, <1>1, CacheAssumption DEF ReadData, AtMost, PlayInv, Ints
<1>2. CASE FinishControl  BY <1>0, <1>2 DEF FinishControl, NoCmd
<1>3. CASE UNCHANGED srcPos  BY <1>0, <1>3
<1>4. ReadData \/ FinishControl \/ UNCHANGED srcPos
  BY <1>0 DEF Next, Filler, Main, Ended, Snapshot, CheckEof, DropMax, DropMin, DropOffset,
     SeekSource, PlanFull, StartRead, ReadNothing, NoData, PublishMax, WrapOffset, WakeUp,
     ObeyQuit, PollLength, NoControl, RefuseControl, StartControl, vars, fillerOwn, source
<1> QED BY <1>1, <1>2, <1>3, <1>4

\* In both builds, played from start to end without a command of the user or an error of the
\* source, a read comes back short only when the source has delivered the whole file (cache_read
\* and cache_fill's eof).
THEOREM EofIsTheSources ==
  ASSUME PlaysThrough, ~MayInterrupt, ~ReadMayFail PROVE Spec => []EofComesFromSource
<1>1. Init => EofInv
  BY DEF Init, EofInv, EofComesFromSource
<1>2. PlayInv /\ EofInv /\ [Next]_vars => EofInv'
  <2> SUFFICES ASSUME PlayInv, EofInv, [Next]_vars PROVE EofInv'
    OBVIOUS
  <2>0. srcPos \in Int /\ FileSize \in Int
    BY CacheAssumption DEF PlayInv, Ints
  <2>1. CASE UNCHANGED vars
    BY <2>1 DEF EofInv, EofComesFromSource, vars, fillerOwn, mainOwn, source, calls, stream
  <2>2. CASE Next
    <3>1. srcPos >= FileSize => srcPos' >= FileSize
      <4>1. srcPos' >= srcPos
        BY <2>2, SourceGoesOn
      <4>2. srcPos' \in Int
        BY PlayStep DEF PlayInv, Ints
      <4> QED BY <2>0, <4>1, <4>2
    <3>2. eof' \/ fpc' = "noData" => srcPos' >= FileSize
      <4>1. CASE ReadNothing
        BY <3>1, <4>1 DEF ReadNothing
      <4>2. CASE NoData
        BY <3>1, <4>2 DEF NoData, EofInv
      <4>3. \/ ReadNothing \/ NoData
            \/ (eof' => eof) /\ fpc' # "noData"
            \/ (eof' => eof) /\ fpc' = fpc
        BY <2>2 DEF Next, Filler, Main, Ended, Snapshot, CheckEof, DropMax, DropMin, DropOffset,
           SeekSource, PlanFull, StartRead, ReadData, PublishMax, WrapOffset, WakeUp,
           ObeyQuit, PollLength, NoControl, RefuseControl, StartControl, FinishControl, LoopOrExit,
           Player, Consume, FillBuffer, SeekInBuffer, SeekLong, SendControl, Uninit, StartUninit,
           Call, EndPrefill, ClearEof, CheckMax, CheckMin, WaitForData, Measure, Locate, Copy,
           Advance, Return, TakeReply, Stop, Join, Interrupt, vars, fillerOwn
      <4> QED BY <3>1, <4>1, <4>2, <4>3 DEF EofInv
    <3>3. EofComesFromSource'
      <4> SUFFICES ASSUME mpc' = "return", Len(sbuf') < SectorSize PROVE srcPos' >= FileSize
        BY DEF EofComesFromSource
      <4>1. CASE WaitForData
        BY <3>1, <4>1 DEF WaitForData, EofInv
      <4>2. CASE Advance
        <5>1. mpc = "advance" /\ want' = want - newb /\ want' <= 0 /\ sbuf' = sbuf
          <6>1. mpc = "advance" /\ want' = want - newb /\ ~(want' > 0) /\ sbuf' = sbuf
            BY <4>2 DEF Advance, stream
          <6> QED BY <6>1 DEF PlayInv, Ints
        <5>2. want - newb + Len(sbuf) = SectorSize /\ Len(sbuf) \in Int
          BY <5>1 DEF PlayInv, StreamInv
        <5> QED BY <5>1, <5>2 DEF PlayInv, Ints
      <4>3. CASE UNCHANGED <<mpc, sbuf>>
        BY <3>1, <4>3 DEF EofInv, EofComesFromSource
      <4>4. CASE Filler
        BY <4>3, <4>4, FillerLeavesMain DEF mainOwn, calls, stream
      <4>5. CASE Main
        BY <4>1, <4>2, <4>5 DEF Main, Player, Consume, FillBuffer, SeekInBuffer, SeekLong,
           SendControl, Uninit, StartUninit, Call, EndPrefill, ClearEof, CheckMax, CheckMin, Measure,
           Locate, Copy, Return, TakeReply, AfterControl, Stop, Join, Interrupt, calls
      <4> QED BY <2>2, <4>3, <4>4, <4>5 DEF Next, Ended, vars, mainOwn, calls, stream
    <3> QED BY <3>2, <3>3 DEF EofInv
  <2> QED BY <2>1, <2>2
<1>3. EofInv => EofComesFromSource
  BY DEF EofInv
<1> QED BY <1>1, <1>2, <1>3, PlayInvariant, PTL DEF Spec
==============================================================================
