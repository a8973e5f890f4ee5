---------------------------- MODULE Cache2_proofs ----------------------------
(***************************************************************************)
(* Proofs about the stream cache, for every size of the buffer, file and   *)
(* sector, every set of seek targets, and both builds where no build is    *)
(* named.  The one thing asked of the source is that it is where the       *)
(* filler puts it: its seeks succeed and no control moves it.              *)
(***************************************************************************)
EXTENDS Cache2, TLAPS

SourceObeys == ~SeekMayFail /\ "seek" \notin Commands

------------------------------------------------------------------------------
(* The geometry *)

\* The ring buffer is not empty, and some of it is never asked to be filled in one go.
LEMMA BufferSizePositive == BufferSize \in Nat /\ BufferSize > 0
<1> DEFINE sectors == AtLeast(CacheSize \div SectorSize, MinSectors)
<1>1. sectors \in Nat /\ sectors > 0
  BY GeometryAssumption DEF AtLeast
<1>2. \A m, n \in Nat : m > 0 /\ n > 0 => m * n \in Nat /\ m * n > 0
  OBVIOUS
<1> HIDE DEF sectors
<1>3. SectorSize \in Nat /\ SectorSize > 0
  BY GeometryAssumption
<1>4. BufferSize = sectors * SectorSize
  BY DEF BufferSize, sectors
<1> QED BY <1>1, <1>2, <1>3, <1>4

------------------------------------------------------------------------------
(* The numbers are numbers.  Nothing more is known of what the two threads   *)
(* read from each other: under a build without priorities even newb may be   *)
(* negative, when the filler drops the window the main thread has measured.  *)

Ints ==
  /\ buffer \in [0 .. BufferSize - 1 -> Int]
  /\ minPos \in Int /\ maxPos \in Int /\ offset \in Int
  /\ snap \in Int /\ space \in Int /\ len \in Int /\ srcPos \in Int
  /\ fcmd \in Commands \cup {NoCmd}
  /\ readPos \in Int /\ newb \in Int /\ want \in Int /\ slot \in Int /\ ctlNewPos \in Int

\* The zeroed cache_vars_t holds numbers.
LEMMA IntsInit == Init => Ints
  BY BufferSizePositive DEF Init, Ints, Junk, NoCmd

\* cache_stream_seek_long aligns its target to the sector it lies in.
LEMMA AlignedIsSector ==
  \A pos \in SeekTargets : Aligned(pos) \in Nat /\ pos - Aligned(pos) \in 0 .. SectorSize - 1
<1> SUFFICES ASSUME NEW pos \in SeekTargets
             PROVE  Aligned(pos) \in Nat /\ pos - Aligned(pos) \in 0 .. SectorSize - 1
  OBVIOUS
<1>1. pos \in Nat /\ SectorSize \in Nat \ {0}
  BY ONLY GeometryAssumption, CacheAssumption, pos \in SeekTargets
<1>2. \A x \in Nat, s \in Nat \ {0} :
        (x \div s) * s \in Nat /\ (x \div s) * s <= x /\ x < (x \div s) * s + s
  OBVIOUS
<1>3. Aligned(pos) \in Nat /\ Aligned(pos) <= pos /\ pos < Aligned(pos) + SectorSize
  BY <1>1, <1>2 DEF Aligned
<1> QED BY <1>1, <1>3

\* The reader's slot is a number, in or out of the ring buffer.
LEMMA SlotOfIsInt == ASSUME Ints, NEW p \in Int PROVE SlotOf(p) \in Int
  BY BufferSizePositive DEF Ints, SlotOf

\* What cache_fill computes from the snapshot are numbers.
LEMMA RequestIsInt == ASSUME Ints PROVE Request \in Int /\ RaisedMin \in Int
<1>1. BackSize \in Int
  BY BufferSizePositive, GeometryAssumption DEF BackSize
<1>2. ReadChunk \in Int
  BY GeometryAssumption DEF ReadChunk
<1>3. Free \in Int /\ Ahead \in Int
  BY <1>1, BufferSizePositive DEF Free, Back, Ahead, AtLeast, AtMost, Ints
<1>4. FillSlot(maxPos) \in Int
  BY BufferSizePositive DEF FillSlot, Ints
<1>5. Request \in Int
  BY <1>2, <1>3, <1>4, BufferSizePositive DEF Request, AtMost
<1> QED BY <1>3, <1>5, BufferSizePositive DEF RaisedMin, AtLeast, Ints

\* Steps that leave all the numbers of the filler alone but its cache_fill locals.
LEMMA IntsFiller == ASSUME Ints, Filler PROVE Ints'
<1> USE BufferSizePositive DEF Ints, window, controls, locals, source, mainOwn, calls, stream
<1>1. CASE Snapshot  BY <1>1 DEF Snapshot
<1>2. CASE CheckEof  BY <1>2 DEF CheckEof
<1>3. CASE DropMax \/ DropMin \/ DropOffset
  BY <1>3 DEF DropMax, DropMin, DropOffset
<1>4. CASE SeekSource  BY <1>4 DEF SeekSource
<1>5. CASE PlanFull  BY <1>5 DEF PlanFull
<1>6. CASE StartRead
  <2>1. minPos' \in Int /\ space' \in Int
    BY <1>6, RequestIsInt DEF StartRead
  <2>2. buffer' \in [0 .. BufferSize - 1 -> Int]
    BY <1>6 DEF StartRead, Junk
  <2> QED BY <1>6, <2>1, <2>2 DEF StartRead
<1>7. CASE ReadData
  <2>1. PICK n \in 1 .. AtMost(space, FileSize - srcPos) :
          /\ len' = n
          /\ buffer' = [i \in DOMAIN buffer |->
                          IF i \in Slots(FillSlot(maxPos), n)
                          THEN srcPos + (i - FillSlot(maxPos)) ELSE buffer[i]]
          /\ srcPos' = srcPos + n
    BY <1>7 DEF ReadData
  <2>2. FillSlot(maxPos) \in Int /\ n \in Int
    BY DEF FillSlot
  <2>3. buffer' \in [0 .. BufferSize - 1 -> Int]
    BY <2>1, <2>2
  <2> QED BY <1>7, <2>1, <2>2, <2>3 DEF ReadData
<1>8. CASE ReadNothing  BY <1>8 DEF ReadNothing
<1>9. CASE NoData  BY <1>9 DEF NoData
<1>10. CASE PublishMax  BY <1>10 DEF PublishMax
<1>11. CASE WrapOffset
  <2>1. offset' \in {offset, offset + BufferSize}
    BY <1>11 DEF WrapOffset
  <2>2. snap' = 0 /\ space' = 0 /\ len' = 0
        /\ UNCHANGED <<buffer, minPos, maxPos, fcmd, mainOwn, controls, source>>
    BY <1>11 DEF WrapOffset
  <2> QED BY <2>1, <2>2
<1>12. CASE ObeyQuit  BY <1>12 DEF ObeyQuit
<1>13. CASE WakeUp \/ PollLength \/ NoControl  BY <1>13 DEF WakeUp, PollLength, NoControl
<1>14. CASE RefuseControl  BY <1>14 DEF RefuseControl
<1>15. CASE StartControl  BY <1>15 DEF StartControl
<1>16. CASE FinishControl
  <2>0. JumpTargets \subseteq Int
    BY ONLY CacheAssumption
  <2>1. srcPos' = srcPos \/ srcPos' \in JumpTargets
    BY <1>16 DEF FinishControl
  <2>2. ctlNewPos' = srcPos' /\ fcmd' = NoCmd
    BY <1>16 DEF FinishControl
  <2>3. UNCHANGED <<buffer, snap, space, len, mainOwn, window>>
    BY <1>16 DEF FinishControl
  <2> QED BY <2>0, <2>1, <2>2, <2>3
<1> QED BY <1>1, <1>2, <1>3, <1>4, <1>5, <1>6, <1>7, <1>8, <1>9, <1>10, <1>11, <1>12,
           <1>13, <1>14, <1>15, <1>16, Filler DEF Filler

\* The main thread's steps keep the numbers numbers.
LEMMA IntsMain == ASSUME Ints, Main PROVE Ints'
<1> USE DEF Ints, controls, mainOwn, calls, stream
<1>0. UNCHANGED <<buffer, minPos, maxPos, offset, snap, space, len, srcPos, fcmd>>
  BY DEF Main, fillerOwn, window, locals, source
<1>1. CASE Player
  <2>1. CASE Consume  BY <1>0, <2>1 DEF Consume
  <2>2. CASE FillBuffer  BY <1>0, <2>2, GeometryAssumption DEF FillBuffer
  <2>3. ASSUME NEW pos \in SeekTargets, SeekInBuffer(pos) \/ SeekLong(pos) PROVE Ints'
    BY <1>0, <2>3, AlignedIsSector DEF SeekInBuffer, SeekLong
  <2>4. ASSUME NEW c \in Commands, SendControl(c) PROVE Ints'
    BY <1>0, <2>4 DEF SendControl
  <2>5. CASE Uninit  BY <1>0, <2>5 DEF Uninit, StartUninit
  <2> QED BY <1>1, <2>1, <2>2, <2>3, <2>4, <2>5 DEF Player
<1>2. CASE Call
  <2>1. CASE EndPrefill  BY <1>0, <2>1 DEF EndPrefill
  <2>2. CASE ClearEof  BY <1>0, <2>2, GeometryAssumption DEF ClearEof
  <2>3. CASE CheckMax \/ CheckMin \/ WaitForData
    BY <1>0, <2>3 DEF CheckMax, CheckMin, WaitForData
  <2>4. CASE Measure  BY <1>0, <2>4 DEF Measure
  <2>5. CASE Locate
    <3>1. slot' \in Int
      BY <2>5, SlotOfIsInt DEF Locate
    <3> QED BY <1>0, <2>5, <3>1, BufferSizePositive DEF Locate, AtMost
  <2>6. CASE Copy  BY <1>0, <2>6 DEF Copy
  <2>7. CASE Advance  BY <1>0, <2>7 DEF Advance
  <2>8. CASE Return  BY <1>0, <2>8 DEF Return
  <2>9. CASE TakeReply  BY <1>0, <2>9 DEF TakeReply
  <2>10. CASE Stop \/ Join  BY <1>0, <2>10 DEF Stop, Join
  <2> QED BY <1>2, <2>1, <2>2, <2>3, <2>4, <2>5, <2>6, <2>7, <2>8, <2>9, <2>10 DEF Call
<1>3. CASE Interrupt
  BY <1>0, <1>3 DEF Interrupt, InterruptPrefill, InterruptRead, InterruptControl, StartUninit
<1> QED BY <1>1, <1>2, <1>3, Main DEF Main
------------------------------------------------------------------------------
(* The window.  Between two fills offset is the position of slot 0, at most   *)
(* one buffer behind maxPos, no more than a buffer of positions is held, the  *)
(* source is at maxPos, and every position held is in its slot.               *)

Holds(last) ==
  \A p \in Int : minPos <= p /\ p < last
    => SlotOf(p) \in 0 .. BufferSize - 1 /\ buffer[SlotOf(p)] = p

\* The window ends at last, within the file if it holds anything; first is where a fill that
\* is under way began, or last.
Window(first, last) ==
  /\ offset <= first /\ first < offset + BufferSize /\ first <= last
  /\ last - offset <= BufferSize /\ last - minPos <= BufferSize
  /\ srcPos = last
  /\ minPos < last => last <= FileSize
  /\ Holds(last)

\* Where the window is whole, between two fills and while one waits for the source
Whole == {"snapshot", "checkEof", "dropMax", "plan", "noData", "sleep", "control", "polling",
          "executing", "exit"}

WindowInv ==
  /\ fpc \in Whole \cup {"dropMin", "dropOffset", "seeking", "reading", "publish", "wrap"}
  /\ fpc \in Whole => Window(maxPos, maxPos)
  /\ fpc = "dropMin" => maxPos = snap
  /\ fpc = "dropOffset" => maxPos = snap /\ minPos = snap
  /\ fpc = "seeking" => maxPos = snap /\ minPos = snap /\ offset = snap
  /\ fpc = "reading" =>
       /\ Window(maxPos, maxPos)
       \* what is about to be written has been taken out of the window
       /\ maxPos + space - minPos <= BufferSize /\ maxPos + space - offset <= BufferSize
  /\ fpc = "publish" => Window(maxPos, maxPos + len)
  /\ fpc = "wrap" => Window(maxPos - len, maxPos)

\* The empty window of the zeroed cache_vars_t holds what it promises, which is nothing.
LEMMA WindowInit == Init => WindowInv
  BY BufferSizePositive DEF Init, WindowInv, Whole, Window, Holds

\* A whole window does not wrap: the next byte goes where offset says.
LEMMA NextSlot ==
  ASSUME Ints, Window(maxPos, maxPos)
  PROVE  FillSlot(maxPos) = maxPos - offset
  BY BufferSizePositive DEF Ints, Window, FillSlot

\* The request fits between the last byte and the end of the ring buffer, and what it
\* overwrites is out of the window once minPos is raised.
LEMMA RequestFits ==
  ASSUME Ints, Window(maxPos, maxPos)
  PROVE  /\ Request \in Int /\ RaisedMin \in Int /\ RaisedMin >= minPos
         /\ maxPos + Request - offset <= BufferSize
         /\ maxPos + Request - RaisedMin <= BufferSize
<1>1. Request \in Int /\ RaisedMin \in Int
  BY RequestIsInt
<1>2. Free \in Int /\ Ahead \in Int /\ Ahead >= maxPos - snap
  <2>1. BackSize \in Int
    BY BufferSizePositive, GeometryAssumption DEF BackSize
  <2> QED BY <2>1, BufferSizePositive DEF Free, Back, Ahead, AtLeast, AtMost, Ints
<1>3. ReadChunk \in Int
  BY GeometryAssumption DEF ReadChunk
<1>4. Request <= BufferSize - (maxPos - offset)
  BY <1>2, <1>3, NextSlot, BufferSizePositive DEF Request, AtMost, Ints
<1>5. RaisedMin >= minPos /\ RaisedMin >= snap - (BufferSize - (Request + Ahead))
  BY <1>1, <1>2, BufferSizePositive DEF RaisedMin, AtLeast, Ints
<1> QED BY <1>1, <1>2, <1>4, <1>5, BufferSizePositive DEF Ints

\* StartRead: the window loses what its new lower bound cuts off, the rest is untouched.
LEMMA WindowStartRead == ASSUME Ints, WindowInv, StartRead PROVE WindowInv'
<1>1. Window(maxPos, maxPos)
  BY DEF WindowInv, Whole, StartRead
<1>2. /\ minPos' = RaisedMin /\ space' = Request /\ fpc' = "reading"
      /\ UNCHANGED <<maxPos, offset, srcPos>>
      /\ buffer' = [i \in DOMAIN buffer |->
                      IF i \in Slots(FillSlot(maxPos), Request) THEN Junk ELSE buffer[i]]
  BY DEF StartRead, source
<1>3. /\ maxPos + space' - offset <= BufferSize /\ maxPos + space' - minPos' <= BufferSize
      /\ minPos' \in Int /\ space' \in Int /\ minPos' >= minPos
  BY <1>1, <1>2, RequestFits
<1>4. ASSUME NEW p \in Int, minPos' <= p, p < maxPos
      PROVE  SlotOf(p) \in 0 .. BufferSize - 1 /\ buffer'[SlotOf(p)] = p
  <2>1. SlotOf(p) \in 0 .. BufferSize - 1 /\ buffer[SlotOf(p)] = p
    BY <1>1, <1>3, <1>4, SMTT(30) DEF Window, Holds, Ints
  <2>2. SlotOf(p) \notin Slots(FillSlot(maxPos), Request)
    <3>1. SlotOf(p) = p - offset \/ (p < offset /\ SlotOf(p) = p - offset + BufferSize)
      BY <1>1, <1>4, BufferSizePositive DEF SlotOf, Window, Ints
    <3>2. SlotOf(p) < maxPos - offset \/ SlotOf(p) >= maxPos - offset + Request
      BY <1>2, <1>3, <1>4, <3>1, BufferSizePositive DEF Ints
    <3> QED BY <2>1, <3>2, <1>1, <1>2, <1>3, NextSlot, BufferSizePositive DEF Slots, Ints
  <2> QED BY <1>2, <2>1, <2>2 DEF Ints
<1>5. Window(maxPos, maxPos)'
  <2>1. Holds(maxPos)'
    BY <1>2, <1>4 DEF Holds, SlotOf
  <2> QED BY <1>1, <1>2, <1>3, <2>1, BufferSizePositive DEF Window, Ints
<1> QED BY <1>2, <1>3, <1>5 DEF WindowInv, Whole

\* ReadData: the bytes after the window are the ones that arrive in the slots after it.
LEMMA WindowReadData == ASSUME Ints, WindowInv, ReadData PROVE WindowInv'
<1>1. /\ Window(maxPos, maxPos)
      /\ maxPos + space - minPos <= BufferSize /\ maxPos + space - offset <= BufferSize
  BY DEF WindowInv, ReadData
<1>2. PICK n \in 1 .. AtMost(space, FileSize - srcPos) :
        /\ len' = n
        /\ buffer' = [i \in DOMAIN buffer |->
                        IF i \in Slots(FillSlot(maxPos), n)
                        THEN srcPos + (i - FillSlot(maxPos)) ELSE buffer[i]]
        /\ srcPos' = srcPos + n
  BY DEF ReadData
<1>3. n \in Int /\ 1 <= n /\ n <= space /\ n <= FileSize - srcPos /\ FileSize \in Int
  BY <1>2, CacheAssumption DEF AtMost, Ints
<1>4. fpc' = "publish" /\ UNCHANGED <<minPos, maxPos, offset>>
  BY DEF ReadData, window
<1>5. FillSlot(maxPos) = maxPos - offset /\ srcPos = maxPos
  BY <1>1, NextSlot DEF Window
<1>6. ASSUME NEW p \in Int, minPos <= p, p < maxPos + n
      PROVE  SlotOf(p) \in 0 .. BufferSize - 1 /\ buffer'[SlotOf(p)] = p
  <2>1. CASE p < maxPos
    <3>1. SlotOf(p) \in 0 .. BufferSize - 1 /\ buffer[SlotOf(p)] = p
      BY <1>1, <1>6, <2>1 DEF Window, Holds
    <3>2. SlotOf(p) = p - offset \/ (p < offset /\ SlotOf(p) = p - offset + BufferSize)
      BY <1>1, <1>6, <2>1, BufferSizePositive DEF SlotOf, Window, Ints
    <3>3. SlotOf(p) \notin Slots(FillSlot(maxPos), n)
      BY <1>1, <1>3, <1>5, <1>6, <2>1, <3>1, <3>2, BufferSizePositive DEF Slots, Ints
    <3> QED BY <1>2, <3>1, <3>3 DEF Ints
  <2>2. CASE maxPos <= p
    <3>1. SlotOf(p) = p - offset
      BY <1>1, <1>3, <1>6, <2>2, BufferSizePositive DEF SlotOf, Window, Ints
    <3>2. SlotOf(p) \in 0 .. BufferSize - 1
      BY <1>1, <1>3, <1>6, <2>2, <3>1, BufferSizePositive DEF Window, Ints
    <3>3. SlotOf(p) \in Slots(FillSlot(maxPos), n)
      BY <1>3, <1>5, <1>6, <2>2, <3>1 DEF Slots, Ints
    <3>4. buffer'[SlotOf(p)] = srcPos + (SlotOf(p) - FillSlot(maxPos))
      BY <1>2, <3>2, <3>3 DEF Ints
    <3> QED BY <1>5, <1>6, <3>1, <3>2, <3>4 DEF Ints
  <2> QED BY <1>6, <2>1, <2>2 DEF Ints
<1>7. Window(maxPos, maxPos + len)'
  <2>1. Holds(maxPos + len)'
    BY <1>2, <1>4, <1>6 DEF Holds, SlotOf
  <2>2. len' = n /\ srcPos' = maxPos + n /\ maxPos + n <= FileSize
    BY <1>2, <1>3, <1>5 DEF Ints
  <2> QED BY <1>1, <1>3, <1>4, <2>1, <2>2, BufferSizePositive DEF Window, Ints
<1> QED BY <1>4, <1>7 DEF WindowInv, Whole

\* PublishMax moves the end of the window over what has just been read.
LEMMA WindowPublishMax == ASSUME Ints, WindowInv, PublishMax PROVE WindowInv'
<1>1. Window(maxPos, maxPos + len)
  BY DEF WindowInv, PublishMax
<1>2. fpc' = "wrap" /\ maxPos' = maxPos + len
      /\ UNCHANGED <<buffer, minPos, offset, srcPos, len>>
  BY DEF PublishMax, locals, source
<1>3. maxPos' - len' = maxPos
  BY <1>2 DEF Ints
<1>4. Holds(maxPos)'
  BY <1>1, <1>2 DEF Window, Holds, SlotOf
<1>5. Window(maxPos - len, maxPos)'
  BY <1>1, <1>2, <1>3, <1>4 DEF Window
<1> QED BY <1>2, <1>5 DEF WindowInv, Whole

\* WrapOffset: slot 0 becomes the end of the window, and no byte changes its slot.
LEMMA WindowWrapOffset == ASSUME Ints, WindowInv, WrapOffset PROVE WindowInv'
<1>1. Window(maxPos - len, maxPos)
  BY DEF WindowInv, WrapOffset
<1>2. fpc' = "control" /\ UNCHANGED <<buffer, minPos, maxPos, srcPos>>
  BY DEF WrapOffset, source
<1>3. FillSlot(maxPos - len) = maxPos - len - offset
  BY <1>1, BufferSizePositive DEF Window, FillSlot, Ints
<1>4. offset' = IF maxPos - offset >= BufferSize THEN offset + BufferSize ELSE offset
  BY <1>3 DEF WrapOffset, Ints
<1>5. ASSUME NEW p \in Int, minPos <= p, p < maxPos
      PROVE  SlotOf(p)' = SlotOf(p)
  BY <1>1, <1>4, <1>5, BufferSizePositive DEF SlotOf, Window, Ints
<1>6. Holds(maxPos)'
  BY <1>1, <1>2, <1>5 DEF Holds, Window
<1>7. Window(maxPos, maxPos)'
  BY <1>1, <1>2, <1>4, <1>6, BufferSizePositive DEF Window, Ints
<1> QED BY <1>2, <1>7 DEF WindowInv, Whole

\* SeekSource: the source is taken to the window that was emptied for it.
LEMMA WindowSeekSource ==
  ASSUME Ints, WindowInv, SourceObeys, SeekSource PROVE WindowInv'
<1>1. maxPos = snap /\ minPos = snap /\ offset = snap
  BY DEF WindowInv, SeekSource
<1>2. fpc' = "plan" /\ srcPos' = snap /\ UNCHANGED <<buffer, minPos, maxPos, offset, snap>>
  BY DEF SeekSource, SourceObeys, window, locals
<1>3. Window(maxPos, maxPos)'
  BY <1>1, <1>2, BufferSizePositive DEF Ints, Window, Holds
<1> QED BY <1>2, <1>3 DEF WindowInv, Whole

\* The steps that touch neither the window nor the ring buffer
Idle == Snapshot \/ CheckEof \/ PlanFull \/ ReadNothing \/ NoData \/ WakeUp \/ ObeyQuit
        \/ PollLength \/ NoControl \/ RefuseControl \/ StartControl \/ FinishControl

\* The filler's steps that touch neither the ring buffer nor the window.
LEMMA WindowIdle == ASSUME Ints, WindowInv, SourceObeys, Idle PROVE WindowInv'
<1>1. UNCHANGED <<buffer, minPos, maxPos, offset>>
  BY DEF Idle, Snapshot, CheckEof, PlanFull, ReadNothing, NoData, WakeUp, ObeyQuit,
         PollLength, NoControl, RefuseControl, StartControl, FinishControl, window
<1>2. UNCHANGED srcPos
  <2>1. CASE FinishControl
    BY <2>1 DEF FinishControl, SourceObeys, Ints, NoCmd
  <2> QED BY <2>1 DEF Idle, Snapshot, CheckEof, PlanFull, ReadNothing, NoData, WakeUp,
         ObeyQuit, PollLength, NoControl, RefuseControl, StartControl, source
<1>3. fpc \in Whole \cup {"reading"} /\ fpc' \in Whole
  BY DEF Idle, Snapshot, CheckEof, PlanFull, ReadNothing, NoData, WakeUp, ObeyQuit,
         PollLength, NoControl, RefuseControl, StartControl, FinishControl, Whole, LoopOrExit
<1>4. Window(maxPos, maxPos)
  BY <1>3 DEF WindowInv
<1>5. Window(maxPos, maxPos)'
  BY <1>1, <1>2, <1>4 DEF Window, Holds, SlotOf
<1> QED BY <1>3, <1>5 DEF WindowInv, Whole

\* DropMax, DropMin, DropOffset: the three stores of an assignment, last target first.
LEMMA WindowDrop ==
  ASSUME Ints, WindowInv, DropMax \/ DropMin \/ DropOffset PROVE WindowInv'
<1>1. CASE DropMax  BY <1>1 DEF DropMax, WindowInv, Whole, locals
<1>2. CASE DropMin  BY <1>2 DEF DropMin, WindowInv, Whole, locals
<1>3. CASE DropOffset  BY <1>3 DEF DropOffset, WindowInv, Whole, locals
<1> QED BY <1>1, <1>2, <1>3

\* The main thread does not write what the window invariant speaks of.
LEMMA WindowUnchanged == ASSUME WindowInv, UNCHANGED fillerOwn PROVE WindowInv'
  BY DEF WindowInv, Window, Holds, SlotOf, fillerOwn, window, locals, source

\* Both invariants are inductive: every step of either thread keeps them.
LEMMA InvStep ==
  ASSUME Ints, WindowInv, SourceObeys, [Next]_vars PROVE Ints' /\ WindowInv'
<1>1. CASE Filler
  <2>1. Ints'
    BY <1>1, IntsFiller
  <2>2. WindowInv'
    BY <1>1, WindowDrop, WindowSeekSource, WindowStartRead, WindowReadData,
       WindowPublishMax, WindowWrapOffset, WindowIdle DEF Filler, Idle
  <2> QED BY <2>1, <2>2
<1>2. CASE Main
  BY <1>2, IntsMain, WindowUnchanged DEF Main
<1>3. CASE Ended \/ UNCHANGED vars
  <2>1. UNCHANGED <<fillerOwn, mainOwn, controls>>
    BY <1>3 DEF Ended, vars
  <2>2. Ints'
    BY <2>1 DEF Ints, fillerOwn, window, locals, source, mainOwn, calls, controls
  <2> QED BY <2>1, <2>2, WindowUnchanged
<1> QED BY <1>1, <1>2, <1>3 DEF Next

------------------------------------------------------------------------------
(* For every geometry, file and player, in both builds: a source that obeys  *)
(* leaves every position of the window in its slot of the ring buffer.       *)

\* What cache_read relies on whenever it copies (cache2.c, cache_read and cache_fill).
THEOREM WindowIsFaithful == ASSUME SourceObeys PROVE Spec => []WindowHoldsFile
<1> DEFINE IInv == Ints /\ WindowInv
<1>1. Init => IInv
  BY IntsInit, WindowInit
<1>2. IInv /\ [Next]_vars => IInv'
  BY InvStep
<1>3. IInv => WindowHoldsFile
  <2> SUFFICES ASSUME Ints, WindowInv, fpc \notin {"dropMin", "dropOffset"},
                      NEW p \in minPos .. maxPos - 1
               PROVE  SlotOf(p) \in 0 .. BufferSize - 1 /\ buffer[SlotOf(p)] = p
    BY DEF WindowHoldsFile
  <2>1. PICK last \in Int : maxPos <= last /\ (Holds(last) \/ minPos = maxPos)
    <3>1. CASE fpc = "publish"
      <4>1. Window(maxPos, maxPos + len) /\ maxPos + len \in Int
        BY <3>1 DEF WindowInv, Ints
      <4> QED BY <4>1 DEF Window, Ints
    <3>2. CASE fpc # "publish"
      BY <3>2 DEF WindowInv, Window, Ints
    <3> QED BY <3>1, <3>2
  <2> QED BY <2>1 DEF Holds, Ints
<1> QED BY <1>1, <1>2, <1>3, PTL DEF Spec

\* In both builds a fill gives up bytes behind the reader only beyond the last back_size
\* ones before the snapshot it took (cache2.c, back, space and back2 in cache_fill).
THEOREM BackBytesStay == ASSUME SourceObeys PROVE Spec => BackBytesKept
<1>1. Init => Ints /\ WindowInv
  BY IntsInit, WindowInit
<1>2. Ints /\ WindowInv /\ [Next]_vars => (Ints /\ WindowInv)'
  BY InvStep
<1>3. Ints /\ WindowInv /\ [Next]_vars =>
        [StartRead /\ minPos' # minPos => snap - minPos' >= BackSize]_vars
  <2> SUFFICES ASSUME Ints, WindowInv, StartRead, minPos' # minPos
               PROVE  snap - minPos' >= BackSize
    OBVIOUS
  <2>1. Window(maxPos, maxPos) /\ minPos' = RaisedMin
    BY DEF StartRead, WindowInv, Whole
  <2>2. BackSize \in Int /\ BackSize >= 0
    BY BufferSizePositive, GeometryAssumption DEF BackSize
  <2>3. ReadChunk \in Int /\ FillSlot(maxPos) \in Int
    BY <2>1, NextSlot, GeometryAssumption DEF ReadChunk, Ints
  <2>4. /\ Back \in Int /\ Back = AtMost(AtLeast(snap - minPos, 0), BackSize)
        /\ Ahead \in Int /\ Free = BufferSize - (Ahead + Back)
    BY <2>2, BufferSizePositive DEF Free, Back, Ahead, AtLeast, AtMost, Ints
  <2>5. Request \in Int /\ Request <= BufferSize - (Ahead + Back)
    BY <2>3, <2>4, BufferSizePositive DEF Request, AtMost
  <2>6. minPos' > minPos /\ minPos' = snap - (BufferSize - (Request + Ahead))
    BY <2>1, <2>4, <2>5, BufferSizePositive DEF RaisedMin, AtLeast, Ints
  <2>7. minPos' <= snap - Back
    BY <2>4, <2>5, <2>6, BufferSizePositive DEF Ints
  <2>8. Back = BackSize
    BY <2>2, <2>4, <2>6, <2>7 DEF AtMost, AtLeast, Ints
  <2> QED BY <2>2, <2>6, <2>7, <2>8 DEF Ints
<1> QED BY <1>1, <1>2, <1>3, PTL DEF Spec, BackBytesKept
==============================================================================
