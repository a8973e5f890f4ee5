----------------------- MODULE Cache2_refinement_proofs -----------------------
(***************************************************************************)
(* Under GEKKO the cache implements FileStream, for every geometry, file   *)
(* and set of seek targets: every step of its two threads is a step of the *)
(* file stream or one the reader does not see.                             *)
(***************************************************************************)
EXTENDS Cache2_reader_proofs

\* The bytes at and after a position, from the k-th on
LEMMA BytesTail ==
  ASSUME NEW pos \in Int, NEW n \in Nat, NEW k \in 0 .. n
  PROVE  SubSeq(File!Bytes(pos, n), k + 1, n) = File!Bytes(pos + k, n - k)
<1>1. File!Bytes(pos, n) \in Seq(Int) /\ Len(File!Bytes(pos, n)) = n
  BY DEF File!Bytes
<1>2. SubSeq(File!Bytes(pos, n), k + 1, n) =
        [i \in 1 .. n - k |-> File!Bytes(pos, n)[i + k]]
  BY <1>1
<1>3. ASSUME NEW i \in 1 .. n - k
      PROVE  File!Bytes(pos, n)[i + k] = (pos + k) + i - 1
  BY DEF File!Bytes
<1> QED BY <1>2, <1>3 DEF File!Bytes

\* What the stream buffer still holds at bufPos are the bytes of the file from tell on.
LEMMA UnreadIsFile ==
  ASSUME NEW s \in Seq(Int), NEW first \in Int, NEW k \in 0 .. Len(s),
         \A i \in 1 .. Len(s) : s[i] = first + i - 1
  PROVE  SubSeq(s, k + 1, Len(s)) = File!Bytes(first + k, Len(s) - k)
<1>1. Len(s) \in Nat /\ s = File!Bytes(first, Len(s))
  BY DEF File!Bytes
<1> QED BY <1>1, BytesTail

\* The refinement mapping, spelt out as it appears in File
Tell   == spos + (IF Busy THEN AtLeast(goal, 0) ELSE bufPos - Len(sbuf))
Unread == IF Busy THEN <<>> ELSE SubSeq(sbuf, bufPos + 1, Len(sbuf))

\* The abstract file stream's next-state relation, with the refinement mapping put in.
LEMMA FileNext ==
  File!Next <=>
    \/ \E n \in 1 .. Len(Unread) :
         /\ Tell' = Tell + n /\ Unread' = SubSeq(Unread, n + 1, Len(Unread)) /\ Busy' = Busy
    \/ ~Busy /\ Unread = <<>> /\ Busy' = TRUE /\ Tell' = Tell /\ Unread' = Unread
    \/ /\ Busy /\ Busy' = FALSE
       /\ \E n \in 0 .. SectorSize, short \in 0 .. SectorSize - 1 :
            /\ short = 0 \/ n < short
            /\ Tell' = Tell - short
            /\ n > 0 => Tell' + n <= FileSize
            /\ Unread' = File!Bytes(Tell', n)
    \/ \E pos \in SeekTargets :
         \/ /\ ~Busy /\ pos < Tell + Len(Unread) /\ pos + SectorSize >= Tell + Len(Unread)
            /\ Tell' = pos /\ Unread' = File!Bytes(pos, Tell + Len(Unread) - pos)
            /\ Busy' = Busy
         \/ ~Busy /\ Tell' = pos /\ Unread' = <<>> /\ Busy' = TRUE
  BY DEF File!Next, File!Skip, File!CallRead, File!Return, File!SeekNear, File!CallSeek,
         Tell, Unread

\* A step that changes nothing the mapping sees is a stutter of the file stream.
LEMMA FileStutter == ASSUME UNCHANGED <<Tell, Unread, Busy>> PROVE UNCHANGED File!vars
  BY DEF File!vars, Tell, Unread

\* At rest, what the mapping says of the stream buffer.
LEMMA AtRestUnread ==
  ASSUME StreamInv, DeliveredInv, ~Busy
  PROVE  /\ Tell = spos - Len(sbuf) + bufPos /\ Tell \in Int
         /\ bufPos \in 0 .. Len(sbuf) /\ Len(sbuf) \in Nat
         /\ \A i \in 1 .. Len(sbuf) : sbuf[i] = spos - Len(sbuf) + i - 1
         /\ Unread = File!Bytes(Tell, Len(sbuf) - bufPos)
         /\ Len(Unread) = Len(sbuf) - bufPos
<1>1. mpc # "clearEof" /\ ~InRead /\ mpc \notin Reading \cup {"advance", "clearEof"}
  BY DEF Busy, InRead, Reading
<1>2. bufPos \in 0 .. Len(sbuf) /\ Len(sbuf) \in Nat /\ spos \in Int /\ sbuf \in Seq(Int)
  BY <1>1 DEF StreamInv
<1>3. \A i \in 1 .. Len(sbuf) : sbuf[i] = spos - Len(sbuf) + i - 1
  BY <1>1 DEF DeliveredInv, Delivered
<1>4. Tell = spos - Len(sbuf) + bufPos /\ Tell \in Int
  BY <1>2 DEF Tell
<1>5. Unread = File!Bytes(Tell, Len(sbuf) - bufPos)
  <2>1. spos - Len(sbuf) \in Int
    BY <1>2
  <2>2. SubSeq(sbuf, bufPos + 1, Len(sbuf))
          = File!Bytes(spos - Len(sbuf) + bufPos, Len(sbuf) - bufPos)
    BY <1>2, <1>3, <2>1, UnreadIsFile
  <2> QED BY <1>4, <2>2 DEF Unread
<1>6. Len(Unread) = Len(sbuf) - bufPos
  BY <1>2, <1>5 DEF File!Bytes
<1> QED BY <1>2, <1>3, <1>4, <1>5, <1>6

\* After a step, what can be read without a call is the file's bytes from stream_tell on.
LEMMA AtRestUnreadNext ==
  ASSUME StreamInv', DeliveredInv', ~Busy'
  PROVE  /\ Tell' = spos' - Len(sbuf') + bufPos'
         /\ bufPos' \in 0 .. Len(sbuf')
         /\ Unread' = File!Bytes(Tell', Len(sbuf') - bufPos')
<1>1. mpc' # "clearEof" /\ ~InRead' /\ mpc' \notin Reading \cup {"advance", "clearEof"}
  BY DEF Busy, InRead, Reading
<1>2. bufPos' \in 0 .. Len(sbuf') /\ Len(sbuf') \in Nat /\ spos' \in Int /\ sbuf' \in Seq(Int)
  BY <1>1 DEF StreamInv
<1>3. \A i \in 1 .. Len(sbuf') : sbuf'[i] = spos' - Len(sbuf') + i - 1
  BY <1>1 DEF DeliveredInv, Delivered
<1>4. Tell' = spos' - Len(sbuf') + bufPos'
  BY <1>2 DEF Tell
<1>5. Unread' = SubSeq(sbuf', bufPos' + 1, Len(sbuf'))
  BY DEF Unread
<1>6. SubSeq(sbuf', bufPos' + 1, Len(sbuf'))
        = File!Bytes(spos' - Len(sbuf') + bufPos', Len(sbuf') - bufPos')
  <2>1. spos' - Len(sbuf') \in Int
    BY <1>2
  <2> HIDE DEF File!Bytes
  <2> QED BY <1>2, <1>3, <2>1, UnreadIsFile
<1>7. Unread' = File!Bytes(Tell', Len(sbuf') - bufPos')
  BY <1>4, <1>5, <1>6
<1> QED BY <1>2, <1>4, <1>7

\* Steps at rest that move bufPos only
LEMMA MoveInBuffer ==
  ASSUME StreamInv, DeliveredInv, mpc = "idle", bufPos' \in 0 .. Len(sbuf),
         UNCHANGED <<mpc, spos, sbuf>>
  PROVE  /\ ~Busy /\ Busy' = Busy
         /\ Tell' = Tell + (bufPos' - bufPos)
         /\ Unread' = File!Bytes(Tell', Len(sbuf) - bufPos')
<1>1. ~Busy /\ ~Busy'
  BY DEF Busy, InRead
<1>2. /\ sbuf \in Seq(Int) /\ spos \in Int /\ Len(sbuf) \in Nat /\ bufPos \in Int
      /\ bufPos' \in Int
  BY <1>1, AtRestUnread DEF StreamInv
<1>3. Tell' = spos + (bufPos' - Len(sbuf)) /\ Tell = spos + (bufPos - Len(sbuf))
  BY <1>1 DEF Tell
<1>4. Tell' = Tell + (bufPos' - bufPos) /\ Tell' = spos - Len(sbuf) + bufPos'
  BY <1>2, <1>3
<1>5. Unread' = SubSeq(sbuf, bufPos' + 1, Len(sbuf))
  BY <1>1 DEF Unread
<1>6. SubSeq(sbuf, bufPos' + 1, Len(sbuf))
        = File!Bytes(spos - Len(sbuf) + bufPos', Len(sbuf) - bufPos')
  <2>1. spos - Len(sbuf) \in Int
    BY <1>2
  <2>2. \A i \in 1 .. Len(sbuf) : sbuf[i] = spos - Len(sbuf) + i - 1
    BY <1>1, AtRestUnread
  <2> HIDE DEF File!Bytes
  <2> QED BY <1>2, <2>1, <2>2, UnreadIsFile
<1>7. Busy' = Busy
  BY DEF Busy, InRead
<1>8. Unread' = File!Bytes(Tell', Len(sbuf) - bufPos')
  BY <1>4, <1>5, <1>6
<1> QED BY <1>1, <1>4, <1>7, <1>8

\* Reading bytes of the stream buffer is a Skip.
LEMMA ConsumeSkips ==
  ASSUME StreamInv, DeliveredInv, Consume PROVE File!Next
<1>1. mpc = "idle" /\ bufPos' \in bufPos + 1 .. Len(sbuf) /\ UNCHANGED <<mpc, spos, sbuf>>
  BY DEF Consume, calls
<1>2. ~Busy
  BY <1>1 DEF Busy, InRead
<1>3. /\ Tell \in Int /\ bufPos \in 0 .. Len(sbuf) /\ Len(sbuf) \in Nat
      /\ Unread = File!Bytes(Tell, Len(sbuf) - bufPos) /\ Len(Unread) = Len(sbuf) - bufPos
  BY <1>2, AtRestUnread
<1>4. bufPos' \in 0 .. Len(sbuf)
  BY <1>1, <1>3
<1>5. /\ Busy' = Busy /\ Tell' = Tell + (bufPos' - bufPos)
      /\ Unread' = File!Bytes(Tell', Len(sbuf) - bufPos')
  BY <1>1, <1>4, MoveInBuffer
<1>6. PICK n \in 1 .. Len(Unread) : n = bufPos' - bufPos
  <2>1. bufPos' - bufPos \in 1 .. Len(sbuf) - bufPos
    <3>1. bufPos \in Int /\ bufPos' \in Int /\ Len(sbuf) \in Int
      BY <1>3, <1>4
    <3>2. bufPos' \in bufPos + 1 .. Len(sbuf)
      BY <1>1
    <3>3. \A a, b, c \in Int : b \in a + 1 .. c => b - a \in 1 .. c - a
      OBVIOUS
    <3> QED BY <3>1, <3>2, <3>3
  <2>2. Len(Unread) = Len(sbuf) - bufPos
    BY <1>3
  <2> QED BY <2>1, <2>2, Zenon
<1>7. Unread' = SubSeq(Unread, n + 1, Len(Unread))
  <2>1. Len(Unread) \in Nat /\ n \in 0 .. Len(Unread)
    BY <1>3
  <2>2. SubSeq(File!Bytes(Tell, Len(Unread)), n + 1, Len(Unread))
          = File!Bytes(Tell + n, Len(Unread) - n)
    BY <1>3, <2>1, BytesTail
  <2>3. Len(sbuf) - bufPos' = Len(Unread) - n
    BY <1>1, <1>3, <1>6
  <2> QED BY <1>3, <1>5, <1>6, <2>2, <2>3
<1>8. \E m \in 1 .. Len(Unread) :
        /\ Tell' = Tell + m /\ Unread' = SubSeq(Unread, m + 1, Len(Unread)) /\ Busy' = Busy
  <2>1. Tell' = Tell + n
    BY <1>5, <1>6
  <2> QED BY <1>5, <1>7, <2>1
<1> QED BY <1>8, FileNext

\* cache_stream_fill_buffer on an empty stream buffer is a CallRead.
LEMMA FillBufferCalls ==
  ASSUME StreamInv, DeliveredInv, FillBuffer PROVE File!Next
<1>1. /\ mpc = "idle" /\ bufPos = Len(sbuf) /\ mpc' = "checkMax"
      /\ UNCHANGED <<goal, spos>>
  BY DEF FillBuffer
<1>2. ~Busy /\ Busy'
  BY <1>1 DEF Busy, InRead
<1>3. goal = NoGoal
  BY <1>1 DEF StreamInv, InRead
<1>4. Unread = <<>> /\ Tell = spos
  <2>1. Unread = File!Bytes(Tell, 0) /\ Tell = spos
    BY <1>1, <1>2, AtRestUnread DEF StreamInv
  <2> QED BY <2>1 DEF File!Bytes
<1>5. Unread' = <<>> /\ Tell' = spos
  <2>1. Unread' = <<>>
    BY <1>2 DEF Unread
  <2>2. Tell' = spos + AtLeast(NoGoal, 0) /\ spos \in Int
    BY <1>1, <1>2, <1>3 DEF Tell, AtLeast, StreamInv
  <2> QED BY <2>1, <2>2 DEF AtLeast, NoGoal
<1>6. Busy' = TRUE
  BY <1>2 DEF Busy, InRead
<1> QED BY <1>2, <1>4, <1>5, <1>6, FileNext

\* stream_seek within the stream buffer is a SeekNear.
LEMMA SeekInBufferIsNear ==
  ASSUME StreamInv, DeliveredInv, NEW pos \in SeekTargets, SeekInBuffer(pos) PROVE File!Next
<1>1. /\ mpc = "idle" /\ pos < spos /\ pos >= spos - Len(sbuf)
      /\ bufPos' = pos - (spos - Len(sbuf)) /\ UNCHANGED <<mpc, spos, sbuf>>
  BY DEF SeekInBuffer, InBuffer, calls
<1>2. ~Busy
  BY <1>1 DEF Busy, InRead
<1>3. /\ Tell = spos - Len(sbuf) + bufPos /\ Tell \in Int
      /\ bufPos \in 0 .. Len(sbuf) /\ Len(sbuf) \in Nat /\ Len(Unread) = Len(sbuf) - bufPos
      /\ spos \in Int /\ Len(sbuf) <= SectorSize
  BY <1>2, AtRestUnread DEF StreamInv
<1>4. pos \in Int /\ SectorSize \in Int
  BY ONLY CacheAssumption, GeometryAssumption, pos \in SeekTargets
<1>5. bufPos' \in 0 .. Len(sbuf)
  BY <1>1, <1>3, <1>4
<1>6. /\ Busy' = Busy /\ Tell' = Tell + (bufPos' - bufPos)
      /\ Unread' = File!Bytes(Tell', Len(sbuf) - bufPos')
  BY <1>1, <1>5, MoveInBuffer
<1>7. Tell' = pos /\ Tell + Len(Unread) - pos = Len(sbuf) - bufPos'
  BY <1>1, <1>3, <1>4, <1>6
<1>8. pos < Tell + Len(Unread) /\ pos + SectorSize >= Tell + Len(Unread)
  BY <1>1, <1>3, <1>4
<1> QED BY <1>2, <1>6, <1>7, <1>8, FileNext

\* cache_stream_seek_long starts a CallSeek.
LEMMA SeekLongCalls ==
  ASSUME StreamInv, NEW pos \in SeekTargets, SeekLong(pos) PROVE File!Next
<1>1. /\ mpc = "idle" /\ mpc' = "clearEof" /\ spos' = Aligned(pos)
      /\ goal' = pos - Aligned(pos)
  BY DEF SeekLong
<1>2. ~Busy /\ Busy' = TRUE
  BY <1>1 DEF Busy, InRead
<1>3. Tell' = pos /\ Unread' = <<>>
  <2>1. Aligned(pos) \in Int /\ pos - Aligned(pos) \in 0 .. SectorSize - 1
    BY AlignedIsSector
  <2>2. pos \in Int /\ SectorSize \in Int
    BY ONLY CacheAssumption, GeometryAssumption, pos \in SeekTargets
  <2>3. Tell' = Aligned(pos) + AtLeast(pos - Aligned(pos), 0)
    BY <1>1, <1>2 DEF Tell, AtLeast
  <2> QED BY <1>2, <2>1, <2>2, <2>3 DEF AtLeast, Unread
<1> QED BY <1>2, <1>3, FileNext

\* The end of a call: a seek that falls short of its target leaves the reader at the start
\* of the target's sector, with what was found of it.
LEMMA ReturnReturns ==
  ASSUME StreamInv, DeliveredInv, StreamInv', DeliveredInv', Return PROVE File!Next
<1>1. /\ mpc = "return" /\ mpc' = "idle" /\ spos' = spos + Len(sbuf)
      /\ bufPos' = IF goal \in 0 .. Len(sbuf) THEN goal ELSE 0
      /\ sbuf' = sbuf
  BY DEF Return
<1>2. Busy /\ Busy' = FALSE /\ ~Busy'
  BY <1>1 DEF Busy, InRead
<1>3. /\ spos \in Int /\ goal \in Int /\ Len(sbuf) \in Nat /\ Len(sbuf) <= SectorSize
      /\ NoGoal <= goal /\ goal < SectorSize /\ SectorSize \in Nat \ {0}
  BY <1>1, GeometryAssumption DEF StreamInv, Reading
<1>4. Len(sbuf) > 0 => spos + Len(sbuf) <= FileSize
  BY <1>1 DEF DeliveredInv, Delivered, Reading
<1>5. /\ Tell' = spos' - Len(sbuf') + bufPos' /\ bufPos' \in 0 .. Len(sbuf')
      /\ Unread' = File!Bytes(Tell', Len(sbuf') - bufPos')
  BY <1>2, AtRestUnreadNext
<1>6. Tell = spos + AtLeast(goal, 0)
  BY <1>2 DEF Tell
<1>7. Tell' = spos + bufPos' /\ bufPos' \in Int
  BY <1>1, <1>3, <1>5
<1> DEFINE n == Len(sbuf) - bufPos'
           short == AtLeast(goal, 0) - bufPos'
<1>8. n \in 0 .. SectorSize /\ short \in 0 .. SectorSize - 1 /\ (short = 0 \/ n < short)
  <2>1. CASE goal \in 0 .. Len(sbuf)
    <3>1. bufPos' = goal
      BY <1>1, <2>1
    <3> QED BY <1>3, <2>1, <3>1 DEF AtLeast
  <2>2. CASE goal \notin 0 .. Len(sbuf)
    <3>1. bufPos' = 0
      BY <1>1, <2>2
    <3> QED BY <1>3, <2>2, <3>1 DEF AtLeast, NoGoal
  <2> QED BY <2>1, <2>2
<1>9. Tell' = Tell - short
  BY <1>3, <1>6, <1>7 DEF AtLeast
<1>10. n > 0 => Tell' + n <= FileSize
  BY <1>3, <1>4, <1>5, <1>7, <1>1
<1>11. Unread' = File!Bytes(Tell', n)
  BY <1>1, <1>5
<1> HIDE DEF n, short
<1>12. \E k \in 0 .. SectorSize, d \in 0 .. SectorSize - 1 :
         /\ d = 0 \/ k < d
         /\ Tell' = Tell - d
         /\ k > 0 => Tell' + k <= FileSize
         /\ Unread' = File!Bytes(Tell', k)
  BY <1>8, <1>9, <1>10, <1>11
<1> QED BY <1>2, <1>12, FileNext

\* The steps the reader does not see: those inside a call, and those of the filler.
LEMMA InsideCall ==
  ASSUME UNCHANGED <<spos, goal, bufPos>>, Busy, Busy' PROVE UNCHANGED <<Tell, Unread, Busy>>
<1>1. Tell' = Tell
  BY DEF Tell, AtLeast
<1>2. Unread' = Unread
  BY DEF Unread
<1>3. Busy' = Busy
  BY DEF Busy, InRead
<1> QED BY <1>1, <1>2, <1>3

\* Outside a read or a seek, a step that keeps the stream buffer is a stutter.
LEMMA OutsideCall ==
  ASSUME UNCHANGED <<spos, bufPos, sbuf>>, ~Busy, ~Busy' PROVE UNCHANGED <<Tell, Unread, Busy>>
<1>1. Tell' = Tell
  BY DEF Tell
<1>2. Unread' = Unread
  BY DEF Unread
<1>3. Busy' = Busy
  BY DEF Busy, InRead
<1> QED BY <1>1, <1>2, <1>3

\* A control that is no seek does not move the stream.
LEMMA ReplyLeavesStream == ASSUME SourceObeys, StreamInv, TakeReply PROVE spos' = spos
<1>1. mcmd # "seek"
  BY DEF StreamInv, SourceObeys, NoCmd, Quit
<1> QED BY <1>1 DEF TakeReply

\* Every step of the main thread is a step of the file stream or a stutter.
LEMMA MainSteps ==
  ASSUME SourceObeys, StreamInv, DeliveredInv, StreamInv', DeliveredInv', Main
  PROVE  File!Next \/ UNCHANGED File!vars
<1>1. CASE Player
  <2>1. CASE Consume  BY <2>1, ConsumeSkips
  <2>2. CASE FillBuffer  BY <2>2, FillBufferCalls
  <2>3. ASSUME NEW pos \in SeekTargets, SeekInBuffer(pos) \/ SeekLong(pos) PROVE File!Next
    BY <2>3, SeekInBufferIsNear, SeekLongCalls
  <2>4. CASE Uninit \/ \E c \in Commands : SendControl(c)
    <3>1. UNCHANGED <<spos, bufPos, sbuf>> /\ ~Busy /\ ~Busy'
      BY <2>4 DEF Uninit, StartUninit, SendControl, stream, Busy, InRead
    <3> QED BY <3>1, OutsideCall, FileStutter
  <2> QED BY <1>1, <2>1, <2>2, <2>3, <2>4 DEF Player
<1>2. CASE Call
  <2>1. CASE ClearEof \/ CheckMax \/ CheckMin \/ WaitForData \/ Measure \/ Locate \/ Copy
             \/ Advance
    <3>1. UNCHANGED <<spos, goal, bufPos>>
      BY <2>1 DEF ClearEof, CheckMax, CheckMin, WaitForData, Measure, Locate, Copy, Advance,
         stream
    <3>2. Busy /\ Busy'
      BY <2>1 DEF ClearEof, CheckMax, CheckMin, WaitForData, Measure, Locate, Copy, Advance,
         Busy, InRead
    <3> QED BY <3>1, <3>2, InsideCall, FileStutter
  <2>2. CASE Return  BY <2>2, ReturnReturns
  <2>3. CASE EndPrefill \/ TakeReply \/ Stop \/ Join
    <3>1. UNCHANGED <<spos, bufPos, sbuf>>
      BY <2>3, ReplyLeavesStream DEF EndPrefill, TakeReply, Stop, Join, stream
    <3>2. ~Busy /\ ~Busy'
      BY <2>3 DEF EndPrefill, TakeReply, AfterControl, Stop, Join, Busy, InRead
    <3> QED BY <3>1, <3>2, OutsideCall, FileStutter
  <2> QED BY <1>2, <2>1, <2>2, <2>3 DEF Call
<1>3. CASE Interrupt
  <2>1. CASE mpc = "checkEof"
    <3>1. UNCHANGED <<spos, goal, bufPos>> /\ Busy /\ Busy'
      BY <1>3, <2>1 DEF Interrupt, InterruptPrefill, InterruptRead, InterruptControl, stream,
                         Busy, InRead
    <3> QED BY <3>1, InsideCall, FileStutter
  <2>2. CASE mpc # "checkEof"
    <3>1. UNCHANGED <<spos, bufPos, sbuf>> /\ ~Busy /\ ~Busy'
      BY <1>3, <2>2 DEF Interrupt, InterruptPrefill, InterruptRead, InterruptControl,
                         StartUninit, AfterControl, stream, Busy, InRead
    <3> QED BY <3>1, OutsideCall, FileStutter
  <2> QED BY <2>1, <2>2
<1> QED BY <1>1, <1>2, <1>3, Main DEF Main

\* Under GEKKO, with a source that obeys, whoever reads through the cache reads the file.
THEOREM CacheImplementsFileStream ==
  ASSUME Build = "gekko", SourceObeys PROVE Spec => ImplementsFileStream
<1>1. Init => File!Init
  <2> SUFFICES ASSUME Init PROVE File!Init
    OBVIOUS
  <2>1. ~Busy /\ Tell = 0 /\ Unread = <<>>
    BY DEF Init, Busy, InRead, Tell, Unread
  <2> QED BY <2>1 DEF File!Init, Tell, Unread
<1>2. CacheInv /\ CacheInv' /\ [Next]_vars => [File!Next]_(File!vars)
  <2> SUFFICES ASSUME CacheInv, CacheInv', [Next]_vars
               PROVE  File!Next \/ UNCHANGED File!vars
    OBVIOUS
  <2>1. StreamInv /\ DeliveredInv /\ StreamInv' /\ DeliveredInv'
    BY DEF CacheInv, ReaderInv
  <2>2. CASE Main
    BY <2>1, <2>2, MainSteps
  <2>3. CASE Filler \/ Ended \/ UNCHANGED vars
    <3>1. UNCHANGED mainOwn
      BY <2>3 DEF Filler, Snapshot, CheckEof, DropMax, DropMin, DropOffset, SeekSource,
         PlanFull, StartRead, ReadData, ReadNothing, NoData, PublishMax, WrapOffset, WakeUp,
         ObeyQuit, PollLength, NoControl, RefuseControl, StartControl, FinishControl,
         Ended, vars
    <3>2. UNCHANGED <<mpc, spos, goal, bufPos, sbuf>>
      BY <3>1 DEF mainOwn, calls, stream
    <3>3. CASE Busy
      <4>1. Busy'
        BY <3>2, <3>3 DEF Busy, InRead
      <4> QED BY <3>2, <3>3, <4>1, InsideCall, FileStutter
    <3>4. CASE ~Busy
      <4>1. ~Busy'
        BY <3>2, <3>4 DEF Busy, InRead
      <4> QED BY <3>2, <3>4, <4>1, OutsideCall, FileStutter
    <3> QED BY <3>3, <3>4
  <2> QED BY <2>2, <2>3 DEF Next
<1> QED BY <1>1, <1>2, CacheInvariant, PTL DEF Spec, ImplementsFileStream, File!Spec
==============================================================================
