---------------------------- MODULE AoGekko_proofs ----------------------------
(***************************************************************************)
(* Theorems about the ring of ao_gekko.c for any number and size of        *)
(* buffers: its counts stay in range; until an update of buffered is lost  *)
(* to the interrupt, the buffer the DMA reads is not written and blocks    *)
(* are heard in order; after that, an old block that is heard again was    *)
(* written less than once round the ring before.                           *)
(***************************************************************************)
EXTENDS AoGekko, TLAPS

\* The buffer k places after buffer i.
At(i, k) == IF i + k < BufferCount THEN i + k ELSE i + k - BufferCount

\* What play() relies on from one of its steps to the next.
Control ==
  /\ pc \in {"write", "load", "store"} => buffered <= BufferCount - 2
  /\ pc = "store" => buffered <= loaded
  /\ pc = "write" => todo > 0
  /\ pc \in {"space", "write", "load", "store"} => todo <= toDecode

\* Blocks in the ring that the DMA has not begun.
Waiting == written - heard

\* The n blocks from block first on are in ring b, from buffer i to before buffer fill.
Holds(b, fill, i, first, n) ==
  fill = At(i, n) /\ \A k \in Index : k < n => b[At(i, k)] = first + k

\* While no update of buffered is lost, the ring holds the waiting blocks in order from the
\* buffer that comes next, the DMA reads the one before it, and buffered counts them.
RingIsTrue ==
  /\ heard \in Nat
  /\ Waiting = buffered + (IF pc \in {"load", "store"} THEN 1 ELSE 0)
  /\ Holds(buffers, bufferFill, bufferPlay, heard + 1, Waiting)
  /\ dmaOn => heard > 0 /\ buffers[dmaBuffer] = heard /\ bufferPlay = Following(dmaBuffer)

\* How many blocks after that of buffer i have been written, when that is not silence.
After(i) == IF i < bufferFill THEN bufferFill - 1 - i ELSE bufferFill - 1 - i + BufferCount

\* Lost updates or not, each buffer has the last block that was written into it.
RingIsRecent ==
  \A i \in Index :
    \/ buffers[i] = Silence
    \/ buffers[i] = Torn /\ pc = "write" /\ i = bufferFill
    \/ buffers[i] = written - After(i)

Types == TypeOK /\ Control
IInv == Types /\ RingIsRecent /\ (lost = 0 => RingIsTrue)

------------------------------------------------------------------------------
(* Types and control.                                                       *)

\* The interrupt leaves types as they are and buffered no larger.
LEMMA BeginTransferTypes ==
  ASSUME TypeOK,
         NEW buffer \in Index, NEW length \in 0 .. BufferSize, NEW count \in 0 .. buffered, NEW next \in Index,
         BeginTransfer(buffer, length, count, next)
  PROVE  /\ buffered' \in 0 .. buffered /\ bufferPlay' \in Index
         /\ dmaOn' \in BOOLEAN /\ dmaBuffer' \in Index /\ dmaLeft' \in 0 .. BufferSize
         /\ playing' \in BOOLEAN /\ dmaLast' \in 0 .. BufferSize /\ heard' \in Nat \cup {Torn}
<1>1. /\ dmaOn' \in BOOLEAN /\ playing' \in BOOLEAN
  BY DEF BeginTransfer
<1>2. buffered' \in 0 .. buffered
  BY DEF BeginTransfer, TypeOK
<1>3. bufferPlay' \in Index
  BY AoAssumption DEF BeginTransfer, Following, Index
<1>4. dmaBuffer' \in Index /\ dmaLeft' \in 0 .. BufferSize
  BY DEF BeginTransfer
<1>5. dmaLast' \in 0 .. BufferSize
  BY AoAssumption DEF BeginTransfer, TypeOK
<1>6. heard' \in Nat \cup {Torn}
  BY DEF BeginTransfer, TypeOK
<1> QED
  BY <1>1, <1>2, <1>3, <1>4, <1>5, <1>6

LEMMA InitTypes == Init => Types
<1> SUFFICES ASSUME Init PROVE Types
  OBVIOUS
<1>1. buffers \in [Index -> Nat \cup {Torn}]
  BY DEF Init, Silence
<1>2. bufferFill \in Index /\ bufferPlay \in Index /\ dmaBuffer \in Index
  BY AoAssumption DEF Init, Index
<1>3. playing \in BOOLEAN /\ dmaOn \in BOOLEAN /\ processed \in BOOLEAN /\ paused \in BOOLEAN /\ tail \in BOOLEAN
  BY DEF Init
<1>4. /\ buffered \in 0 .. BufferCount - 1 /\ loaded \in 0 .. BufferCount - 2
      /\ dmaLast \in 0 .. BufferSize /\ dmaLeft \in 0 .. BufferSize
      /\ todo \in Nat /\ toDecode \in Nat /\ written \in Nat /\ lost \in Nat /\ heard \in Nat
  BY AoAssumption DEF Init
<1>5. pc = "idle"
  BY DEF Init
<1> QED
  BY <1>1, <1>2, <1>3, <1>4, <1>5 DEF Types, TypeOK, Control

LEMMA PlayTypes == Types /\ Play => Types'
<1> SUFFICES ASSUME Types, Play PROVE Types'
  OBVIOUS
<1> USE AoAssumption DEF Types, TypeOK, Control, Index, Torn, HasSpace, ring, counter, dma, player
<1>1. CASE NextBlock
  BY <1>1 DEF NextBlock
<1>2. CASE FinishBlock
  BY <1>2 DEF FinishBlock, Following
<1>3. CASE LoadCount
  BY <1>3 DEF LoadCount
<1>4. CASE StoreCount
  BY <1>4 DEF StoreCount
<1>5. CASE LeaveLoop
  BY <1>5 DEF LeaveLoop
<1>6. CASE StartDma
  <2>1. Following(bufferPlay) \in Index /\ buffered - 1 \in 0 .. buffered /\ BufferSize \in 0 .. BufferSize
    BY <1>6 DEF StartDma, ShouldStart, Following
  <2> QED
    BY <1>6, <2>1, BeginTransferTypes DEF StartDma
<1>7. CASE NoStart
  BY <1>7 DEF NoStart
<1> QED
  BY <1>1, <1>2, <1>3, <1>4, <1>5, <1>6, <1>7 DEF Play

LEMMA FeedTypes == Types /\ Feed => Types'
<1> SUFFICES ASSUME Types, Feed PROVE Types'
  OBVIOUS
<1> USE AoAssumption DEF Types, TypeOK, Control, Index, Torn, ring, counter, dma, player
<1>1. ASSUME NEW n \in 0 .. MaxOutburst, Fill(n) PROVE Types'
  <2>1. pc' \in {"ended", "space"} /\ processed' \in BOOLEAN
    BY <1>1, Zenon DEF Fill
  <2>2. todo' = n /\ n <= toDecode
    BY <1>1 DEF Fill
  <2>3. UNCHANGED <<ring, counter, playing, dmaLast, dma, loaded, player, heard, lost>>
    BY <1>1 DEF Fill
  <2> QED
    BY <2>1, <2>2, <2>3
<1>2. CASE EndFill
  BY <1>2 DEF EndFill
<1>3. CASE AskPlaying
  BY <1>3 DEF AskPlaying
<1>4. CASE AskLeft
  BY <1>4 DEF AskLeft
<1>5. CASE Judge
  BY <1>5 DEF Judge
<1> QED
  BY <1>1, <1>2, <1>3, <1>4, <1>5 DEF Feed

LEMMA UserTypes == Types /\ User => Types'
<1> SUFFICES ASSUME Types, User PROVE Types'
  OBVIOUS
<1> USE AoAssumption DEF Types, TypeOK, Control, Index, Torn, Silence, ring, counter, dma, player, call
<1>1. CASE Pause
  BY <1>1 DEF Pause
<1>2. CASE StopDma
  BY <1>2 DEF StopDma
<1>3. CASE Resume
  <2>1. UNCHANGED <<ring, call, toDecode, tail, lost>> /\ paused' = FALSE /\ pc = "idle"
    BY <1>3 DEF Resume
  <2>2. 0 .. buffered \subseteq 0 .. BufferCount - 1 /\ buffered \in 0 .. buffered
    OBVIOUS
  <2>3. /\ buffered' \in 0 .. buffered /\ bufferPlay' \in Index
        /\ dmaOn' \in BOOLEAN /\ dmaBuffer' \in Index /\ dmaLeft' \in 0 .. BufferSize
        /\ playing' \in BOOLEAN /\ dmaLast' \in 0 .. BufferSize /\ heard' \in Nat \cup {Torn}
    BY <1>3, <2>2, BeginTransferTypes DEF Resume
  <2> QED
    BY <2>1, <2>2, <2>3
<1>4. CASE Reset
  <2>1. /\ dmaOn' = FALSE /\ playing' = FALSE /\ paused' = FALSE /\ tail' \in BOOLEAN /\ processed' \in BOOLEAN
        /\ pc' = "idle"
    BY <1>4 DEF Reset
  <2>2. /\ bufferFill' \in Index /\ bufferPlay' \in Index /\ dmaBuffer' \in Index
        /\ buffered' \in 0 .. BufferCount - 1 /\ loaded' \in 0 .. BufferCount - 2
        /\ dmaLast' \in 0 .. BufferSize /\ dmaLeft' \in 0 .. BufferSize
        /\ todo' \in Nat /\ toDecode' \in Nat /\ written' \in Nat /\ lost' \in Nat /\ heard' \in Nat
    BY <1>4 DEF Reset
  <2>3. buffers' \in [Index -> Nat \cup {Torn}]
    BY <1>4 DEF Reset
  <2> QED
    BY <2>1, <2>2, <2>3
<1>5. CASE Uninit
  BY <1>5 DEF Uninit
<1> QED
  BY <1>1, <1>2, <1>3, <1>4, <1>5 DEF User

LEMMA HardwareTypes == Types /\ Hardware => Types'
<1> SUFFICES ASSUME Types, Hardware PROVE Types'
  OBVIOUS
<1> USE AoAssumption DEF Types, TypeOK, Control, Index, Torn, ring, counter, dma, player, call
<1>1. CASE DmaRuns
  BY <1>1 DEF DmaRuns
<1>2. CASE Interrupt
  BY <1>2, BeginTransferTypes DEF Interrupt
<1> QED
  BY <1>1, <1>2 DEF Hardware

LEMMA TypesStep == Types /\ [Next]_vars => Types'
<1>1. Types /\ UNCHANGED vars => Types'
  BY DEF Types, TypeOK, Control, vars, ring, counter, dma, call, player
<1> QED
  BY <1>1, PlayTypes, FeedTypes, UserTypes, HardwareTypes DEF Next

\* Whatever the interleaving of play() with the interrupt, also after lost updates, every index
\* and count of ao_gekko.c stays in its range: buffered never counts the buffer that is played.
THEOREM TypeCorrect == Spec => []TypeOK
<1>1. Types => TypeOK
  BY DEF Types
<1> QED
  BY <1>1, InitTypes, TypesStep, PTL DEF Spec

------------------------------------------------------------------------------
(* The ring.                                                                *)

\* Positions in the ring: the next one, and no position twice on the way round.
LEMMA Places ==
  ASSUME NEW i \in Index
  PROVE  At(i, 0) = i /\ Following(i) \in Index /\ \A k \in Index : At(i, k) \in Index
BY AoAssumption DEF At, Following, Index

LEMMA PlaceAfter ==
  ASSUME NEW i \in Index, NEW k \in Index, k < BufferCount - 1
  PROVE  /\ At(Following(i), k) = At(i, k + 1) /\ Following(At(i, k)) = At(i, k + 1)
         /\ At(Following(i), k) # i
BY AoAssumption DEF At, Following, Index

LEMMA PlacesDiffer ==
  ASSUME NEW i \in Index, NEW j \in Index, NEW k \in Index, j # k
  PROVE  At(i, j) # At(i, k)
BY AoAssumption DEF At, Index

\* Without its first block the ring holds the others.
LEMMA DropFirst ==
  ASSUME NEW i \in Index, NEW first \in Int, NEW n \in 1 .. BufferCount - 1, Holds(buffers, bufferFill, i, first, n)
  PROVE  buffers[i] = first /\ Holds(buffers, bufferFill, Following(i), first + 1, n - 1)
<1>1. 0 \in Index /\ n - 1 \in Index /\ n - 1 < BufferCount - 1
  BY AoAssumption DEF Index
<1>2. buffers[i] = first
  BY <1>1, Places DEF Holds
<1>3. bufferFill = At(Following(i), n - 1)
  BY <1>1, PlaceAfter DEF Holds
<1>4. ASSUME NEW k \in Index, k < n - 1 PROVE buffers[At(Following(i), k)] = first + 1 + k
  <2>1. k + 1 \in Index /\ k + 1 < n /\ k < BufferCount - 1
    BY <1>4, AoAssumption DEF Index
  <2>2. buffers[At(i, k + 1)] = first + (k + 1)
    BY <2>1 DEF Holds
  <2>3. At(Following(i), k) = At(i, k + 1)
    BY <2>1, PlaceAfter
  <2> QED
    BY <2>2, <2>3 DEF Index
<1> QED
  BY <1>2, <1>3, <1>4 DEF Holds

\* A transfer that begins with the buffer where the waiting blocks begin.
LEMMA BeginTransferRing ==
  ASSUME NEW next \in Index, NEW first \in Nat \ {0}, NEW n \in 0 .. BufferCount - 1, Holds(buffers, bufferFill, next, first, n),
         NEW length, NEW count \in 0 .. n, BeginTransfer(next, length, count, next), UNCHANGED ring
  PROVE  /\ count > 0 => /\ buffered' = count - 1 /\ heard' = first
                         /\ Holds(buffers', bufferFill', bufferPlay', first + 1, n - 1)
                         /\ buffers'[dmaBuffer'] = first /\ bufferPlay' = Following(dmaBuffer')
         /\ count = 0 => /\ buffered' = 0 /\ heard' = heard /\ ~dmaOn'
                         /\ Holds(buffers', bufferFill', bufferPlay', first, n)
<1>1. buffers' = buffers /\ bufferFill' = bufferFill
  BY DEF ring
<1>2. CASE count > 0
  <2>1. /\ buffered' = count - 1 /\ bufferPlay' = Following(next) /\ dmaBuffer' = next /\ heard' = buffers[next]
    BY <1>2 DEF BeginTransfer
  <2>2. buffers[next] = first /\ Holds(buffers, bufferFill, Following(next), first + 1, n - 1)
    BY <1>2, DropFirst
  <2> QED
    BY <1>1, <1>2, <2>1, <2>2
<1>3. CASE count = 0
  BY <1>1, <1>3 DEF BeginTransfer
<1> QED
  BY <1>2, <1>3

LEMMA InitRing == Init => RingIsTrue
BY AoAssumption, Places DEF Init, RingIsTrue, Waiting, Holds, Index, At

\* What a step needs of the ring before it.
LEMMA RingPlay == Types /\ RingIsTrue /\ Types' /\ Play /\ lost = 0 /\ lost' = 0 => RingIsTrue'
<1> SUFFICES ASSUME Types, RingIsTrue, Types', Play, lost = 0, lost' = 0 PROVE RingIsTrue'
  OBVIOUS
<1>0. /\ bufferPlay \in Index /\ dmaBuffer \in Index /\ bufferFill \in Index /\ BufferCount \in Nat
      /\ buffered \in 0 .. BufferCount - 1 /\ heard \in Nat /\ written \in Nat
      /\ buffers \in [Index -> Nat \cup {Torn}]
  BY AoAssumption DEF Types, TypeOK, RingIsTrue
<1>1. CASE NextBlock \/ FinishBlock
  <2>1. /\ Waiting = buffered /\ Waiting \in Index /\ Waiting < BufferCount - 1 /\ bufferFill = At(bufferPlay, Waiting)
    BY <1>0, <1>1 DEF NextBlock, FinishBlock, HasSpace, RingIsTrue, Waiting, Holds, Types, Control, Index
  <2>2. \A k \in Index : k < Waiting => buffers'[At(bufferPlay, k)] = heard + 1 + k
    <3>1. ASSUME NEW k \in Index, k < Waiting PROVE At(bufferPlay, k) # bufferFill /\ At(bufferPlay, k) \in Index
      <4>1. k # Waiting
        BY <3>1 DEF Index
      <4> QED
        BY <1>0, <2>1, <4>1, Places, PlacesDiffer
    <3>2. \A k \in Index \ {bufferFill} : buffers'[k] = buffers[k]
      BY <1>0, <1>1 DEF NextBlock, FinishBlock
    <3> QED
      BY <3>1, <3>2 DEF RingIsTrue, Holds
  <2>3. dmaOn => heard > 0 /\ buffers'[dmaBuffer] = heard /\ bufferPlay = Following(dmaBuffer)
    <3>1. dmaOn => dmaBuffer # bufferFill
      BY <1>0, <2>1, PlaceAfter DEF RingIsTrue
    <3> QED
      BY <1>0, <1>1, <3>1 DEF NextBlock, FinishBlock, RingIsTrue
  <2>4. CASE NextBlock
    <3>1. /\ UNCHANGED <<bufferFill, written, bufferPlay, buffered, dmaOn, dmaBuffer, heard>> /\ pc' = "write" /\ pc = "space"
      BY <2>4 DEF NextBlock, counter, dma
    <3> QED
      BY <1>0, <2>1, <2>2, <2>3, <3>1 DEF RingIsTrue, Holds, Waiting
  <2>5. CASE FinishBlock
    <3>1. /\ UNCHANGED <<bufferPlay, buffered, dmaOn, dmaBuffer, heard>> /\ pc' = "load" /\ pc = "write"
          /\ written' = written + 1 /\ bufferFill' = Following(bufferFill) /\ buffers'[bufferFill] = written + 1
      BY <1>0, <2>5 DEF FinishBlock, counter, dma
    <3>2. Waiting' = Waiting + 1 /\ bufferFill' = At(bufferPlay, Waiting + 1)
      BY <1>0, <2>1, <3>1, PlaceAfter DEF Waiting
    <3>3. \A k \in Index : k < Waiting + 1 => buffers'[At(bufferPlay, k)] = heard + 1 + k
      <4> SUFFICES ASSUME NEW k \in Index, k < Waiting + 1 PROVE buffers'[At(bufferPlay, k)] = heard + 1 + k
        OBVIOUS
      <4>1. CASE k < Waiting
        BY <4>1, <2>2
      <4>2. CASE k = Waiting
        BY <1>0, <4>2, <2>1, <3>1 DEF Waiting
      <4> QED
        BY <2>1, <4>1, <4>2 DEF Index
    <3> QED
      BY <1>0, <2>1, <2>3, <3>1, <3>2, <3>3 DEF RingIsTrue, Holds
  <2> QED
    BY <1>1, <2>4, <2>5
<1>2. CASE LoadCount \/ LeaveLoop \/ NoStart
  <2>1. UNCHANGED <<ring, counter, dma, heard>>
    BY <1>2 DEF LoadCount, LeaveLoop, NoStart
  <2>2. (pc \in {"load", "store"}) <=> (pc' \in {"load", "store"})
    BY <1>2 DEF LoadCount, LeaveLoop, NoStart
  <2> QED
    BY <2>1, <2>2 DEF RingIsTrue, Holds, Waiting, ring, counter, dma
<1>3. CASE StoreCount
  <2>1. UNCHANGED <<ring, bufferPlay, dma, heard>> /\ pc = "store" /\ pc' = "space" /\ buffered' = loaded + 1
    BY <1>3 DEF StoreCount
  <2>2. buffered = loaded
    BY <1>3 DEF StoreCount, Types, TypeOK, Control
  <2> QED
    BY <2>1, <2>2, <1>0 DEF RingIsTrue, Holds, Waiting, ring, dma
<1>4. CASE StartDma
  <2> DEFINE next == Following(bufferPlay)
  <2>1. /\ buffered > 1 /\ BeginTransfer(next, BufferSize, buffered - 1, next) /\ pc = "start" /\ pc' = "played"
        /\ UNCHANGED ring
    BY <1>0, <1>4, AoAssumption DEF StartDma, ShouldStart
  <2>2. Waiting = buffered /\ Holds(buffers, bufferFill, next, heard + 2, buffered - 1)
    BY <1>0, <2>1, DropFirst DEF RingIsTrue
  <2>3. next \in Index /\ heard + 2 \in Nat \ {0} /\ buffered - 1 \in 0 .. BufferCount - 1 /\ buffered - 1 \in 0 .. buffered - 1
    BY <1>0, <2>1, Places
  <2>4. /\ buffered' = buffered - 2 /\ heard' = heard + 2 /\ Holds(buffers', bufferFill', bufferPlay', heard + 3, buffered - 2)
        /\ buffers'[dmaBuffer'] = heard + 2 /\ bufferPlay' = Following(dmaBuffer')
    <3>1. /\ buffered' = buffered - 1 - 1 /\ heard' = heard + 2 /\ Holds(buffers', bufferFill', bufferPlay', heard + 2 + 1, buffered - 1 - 1)
          /\ buffers'[dmaBuffer'] = heard + 2 /\ bufferPlay' = Following(dmaBuffer')
      BY <1>0, <2>1, <2>2, <2>3, BeginTransferRing
    <3> QED
      BY <1>0, <3>1
  <2> QED
    BY <1>0, <2>1, <2>2, <2>4 DEF RingIsTrue, Waiting, ring
<1> QED
  BY <1>1, <1>2, <1>3, <1>4 DEF Play

\* A transfer that begins with what waits, after a pause or an interrupt.
LEMMA RingNextTransfer ==
  ASSUME Types, RingIsTrue, NEW length, BeginTransfer(bufferPlay, length, buffered, bufferPlay),
         UNCHANGED ring, UNCHANGED pc
  PROVE  RingIsTrue'
<1>1. /\ bufferPlay \in Index /\ heard \in Nat /\ heard + 1 \in Nat \ {0} /\ written \in Nat /\ buffered \in Nat
      /\ Waiting \in 0 .. BufferCount - 1 /\ buffered \in 0 .. Waiting
      /\ Holds(buffers, bufferFill, bufferPlay, heard + 1, Waiting)
  BY AoAssumption DEF Types, TypeOK, Control, RingIsTrue, Waiting
<1>2. CASE buffered > 0
  <2>1. /\ buffered' = buffered - 1 /\ heard' = heard + 1
        /\ Holds(buffers', bufferFill', bufferPlay', heard + 1 + 1, Waiting - 1)
        /\ buffers'[dmaBuffer'] = heard + 1 /\ bufferPlay' = Following(dmaBuffer')
    BY <1>1, <1>2, BeginTransferRing
  <2>2. Waiting' = Waiting - 1
    BY <1>1, <2>1 DEF Waiting, ring
  <2> QED
    BY <1>1, <2>1, <2>2 DEF RingIsTrue
<1>3. CASE buffered = 0
  <2>1. buffered' = 0 /\ heard' = heard /\ ~dmaOn' /\ Holds(buffers', bufferFill', bufferPlay', heard + 1, Waiting)
    BY <1>1, <1>3, BeginTransferRing
  <2>2. Waiting' = Waiting
    BY <2>1 DEF Waiting, ring
  <2> QED
    BY <1>1, <1>3, <2>1, <2>2 DEF RingIsTrue
<1> QED
  BY <1>1, <1>2, <1>3

LEMMA RingReset == Types /\ Reset => RingIsTrue'
<1> SUFFICES ASSUME Types, Reset PROVE RingIsTrue'
  OBVIOUS
<1>1. /\ buffered' = 0 /\ bufferFill' = 0 /\ bufferPlay' = 0 /\ heard' = written' /\ written' \in Nat
      /\ ~dmaOn' /\ pc' = "idle"
  BY DEF Reset, Types, TypeOK
<1> QED
  <2>0. 0 \in Index
    BY AoAssumption DEF Index
  <2>1. Waiting' = 0
    <3>1. written' = written /\ heard' = written /\ written \in Nat
      BY DEF Reset, Types, TypeOK
    <3> QED
      BY <3>1 DEF Waiting
  <2>3. At(0, 0) = 0
    BY <2>0, Places
  <2>2. \A k \in Index : ~(k < 0)
    BY DEF Index
  <2> QED
    BY <1>1, <2>1, <2>2, <2>3 DEF RingIsTrue, Holds

LEMMA RingStep == IInv /\ [Next]_vars => (lost' = 0 => RingIsTrue')
<1> SUFFICES ASSUME IInv, [Next]_vars, lost' = 0, Types' PROVE RingIsTrue'
  BY TypesStep DEF IInv
<1>1. CASE Reset
  BY <1>1, RingReset DEF IInv
<1>2. ASSUME ~Reset PROVE lost = 0
  <2>1. CASE StoreCount
    BY <2>1 DEF StoreCount, IInv, Types, TypeOK, Control
  <2>2. CASE ~StoreCount
    BY <1>2, <2>2 DEF Next, Play, Feed, User, Hardware, NextBlock, FinishBlock, LoadCount, LeaveLoop, StartDma,
      NoStart, Fill, EndFill, AskPlaying, AskLeft, Judge, Pause, StopDma, Resume, Uninit, DmaRuns, Interrupt, vars
  <2> QED
    BY <2>1, <2>2
<1>3. CASE ~Reset /\ (Resume \/ Interrupt)
  <2>1. PICK length : BeginTransfer(bufferPlay, length, buffered, bufferPlay)
    BY <1>3 DEF Resume, Interrupt
  <2> QED
    BY <1>1, <1>2, <1>3, <2>1, RingNextTransfer DEF Resume, Interrupt, call, IInv
<1>4. CASE Play
  BY <1>1, <1>2, <1>4, RingPlay DEF IInv
<1>5. ASSUME ~Reset,
             \/ \E n \in 0 .. MaxOutburst : Fill(n)
             \/ EndFill \/ AskPlaying \/ AskLeft \/ Judge \/ Pause \/ StopDma \/ Uninit
             \/ DmaRuns \/ UNCHANGED vars
      PROVE  RingIsTrue'
  <2>1. UNCHANGED <<ring, bufferPlay, buffered, dmaBuffer, heard>> /\ (dmaOn' => dmaOn)
    BY <1>5 DEF Fill, EndFill, AskPlaying, AskLeft, Judge, Pause, StopDma, Uninit, DmaRuns, vars, counter, dma
  <2>2. (pc \in {"load", "store"}) <=> (pc' \in {"load", "store"})
    BY <1>5 DEF Fill, EndFill, AskPlaying, AskLeft, Judge, Pause, StopDma, Uninit, DmaRuns, vars, call
  <2>3. RingIsTrue
    BY <1>2, <1>5 DEF IInv
  <2> QED
    BY <2>1, <2>2, <2>3 DEF RingIsTrue, Holds, Waiting, ring
<1> QED
  BY <1>1, <1>3, <1>4, <1>5 DEF Next, Feed, User, Hardware

------------------------------------------------------------------------------
(* What is in the buffers when updates may have been lost.                  *)

LEMMA InitRecent == Init => RingIsRecent
BY DEF Init, RingIsRecent

LEMMA RecentStep == Types /\ RingIsRecent /\ [Next]_vars => RingIsRecent'
<1> SUFFICES ASSUME Types, RingIsRecent, [Next]_vars PROVE RingIsRecent'
  OBVIOUS
<1> USE AoAssumption DEF Index
<1>0. /\ bufferFill \in Index /\ written \in Nat /\ buffers \in [Index -> Nat \cup {Torn}]
      /\ BufferCount \in Nat
  BY DEF Types, TypeOK
<1>1. CASE NextBlock
  <2>1. /\ buffers' = [buffers EXCEPT ![bufferFill] = Torn] /\ pc' = "write" /\ pc = "space"
        /\ bufferFill' = bufferFill /\ written' = written
    BY <1>1 DEF NextBlock
  <2> QED
    BY <1>0, <2>1 DEF RingIsRecent, After
<1>2. CASE FinishBlock
  <2>1. /\ buffers' = [buffers EXCEPT ![bufferFill] = written + 1] /\ pc = "write"
        /\ bufferFill' = Following(bufferFill) /\ written' = written + 1
    BY <1>2 DEF FinishBlock
  <2> SUFFICES ASSUME NEW i \in Index
               PROVE  buffers'[i] = Silence \/ buffers'[i] = written' - After(i)'
    BY DEF RingIsRecent
  <2>2. CASE i = bufferFill
    <3>1. After(i)' = 0
      BY <1>0, <2>1, <2>2 DEF After, Following
    <3> QED
      BY <1>0, <2>1, <2>2, <3>1
  <2>3. CASE i # bufferFill
    <3>1. After(i)' = After(i) + 1 /\ After(i) \in Int
      BY <1>0, <2>1, <2>3 DEF After, Following
    <3>2. buffers'[i] = Silence \/ buffers'[i] = written - After(i)
      BY <1>0, <2>1, <2>3 DEF RingIsRecent
    <3> QED
      BY <1>0, <2>1, <3>1, <3>2
  <2> QED
    BY <2>2, <2>3
<1>3. CASE Reset
  BY <1>3 DEF Reset, RingIsRecent
<1>4. CASE DmaRuns \/ Interrupt \/ UNCHANGED vars
  <2>1. UNCHANGED <<buffers, bufferFill, written, pc>>
    BY <1>4 DEF DmaRuns, Interrupt, vars, ring, call
  <2> QED
    BY <2>1 DEF RingIsRecent, After
<1>5. ASSUME \/ LoadCount \/ StoreCount \/ LeaveLoop \/ StartDma \/ NoStart
             \/ \E n \in 0 .. MaxOutburst : Fill(n)
             \/ EndFill \/ AskPlaying \/ AskLeft \/ Judge \/ Pause \/ StopDma \/ Resume \/ Uninit
      PROVE  RingIsRecent'
  <2>1. UNCHANGED <<buffers, bufferFill, written>> /\ pc # "write"
    BY <1>5 DEF LoadCount, StoreCount, LeaveLoop, StartDma, NoStart, Fill, EndFill, AskPlaying,
      AskLeft, Judge, Pause, StopDma, Resume, Uninit, ring
  <2> QED
    BY <2>1 DEF RingIsRecent, After
<1> QED
  BY <1>1, <1>2, <1>3, <1>4, <1>5 DEF Next, Play, Feed, User, Hardware

\* What the DMA finds in any buffer is silence, what is being written, or no older than the ring.
LEMMA FoundInRing ==
  ASSUME Types, RingIsRecent, NEW i \in Index PROVE LeftInRing(buffers[i])
<1>1. After(i) \in 0 .. BufferCount - 1 /\ written \in Nat /\ BufferCount \in Nat
  BY AoAssumption DEF Types, TypeOK, After, Index
<1>2. CASE buffers[i] = written - After(i)
  BY <1>1, <1>2 DEF LeftInRing
<1> QED
  BY <1>2 DEF RingIsRecent, LeftInRing

------------------------------------------------------------------------------

LEMMA InitInductive == Init => IInv
BY InitTypes, InitRing, InitRecent DEF IInv

LEMMA InductiveStep == IInv /\ [Next]_vars => IInv'
BY TypesStep, RingStep, RecentStep DEF IInv

\* The DMA hears the block it began with: play() and the interrupt keep to their own buffers.
THEOREM Clean == Spec => []PlaysCleanly
<1>1. IInv => PlaysCleanly
  BY DEF IInv, RingIsTrue, PlaysCleanly
<1> QED
  BY <1>1, InitInductive, InductiveStep, PTL DEF Spec

\* buffered counts the blocks written and not yet begun, until an update of it is lost.
THEOREM CountTrue == Spec => []CountIsTrue
<1>1. IInv => CountIsTrue
  BY DEF IInv, Types, TypeOK, RingIsTrue, CountIsTrue, Waiting
<1> QED
  BY <1>1, InitInductive, InductiveStep, PTL DEF Spec

\* A step of the DMA to another block goes to the next one, or to the one after it when play()
\* starts the DMA; after a lost update also to what the ring still has.
THEOREM HeardInOrder == Spec => InOrder
<1> DEFINE Order == dmaOn' /\ heard' # heard =>
                      \/ heard' = heard + 1
                      \/ heard' = heard + 2 /\ ~playing
                      \/ lost > 0 /\ LeftInRing(heard')
<1>1. IInv /\ [Next]_vars => [Order]_vars
  <2> SUFFICES ASSUME IInv, [Next]_vars, dmaOn', heard' # heard
               PROVE  \/ heard' = heard + 1
                      \/ heard' = heard + 2 /\ ~playing
                      \/ lost > 0 /\ LeftInRing(heard')
    OBVIOUS
  <2>0. /\ Types /\ RingIsRecent /\ bufferPlay \in Index /\ Following(bufferPlay) \in Index
        /\ lost \in Nat /\ buffered \in Nat /\ written \in Nat /\ BufferCount \in Nat
    BY AoAssumption DEF IInv, Types, TypeOK, Following, Index
  <2>1. CASE Interrupt \/ Resume
    <3>1. buffered > 0 /\ heard' = buffers[bufferPlay]
      BY <2>0, <2>1 DEF Interrupt, Resume, BeginTransfer
    <3>2. CASE lost = 0
      <4>1. /\ RingIsTrue /\ heard \in Nat
            /\ Waiting \in 0 .. BufferCount - 1 /\ buffered \in 0 .. Waiting
        BY <2>0, <3>2 DEF IInv, Types, TypeOK, Control, RingIsTrue, Waiting
      <4>2. buffers[bufferPlay] = heard + 1
        BY <2>0, <3>1, <4>1, DropFirst DEF RingIsTrue
      <4> QED
        BY <3>1, <4>2
    <3>3. CASE lost > 0
      BY <2>0, <3>1, <3>3, FoundInRing
    <3> QED
      BY <2>0, <3>2, <3>3
  <2>2. CASE StartDma
    <3>1. heard' = buffers[Following(bufferPlay)] /\ buffered > 1 /\ ~playing /\ pc = "start"
      BY <2>0, <2>2, AoAssumption DEF StartDma, ShouldStart, BeginTransfer
    <3>2. CASE lost = 0
      <4>1. /\ RingIsTrue /\ heard \in Nat
            /\ Waiting \in 0 .. BufferCount - 1 /\ buffered \in 0 .. Waiting
        BY <2>0, <3>2 DEF IInv, Types, TypeOK, Control, RingIsTrue, Waiting
      <4>2. Holds(buffers, bufferFill, Following(bufferPlay), heard + 2, Waiting - 1)
        BY <2>0, <3>1, <4>1, DropFirst DEF RingIsTrue
      <4>3. Waiting - 1 \in 1 .. BufferCount - 1
        BY <2>0, <3>1, <4>1
      <4>4. buffers[Following(bufferPlay)] = heard + 2
        BY <2>0, <4>1, <4>2, <4>3, DropFirst
      <4> QED
        BY <3>1, <4>4
    <3>3. CASE lost > 0
      BY <2>0, <3>1, <3>3, FoundInRing
    <3> QED
      BY <2>0, <3>2, <3>3
  <2>3. CASE Reset
    BY <2>3 DEF Reset
  <2>4. ASSUME \/ NextBlock \/ FinishBlock \/ LoadCount \/ StoreCount \/ LeaveLoop \/ NoStart
               \/ \E n \in 0 .. MaxOutburst : Fill(n)
               \/ EndFill \/ AskPlaying \/ AskLeft \/ Judge \/ Pause \/ StopDma \/ Uninit
               \/ DmaRuns \/ UNCHANGED vars
        PROVE  heard' = heard
    BY <2>4 DEF NextBlock, FinishBlock, LoadCount, StoreCount, LeaveLoop, NoStart, Fill, EndFill, AskPlaying,
      AskLeft, Judge, Pause, StopDma, Uninit, DmaRuns, vars
  <2> QED
    BY <2>1, <2>2, <2>3, <2>4 DEF Next, Play, Feed, User, Hardware
<1> QED
  BY <1>1, InitInductive, InductiveStep, PTL DEF Spec, InOrder
=============================================================================
