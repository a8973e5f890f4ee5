--------------------------- MODULE InputQueue_proofs ---------------------------
(***************************************************************************)
(* Theorems about InputQueue for any keys, bindings, filters and sizes of  *)
(* the two queues.                                                         *)
(***************************************************************************)
EXTENDS InputQueue, TLAPS, WellFoundedInduction, SequenceTheorems

------------------------------------------------------------------------------
(* The autorepeat, and one command for each press.                          *)

RepeatIsTrue == arState \in -1 .. 1 /\ RepeatsWhatIsHeld

LEMMA RepeatStep == RepeatIsTrue /\ [Next]_vars => RepeatIsTrue'
<1> SUFFICES ASSUME RepeatIsTrue, [Next]_vars PROVE RepeatIsTrue'
  OBVIOUS
<1> USE DEF RepeatIsTrue, RepeatsWhatIsHeld, CmdOf
<1>1. CASE InterpretPress
  BY <1>1 DEF InterpretPress, held
<1>2. CASE InterpretRelease
  BY <1>2 DEF InterpretRelease
<1>3. CASE Autorepeat
  BY <1>3 DEF Autorepeat, MayRepeat, held
<1>4. ASSUME ~InterpretPress, ~InterpretRelease, ~Autorepeat PROVE UNCHANGED <<keyDown, arState, arCmd>>
  BY <1>4 DEF Next, Device, GetCmd, Callers, Press, Release, Type, NoCode, RefuseRelease, WriteBehindArray, NoRepeat, SlaveCmd, Eat,
    Pass, Call, Looked, Take, Taken, Ended, Begin, held, repeat, devices, vars
<1>5. CASE UNCHANGED <<keyDown, arState, arCmd>>
  BY <1>5
<1> QED
  BY <1>1, <1>2, <1>3, <1>4, <1>5

\* What repeats is the command of the keys that are down: every press and every release stops
\* or restarts the autorepeat.
THEOREM RepeatsHeld == Spec => []RepeatsWhatIsHeld
<1>1. Init => RepeatIsTrue
  BY DEF Init, RepeatIsTrue, RepeatsWhatIsHeld
<1>2. RepeatIsTrue => RepeatsWhatIsHeld
  BY DEF RepeatIsTrue
<1> QED
  BY <1>1, <1>2, RepeatStep, PTL DEF Spec

\* last_key_down is set by presses only, and cleared with every command a release gives.
PressIsUnspent == lastDown => ~spent

LEMMA UnspentStep == PressIsUnspent /\ [Next]_vars => PressIsUnspent'
<1> SUFFICES ASSUME PressIsUnspent, [Next]_vars PROVE PressIsUnspent'
  OBVIOUS
<1>1. CASE InterpretPress
  BY <1>1 DEF InterpretPress, PressIsUnspent, held
<1>2. CASE InterpretRelease
  BY <1>2 DEF InterpretRelease, PressIsUnspent
<1>3. ASSUME ~InterpretPress, ~InterpretRelease PROVE UNCHANGED <<lastDown, spent>>
  BY <1>3 DEF Next, Device, GetCmd, Callers, Press, Release, Type, NoCode, RefuseRelease, WriteBehindArray, Autorepeat, NoRepeat,
    SlaveCmd, Eat, Pass, Call, Looked, Take, Taken, Ended, Begin, held, history, vars
<1>4. CASE UNCHANGED <<lastDown, spent>>
  BY <1>4 DEF PressIsUnspent
<1> QED
  BY <1>1, <1>2, <1>3, <1>4

\* Letting go the keys of a combination one after the other gives one command.
THEOREM OneCommand == Spec => OneCommandPerPress
<1>1. Init => PressIsUnspent
  BY DEF Init, PressIsUnspent
<1>2. PressIsUnspent /\ [Next]_vars => [released' /\ ~released /\ IsDown(fifo[1].key) => ~spent]_vars
  <2> SUFFICES ASSUME PressIsUnspent, [Next]_vars, released', ~released, IsDown(fifo[1].key) PROVE ~spent
    OBVIOUS
  <2>1. CASE InterpretRelease
    <3>1. ReleaseCmd(fifo[1].key, keyDown) # NoCmd
      BY <2>1 DEF InterpretRelease
    <3> QED
      BY <3>1 DEF ReleaseCmd, PressIsUnspent
  <2>2. ASSUME ~InterpretRelease PROVE FALSE
    BY <2>2 DEF Next, Device, GetCmd, Callers, Press, Release, Type, NoCode, InterpretPress, RefuseRelease, WriteBehindArray,
      Autorepeat, NoRepeat, SlaveCmd, Eat, Pass, Call, Looked, Take, Taken, Ended, Begin, history, vars
  <2> QED
    BY <2>1, <2>2
<1> QED
  BY <1>1, <1>2, UnspentStep, PTL DEF Spec, OneCommandPerPress

------------------------------------------------------------------------------
(* The ring of key codes.                                                   *)

\* A press goes no further than the half of the ring that is not kept for releases.
PressesFirst(q) ==
  /\ q \in Seq(KeyCodes) /\ Len(q) < KeyFifoSize
  /\ \A i \in 1 .. Len(q) : i > KeyFifoSize - (KeyFifoSize \div 2) => q[i].down = FALSE

\* mplayer_put_key_internal keeps to it, whatever the code.
LEMMA PutPressesFirst ==
  ASSUME NEW q, PressesFirst(q), NEW code \in KeyCodes
  PROVE  PressesFirst(Put(q, code))
<1>1. CASE Put(q, code) = q
  BY <1>1
<1>2. CASE Put(q, code) # q
  <2>1. /\ Put(q, code) = Append(q, code) /\ FifoFree(q) # 0
        /\ ~(code.down /\ FifoFree(q) < KeyFifoSize \div 2)
    BY <1>2 DEF Put
  <2>2. q \in Seq(KeyCodes) /\ Len(q) \in Nat /\ KeyFifoSize \in Nat
    BY InputAssumption DEF PressesFirst
  <2>3. Len(q) + 1 < KeyFifoSize
    BY <2>1, <2>2 DEF FifoFree, PressesFirst
  <2>4. Len(q) + 1 > KeyFifoSize - (KeyFifoSize \div 2) => code.down = FALSE
    <3>1. FifoFree(q) < KeyFifoSize \div 2 => ~code.down
      BY <2>1
    <3>2. Len(q) + 1 > KeyFifoSize - (KeyFifoSize \div 2) => FifoFree(q) < KeyFifoSize \div 2
      BY <2>2 DEF FifoFree
    <3> QED
      BY <3>1, <3>2 DEF KeyCodes
  <2>5. /\ Append(q, code) \in Seq(KeyCodes) /\ Len(Append(q, code)) = Len(q) + 1
        /\ Append(q, code)[Len(q) + 1] = code /\ \A i \in 1 .. Len(q) : Append(q, code)[i] = q[i]
    BY <2>2
  <2> QED
    BY <2>1, <2>2, <2>3, <2>4, <2>5 DEF PressesFirst
<1> QED
  BY <1>1, <1>2

\* So does taking the oldest code.
LEMMA TailPressesFirst ==
  ASSUME NEW q, PressesFirst(q), q # <<>>
  PROVE  PressesFirst(Tail(q))
<1>1. /\ Tail(q) \in Seq(KeyCodes) /\ Len(Tail(q)) = Len(q) - 1 /\ Len(q) \in Nat \ {0}
      /\ \A i \in 1 .. Len(q) - 1 : Tail(q)[i] = q[i + 1]
  BY DEF PressesFirst
<1> QED
  BY <1>1, InputAssumption DEF PressesFirst

LEMMA PressesFirstStep == PressesFirst(fifo) /\ [Next]_vars => PressesFirst(fifo)'
<1> SUFFICES ASSUME PressesFirst(fifo), [Next]_vars PROVE PressesFirst(fifo')
  BY DEF PressesFirst
<1>1. \A k \in Keys \cup TypedKeys, down \in BOOLEAN : Code(Single(k), down) \in KeyCodes /\ Code(Double(k), down) \in KeyCodes
  BY DEF Code, Single, Double, KeyCodes, Clicks
<1>2. ASSUME NEW q, PressesFirst(q), NEW k \in Keys \cup TypedKeys, NEW fast PROVE PressesFirst(PutDouble(q, k, fast))
  BY <1>1, <1>2, PutPressesFirst DEF PutDouble
<1>3. ASSUME NEW k \in Keys, Press(k) PROVE PressesFirst(fifo')
  <2>1. PressesFirst(Put(fifo, Code(Single(k), TRUE)))
    BY <1>1, PutPressesFirst
  <2> QED
    BY <1>2, <1>3, <2>1 DEF Press
<1>4. ASSUME NEW k \in Keys \cup TypedKeys, PutRelease(k) PROVE PressesFirst(fifo')
  <2>1. PressesFirst(Put(fifo, Code(Single(k), FALSE)))
    BY <1>1, PutPressesFirst
  <2> QED
    BY <1>2, <1>4, <2>1 DEF PutRelease
<1>5. ASSUME \E down \in BOOLEAN : Reading(down) PROVE PressesFirst(fifo')
  BY <1>5, TailPressesFirst DEF Reading
<1>6. CASE UNCHANGED fifo
  BY <1>6
<1>7. CASE Device
  BY <1>3, <1>4, <1>7 DEF Device, Release, Type
<1>8. CASE InterpretPress \/ InterpretRelease \/ RefuseRelease
  BY <1>5, <1>8 DEF InterpretPress, InterpretRelease, RefuseRelease
<1>9. ASSUME NoCode \/ WriteBehindArray \/ Autorepeat \/ NoRepeat \/ SlaveCmd \/ Eat \/ Pass \/ Callers \/ Ended
             \/ UNCHANGED vars
      PROVE  UNCHANGED fifo
  BY <1>9 DEF NoCode, WriteBehindArray, Ended, Autorepeat, NoRepeat, SlaveCmd, Eat, Pass, Callers, Call, Looked, Take, Taken, Ended, Begin, devices, vars
<1> QED
  BY <1>6, <1>7, <1>8, <1>9 DEF Next, GetCmd

\* "Reserve some space for key release events": the last places of the ring hold releases only.
THEOREM Reserve == Spec => []ReserveIsForReleases
<1>1. Init => PressesFirst(fifo)
  BY InputAssumption DEF Init, PressesFirst
<1>2. PressesFirst(fifo) => ReserveIsForReleases
  BY InputAssumption DEF PressesFirst, ReserveIsForReleases
<1> QED
  BY <1>1, <1>2, PressesFirstStep, PTL DEF Spec

------------------------------------------------------------------------------
(* Looking at a command and taking it.                                      *)

\* The command peeked at is the next one of the queue, and no filter eats it: so the call that
\* takes it finds it in the queue, where it passes again.
PeekIsNext ==
  /\ pc \in {"idle", "key", "repeat", "slave", "filter", "got", "drop", "run", "undefined"}
  /\ queue \in Seq(Commands) /\ ret \in Commands /\ arCmd \in Commands
  /\ peeked # NoCmd => peeked \notin EatenCmds
  /\ pc \in {"idle", "drop", "run"} /\ peeked # NoCmd => queue # <<>> /\ Head(queue) = peeked
  /\ pc \in {"key", "repeat", "slave"} => queue = <<>> /\ ~fromQueue /\ peeked = NoCmd /\ caller \notin {"drop", "run"}
  /\ pc = "filter" /\ ~fromQueue => queue = <<>> /\ peeked = NoCmd /\ caller \notin {"drop", "run"}
  /\ pc = "filter" /\ fromQueue /\ peeked # NoCmd => ret = peeked
  /\ pc = "filter" /\ fromQueue /\ peek => queue # <<>> /\ Head(queue) = ret
  /\ pc = "got" /\ peek /\ ret # NoCmd => queue # <<>> /\ Head(queue) = ret /\ ret \notin EatenCmds
  /\ pc = "got" /\ peeked # NoCmd => ret = peeked

\* What is taken after a look was seen, and what is dropped is nothing the main loop has to get.
DropIsSeen ==
  /\ caller \in {"main", "drop", "run"} \/ peek
  /\ pc = "drop" => peeked \notin KeptCmds \cup {NoCmd}
  /\ pc = "run" => peeked # NoCmd
  /\ caller = "drop" /\ pc \in {"filter", "got"} => peeked \notin KeptCmds \cup {NoCmd} /\ ~peek
  /\ caller = "run" /\ pc \in {"filter", "got"} => peeked # NoCmd /\ ~peek

Seen == PeekIsNext /\ DropIsSeen

LEMMA SeenCall == Seen /\ (Call \/ Take) => Seen'
<1> SUFFICES ASSUME Seen, Call \/ Take PROVE Seen'
  OBVIOUS
<1> USE DEF Seen, PeekIsNext, DropIsSeen
<1>1. UNCHANGED <<peeked, arCmd>>
  BY DEF Call, Take, Begin, repeat
<1>2. ASSUME pc = "idle", NEW who \in {"main", "pause", "wait"}, NEW only \in BOOLEAN, who = "main" \/ only,
             Begin(who, only)
      PROVE  Seen'
  <2>1. CASE queue # <<>>
    <3>1. /\ pc' = "filter" /\ ret' = Head(queue) /\ fromQueue' = TRUE /\ caller' = who /\ peek' = only
          /\ (peek' => queue' = queue) /\ queue' \in {queue, Tail(queue)}
      BY <1>2, <2>1, Zenon DEF Begin
    <3>2. Head(queue) \in Commands /\ Tail(queue) \in Seq(Commands)
      BY <2>1
    <3> QED
      BY <1>1, <1>2, <2>1, <3>1, <3>2
  <2>2. CASE queue = <<>>
    <3>1. pc' = "key" /\ ret' = NoCmd /\ fromQueue' = FALSE /\ caller' = who /\ peek' = only /\ queue' = queue
      BY <1>2, <2>2, Zenon DEF Begin
    <3>2. NoCmd \in Commands
      BY DEF Commands
    <3> QED
      BY <1>1, <1>2, <2>2, <3>1, <3>2
  <2> QED
    BY <2>1, <2>2
<1>3. ASSUME pc \in {"drop", "run"}, Begin(pc, FALSE) PROVE Seen'
  <2>1. /\ queue # <<>> /\ Head(queue) = peeked /\ peeked # NoCmd
        /\ pc = "drop" => peeked \notin KeptCmds
    BY <1>3
  <2>2. /\ caller' = pc /\ pc' = "filter" /\ ret' = Head(queue) /\ fromQueue' = TRUE /\ peek' = FALSE /\ queue' = Tail(queue)
    BY <1>3, <2>1 DEF Begin
  <2>3. Head(queue) \in Commands /\ Tail(queue) \in Seq(Commands)
    BY <2>1
  <2> QED
    BY <1>1, <1>3, <2>1, <2>2, <2>3
<1> QED
  BY <1>2, <1>3 DEF Call, Take

LEMMA SeenFilter == Seen /\ (Eat \/ Pass) => Seen'
<1> SUFFICES ASSUME Seen, Eat \/ Pass PROVE Seen'
  OBVIOUS
<1> USE DEF Seen, PeekIsNext, DropIsSeen
<1>1. /\ pc = "filter" /\ pc' = "got" /\ UNCHANGED <<peeked, arCmd, caller, peek, fromQueue>>
  BY DEF Eat, Pass, request, repeat, history
<1>2. ASSUME NEW q \in Seq(Commands), NEW c \in Commands PROVE Enqueued(q, c) \in Seq(Commands)
  BY DEF Enqueued
<1>3. CASE Eat
  <2>1. ret' = NoCmd /\ NoCmd \in Commands /\ peeked = NoCmd
    BY <1>3 DEF Eat, Commands
  <2>2. ASSUME NEW more \in MenuQueues(queue) PROVE more \in Seq(Commands)
    <3>1. MenuCmds \subseteq Commands
      BY DEF Commands
    <3>2. \A c, e \in MenuCmds : Enqueued(queue, c) \in Seq(Commands) /\ Enqueued(Enqueued(queue, c), e) \in Seq(Commands)
      BY <1>2, <3>1
    <3> QED
      BY <2>2, <3>2 DEF MenuQueues
  <2>3. queue' \in Seq(Commands)
    <3>1. PICK more \in MenuQueues(queue) : queue' = (IF peek /\ fromQueue THEN Tail(more) ELSE more)
      BY <1>3 DEF Eat
    <3>2. CASE ~(peek /\ fromQueue)
      BY <2>2, <3>1, <3>2
    <3>3. CASE peek /\ fromQueue
      <4>1. more # <<>>
        <5>1. queue # <<>>
          BY <1>1, <3>3
        <5>2. \A q \in Seq(Commands), c \in Commands : q # <<>> => Enqueued(q, c) # <<>>
          BY DEF Enqueued
        <5>3. MenuCmds \subseteq Commands
          BY DEF Commands
        <5>4. \A c, e \in MenuCmds : Enqueued(queue, c) # <<>> /\ Enqueued(Enqueued(queue, c), e) # <<>>
          BY <1>2, <5>1, <5>2, <5>3
        <5> QED
          BY <5>1, <5>4 DEF MenuQueues
      <4> QED
        BY <2>2, <3>1, <3>3, <4>1
    <3> QED
      BY <3>2, <3>3
  <2> QED
    BY <1>1, <2>1, <2>3
<1>4. CASE Pass
  <2>1. /\ ret \notin EatenCmds /\ ret' = ret
        /\ queue' = (IF peek /\ ~fromQueue THEN Enqueued(queue, ret) ELSE queue)
    BY <1>4 DEF Pass
  <2>2. CASE fromQueue
    BY <1>1, <2>1, <2>2
  <2>3. CASE ~fromQueue
    <3>1. Enqueued(<<>>, ret) = <<ret>>
      BY InputAssumption DEF Enqueued
    <3>2. Head(<<ret>>) = ret /\ <<ret>> # <<>> /\ <<ret>> \in Seq(Commands)
      OBVIOUS
    <3> QED
      BY <1>1, <2>1, <2>3, <3>1, <3>2
  <2> QED
    BY <2>2, <2>3
<1> QED
  BY <1>3, <1>4

LEMMA SeenCallers == Seen /\ (Looked \/ Taken) => Seen'
<1> SUFFICES ASSUME Seen, Looked \/ Taken PROVE Seen'
  OBVIOUS
<1> USE DEF Seen, PeekIsNext, DropIsSeen
<1>1. pc = "got" /\ ret' = NoCmd /\ NoCmd \in Commands /\ UNCHANGED <<queue, arCmd, caller, peek, fromQueue>>
  BY DEF Looked, Taken, Commands, request, repeat
<1>2. CASE Taken
  BY <1>1, <1>2 DEF Taken
<1>3. CASE Looked
  <2>1. /\ peek /\ peeked' = ret /\ pc' \in {"drop", "run", "idle"}
        /\ (pc' = "drop" => Drops(caller, ret)) /\ (pc' = "run" => Runs(caller, ret))
    BY <1>3 DEF Looked
  <2>2. (Drops(caller, ret) => ret \notin KeptCmds \cup {NoCmd}) /\ (Runs(caller, ret) => ret # NoCmd)
    BY InputAssumption DEF Drops, Runs, NoCmd
  <2> QED
    BY <1>1, <2>1, <2>2
<1> QED
  BY <1>2, <1>3

LEMMA SeenEvents ==
  Seen /\ (NoCode \/ InterpretPress \/ InterpretRelease \/ RefuseRelease \/ Autorepeat \/ NoRepeat \/ SlaveCmd) => Seen'
<1> SUFFICES ASSUME Seen,
                    NoCode \/ InterpretPress \/ InterpretRelease \/ RefuseRelease \/ Autorepeat \/ NoRepeat \/ SlaveCmd
             PROVE  Seen'
  OBVIOUS
<1> USE DEF Seen, PeekIsNext, DropIsSeen
<1>1. /\ pc \in {"key", "repeat", "slave"} /\ UNCHANGED <<peeked, queue, caller, peek, fromQueue>>
  BY DEF NoCode, InterpretPress, InterpretRelease, RefuseRelease, Autorepeat, NoRepeat, SlaveCmd, Reading, request, history
<1>2. pc' \in {"key", "repeat", "slave", "filter", "got"}
  BY DEF NoCode, InterpretPress, InterpretRelease, RefuseRelease, Autorepeat, NoRepeat, SlaveCmd, NextFd
<1>3. \A c : CmdOf(c) \in Commands
  BY DEF CmdOf, Commands
<1>4. pc' # "got" => ret' \in Commands /\ arCmd' \in Commands
  <2>1. CASE NoCode \/ InterpretPress \/ RefuseRelease \/ NoRepeat
    BY <2>1 DEF NoCode, InterpretPress, RefuseRelease, NoRepeat, repeat
  <2>2. CASE InterpretRelease
    <3>1. \A key, c : ReleaseCmd(key, c) \in Commands
      BY <1>3 DEF ReleaseCmd, Commands
    <3> QED
      BY <2>2, <3>1 DEF InterpretRelease, Commands
  <2>3. CASE Autorepeat
    BY <1>3, <2>3 DEF Autorepeat
  <2>4. CASE SlaveCmd
    BY <2>4 DEF SlaveCmd, Commands, repeat
  <2> QED
    BY <2>1, <2>2, <2>3, <2>4
<1>5. pc' = "got" => ret' = NoCmd /\ NoCmd \in Commands /\ arCmd' = arCmd
  BY DEF NoCode, InterpretPress, InterpretRelease, RefuseRelease, Autorepeat, NoRepeat, SlaveCmd, NextFd, Commands, repeat
<1> QED
  BY <1>1, <1>2, <1>4, <1>5

\* After a write behind the array nothing is taken or looked at any more.
LEMMA SeenUndefined == Seen /\ WriteBehindArray => Seen'
<1> SUFFICES ASSUME Seen, WriteBehindArray PROVE Seen'
  OBVIOUS
<1>1. /\ pc' = "undefined" /\ caller' = caller /\ peek' = peek
      /\ UNCHANGED <<queue, ret, arCmd, peeked, fromQueue>>
  BY DEF WriteBehindArray, request, repeat
<1> QED
  BY <1>1 DEF Seen, PeekIsNext, DropIsSeen

LEMMA SeenStep == Seen /\ [Next]_vars => Seen'
<1>1. Device \/ Ended \/ UNCHANGED vars => UNCHANGED <<pc, queue, ret, arCmd, peeked, peek, fromQueue, caller>>
  BY DEF Device, Ended, Press, Release, Type, vars, repeat, request, history
<1>2. Seen /\ UNCHANGED <<pc, queue, ret, arCmd, peeked, peek, fromQueue, caller>> => Seen'
  BY DEF Seen, PeekIsNext, DropIsSeen
<1> QED
  BY <1>1, <1>2, SeenCall, SeenFilter, SeenCallers, SeenEvents, SeenUndefined DEF Next, GetCmd, Callers

LEMMA InitSeen == Init => Seen
BY DEF Init, Seen, PeekIsNext, DropIsSeen, Commands

\* The call that takes a command gets the one that was looked at.
THEOREM TakenWasPeeked == Spec => []TakenIsPeeked
<1>1. Seen => TakenIsPeeked
  BY DEF Seen, PeekIsNext, TakenIsPeeked
<1> QED
  BY <1>1, InitSeen, SeenStep, PTL DEF Spec

\* A quit that is taken is run, by the main loop or by the pause loop: none is dropped.
THEOREM QuitRuns == Spec => []QuitIsRun
<1>1. Seen => QuitIsRun
  BY DEF Seen, PeekIsNext, DropIsSeen, QuitIsRun
<1> QED
  BY <1>1, InitSeen, SeenStep, PTL DEF Spec

------------------------------------------------------------------------------
(* Type correctness: the sizes of the two rings and of the held keys too.   *)

\* The keys held down fit into the array, or one has been written behind it.
KeysHeld(q, behind) ==
  q \in Seq(Clicks) /\ (Len(q) <= MaxKeyDown \/ (behind = TRUE /\ Len(q) = MaxKeyDown + 1))

LEMMA FirstPlace ==
  ASSUME NEW q, Len(q) \in Nat, NEW key, NEW n \in 1 .. Len(q), q[n] = key
  PROVE  \E j \in 1 .. Len(q) : q[j] = key /\ \A i \in 1 .. j - 1 : q[i] # key
<1> DEFINE T == {i \in 1 .. Len(q) : q[i] = key}
<1>1. T \in SUBSET Nat /\ T # {}
  OBVIOUS
<1>2. PICK j \in T : \A i \in T : ~ (<<i, j>> \in OpToRel(<, Nat))
  BY <1>1, NatLessThanWellFounded, WFMin
<1>3. ASSUME NEW i \in 1 .. j - 1 PROVE q[i] # key
  <2>1. i \in 1 .. Len(q) /\ <<i, j>> \in OpToRel(<, Nat)
    BY DEF OpToRel
  <2> QED
    BY <1>2, <2>1
<1> QED
  BY <1>3

LEMMA WithoutOne ==
  ASSUME NEW q \in Seq(Clicks), NEW key, \E i \in 1 .. Len(q) : q[i] = key
  PROVE  Without(q, key) \in Seq(Clicks) /\ Len(Without(q, key)) = Len(q) - 1
<1> DEFINE First(j) == q[j] = key /\ \A i \in 1 .. j - 1 : q[i] # key
           j == CHOOSE k \in 1 .. Len(q) : First(k)
           n == Len(q) - 1
           w == [i \in 1 .. n |-> IF i < j THEN q[i] ELSE q[i + 1]]
<1>1. Len(q) \in Nat /\ n \in Nat /\ \A i \in 1 .. Len(q) : q[i] \in Clicks
  OBVIOUS
<1>2. \A i \in 1 .. n : i \in 1 .. Len(q) /\ i + 1 \in 1 .. Len(q)
  BY <1>1
<1>3. Without(q, key) = w
  BY Zenon DEF Without
<1> HIDE DEF n, j
<1>4. w \in [1 .. n -> Clicks]
  BY <1>1, <1>2
<1> HIDE DEF w
<1>5. w \in Seq(Clicks) /\ Len(w) = n
  BY <1>1, <1>4
<1> QED
  BY <1>3, <1>5 DEF n

LEMMA KeysStep ==
  KeysHeld(keyDown, overrun) /\ overrun \in BOOLEAN /\ PressesFirst(fifo) /\ [Next]_vars => KeysHeld(keyDown', overrun')
<1> SUFFICES ASSUME KeysHeld(keyDown, overrun), overrun \in BOOLEAN, PressesFirst(fifo), [Next]_vars
             PROVE  KeysHeld(keyDown', overrun')
  OBVIOUS
<1>0. keyDown \in Seq(Clicks) /\ Len(keyDown) \in Nat /\ MaxKeyDown \in Nat
  BY InputAssumption DEF KeysHeld
<1>1. ASSUME fifo # <<>> PROVE fifo[1].key \in Clicks
  <2>1. fifo \in Seq(KeyCodes)
    BY DEF PressesFirst
  <2>2. fifo[1] \in KeyCodes
    BY <1>1, <2>1
  <2> QED
    BY <2>2 DEF KeyCodes
<1>2. ASSUME NEW key \in Clicks
      PROVE  Append(keyDown, key) \in Seq(Clicks) /\ Len(Append(keyDown, key)) = Len(keyDown) + 1
  BY <1>0
<1>3. CASE InterpretPress
  <2>1. CASE ~TooManyDown /\ ~IsDown(fifo[1].key)
    <3>1. keyDown' = Append(keyDown, fifo[1].key) /\ fifo[1].key \in Clicks
      BY <1>1, <1>3, <2>1, Zenon DEF InterpretPress, Reading
    <3>2. overrun' = (overrun \/ AtEndOfArray)
      BY <1>3, <2>1, Zenon DEF InterpretPress
    <3>3. CASE AtEndOfArray
      <4>1. overrun' = TRUE
        BY <3>2, <3>3, Zenon
      <4> QED
        BY <1>0, <1>2, <3>1, <3>3, <4>1 DEF KeysHeld, AtEndOfArray
    <3>4. CASE ~AtEndOfArray
      BY <1>0, <1>2, <2>1, <3>1, <3>4 DEF KeysHeld, AtEndOfArray, TooManyDown
    <3> QED
      BY <3>3, <3>4
  <2>2. CASE TooManyDown \/ IsDown(fifo[1].key)
    BY <1>3, <2>2, Zenon DEF InterpretPress, held
  <2> QED
    BY <2>1, <2>2
<1>4. CASE InterpretRelease
  <2> DEFINE key == fifo[1].key  q == IF IsDown(key) THEN keyDown ELSE Append(keyDown, key)
  <2>1. fifo # <<>> /\ key \in Clicks /\ keyDown' = Without(q, key)
    BY <1>1, <1>4, Zenon DEF InterpretRelease, Reading
  <2>2. q \in Seq(Clicks) /\ Len(q) <= Len(keyDown) + 1 /\ \E i \in 1 .. Len(q) : q[i] = key
    <3>1. CASE IsDown(key)
      BY <1>0, <3>1 DEF IsDown
    <3>2. CASE ~IsDown(key)
      <4>1. q = Append(keyDown, key)
        BY <3>2
      <4>2. Len(keyDown) + 1 \in 1 .. Len(q) /\ q[Len(keyDown) + 1] = key
        BY <1>0, <2>1, <4>1
      <4> QED
        BY <1>2, <2>1, <4>1, <4>2
    <3> QED
      BY <3>1, <3>2
  <2> HIDE DEF q
  <2>3. keyDown' \in Seq(Clicks) /\ Len(keyDown') = Len(q) - 1 /\ Len(q) \in Nat
    BY <2>1, <2>2, WithoutOne
  <2>4. Len(keyDown') \in Nat /\ Len(keyDown') <= Len(keyDown)
    BY <1>0, <2>2, <2>3
  <2>5. CASE Len(keyDown) <= MaxKeyDown
    BY <1>0, <2>3, <2>4, <2>5 DEF KeysHeld
  <2>6. CASE overrun = TRUE /\ Len(keyDown) = MaxKeyDown + 1
    <3>1. overrun' = TRUE
      BY <1>4, <2>6, Zenon DEF InterpretRelease
    <3>2. Len(keyDown') <= MaxKeyDown \/ Len(keyDown') = MaxKeyDown + 1
      BY <1>0, <2>4, <2>6
    <3> QED
      BY <2>3, <3>1, <3>2 DEF KeysHeld
  <2> QED
    BY <2>5, <2>6 DEF KeysHeld
<1>5. CASE WriteBehindArray
  <2>1. keyDown' = keyDown /\ overrun' = TRUE
    BY <1>5 DEF WriteBehindArray, held
  <2> QED
    BY <2>1 DEF KeysHeld
<1>6. ASSUME ~InterpretPress, ~InterpretRelease, ~WriteBehindArray PROVE UNCHANGED <<keyDown, overrun>>
  BY <1>6 DEF Next, Device, GetCmd, Callers, Press, Release, Type, NoCode, RefuseRelease, Autorepeat, NoRepeat, SlaveCmd,
    Eat, Pass, Call, Looked, Take, Taken, Ended, Begin, held, history, vars
<1>7. CASE UNCHANGED <<keyDown, overrun>>
  BY <1>7
<1> QED
  BY <1>3, <1>4, <1>5, <1>6, <1>7

\* The command queue: nothing but commands, and no more than it holds.
QueueFits(q) == q \in Seq(Commands \ {NoCmd}) /\ Len(q) <= CmdQueueSize

LEMMA EnqueuedFits ==
  ASSUME NEW q, QueueFits(q), NEW c \in Commands \ {NoCmd}
  PROVE  QueueFits(Enqueued(q, c)) /\ (q # <<>> => Enqueued(q, c) # <<>>)
<1> DEFINE A == Commands \ {NoCmd}
<1>1. q \in Seq(A) /\ c \in A /\ Len(q) \in Nat /\ Len(q) <= CmdQueueSize /\ CmdQueueSize \in Nat
  BY InputAssumption DEF QueueFits
<1> HIDE DEF A
<1>2. Append(q, c) \in Seq(A) /\ Len(Append(q, c)) = Len(q) + 1 /\ Append(q, c) # <<>>
  BY <1>1, AppendProperties
<1> QED
  BY <1>1, <1>2 DEF QueueFits, Enqueued, A

LEMMA TailFits ==
  ASSUME NEW q, QueueFits(q), q # <<>> PROVE QueueFits(Tail(q)) /\ Head(q) \in Commands \ {NoCmd}
<1>1. q \in Seq(Commands \ {NoCmd}) /\ Len(q) <= CmdQueueSize /\ Len(q) \in Nat /\ CmdQueueSize \in Nat
  BY InputAssumption DEF QueueFits
<1>2. Tail(q) \in Seq(Commands \ {NoCmd}) /\ Len(Tail(q)) = Len(q) - 1 /\ Head(q) \in Commands \ {NoCmd}
  BY <1>1
<1> QED
  BY <1>1, <1>2 DEF QueueFits

\* What the call has in hand, and what it leaves to the next.
InHand ==
  /\ QueueFits(queue) /\ peeked \in Commands
  /\ pc = "filter" => ret # NoCmd

LEMMA BeginInHand == InHand /\ (Call \/ Take) => InHand'
<1> SUFFICES ASSUME InHand, NEW who, NEW only, Begin(who, only) PROVE InHand'
  BY DEF Call, Take
<1>1. peeked' = peeked
  BY DEF Begin
<1>2. CASE queue # <<>>
  <2>1. ret' = Head(queue) /\ queue' \in {queue, Tail(queue)}
    BY <1>2 DEF Begin
  <2>2. QueueFits(Tail(queue)) /\ Head(queue) \in Commands \ {NoCmd}
    BY <1>2, TailFits DEF InHand
  <2> QED
    BY <1>1, <2>1, <2>2 DEF InHand, QueueFits
<1>3. CASE queue = <<>>
  <2>1. pc' = "key" /\ queue' = queue
    BY <1>3 DEF Begin
  <2> QED
    BY <1>1, <2>1 DEF InHand, QueueFits
<1> QED
  BY <1>2, <1>3

LEMMA FilterInHand == Seen /\ InHand /\ (Eat \/ Pass) => InHand'
<1> SUFFICES ASSUME Seen, InHand, Eat \/ Pass PROVE InHand'
  OBVIOUS
<1>1. pc = "filter" /\ pc' = "got" /\ peeked' = peeked /\ ret \in Commands \ {NoCmd} /\ QueueFits(queue)
  BY DEF Eat, Pass, history, InHand, Seen, PeekIsNext
<1>2. CASE Eat
  <2>1. PICK more \in MenuQueues(queue) : queue' = (IF peek /\ fromQueue THEN Tail(more) ELSE more)
    BY <1>2 DEF Eat
  <2>2. MenuCmds \subseteq Commands \ {NoCmd}
    BY InputAssumption DEF Commands, NoCmd
  <2>3. \A c \in MenuCmds : QueueFits(Enqueued(queue, c)) /\ (queue # <<>> => Enqueued(queue, c) # <<>>)
    BY <1>1, <2>2, EnqueuedFits
  <2>4. \A c, e \in MenuCmds : /\ QueueFits(Enqueued(Enqueued(queue, c), e))
                               /\ (queue # <<>> => Enqueued(Enqueued(queue, c), e) # <<>>)
    BY <2>2, <2>3, EnqueuedFits
  <2>5. QueueFits(more) /\ (queue # <<>> => more # <<>>)
    BY <1>1, <2>1, <2>3, <2>4 DEF MenuQueues
  <2>6. QueueFits(queue')
    <3>1. CASE peek /\ fromQueue
      <4>1. queue # <<>>
        BY <1>1, <3>1 DEF Seen, PeekIsNext
      <4> QED
        BY <2>1, <2>5, <3>1, <4>1, TailFits
    <3>2. CASE ~(peek /\ fromQueue)
      BY <2>1, <2>5, <3>2
    <3> QED
      BY <3>1, <3>2
  <2> QED
    BY <1>1, <2>6 DEF InHand, QueueFits
<1>3. CASE Pass
  <2>1. QueueFits(queue')
    BY <1>1, <1>3, EnqueuedFits DEF Pass
  <2> QED
    BY <1>1, <2>1 DEF InHand, QueueFits
<1> QED
  BY <1>2, <1>3

LEMMA InHandStep == Seen /\ InHand /\ [Next]_vars => InHand'
<1> SUFFICES ASSUME Seen, InHand, [Next]_vars PROVE InHand'
  OBVIOUS
<1>1. CASE Call \/ Take
  BY <1>1, BeginInHand
<1>2. CASE Eat \/ Pass
  BY <1>2, FilterInHand
<1>3. CASE Looked \/ Taken
  <2>1. queue' = queue /\ peeked' \in {ret, NoCmd} /\ pc' # "filter"
    BY <1>3 DEF Looked, Taken
  <2> QED
    BY <2>1 DEF InHand, QueueFits, Seen, PeekIsNext, Commands
<1>4. ASSUME NoCode \/ InterpretPress \/ InterpretRelease \/ RefuseRelease \/ WriteBehindArray \/ Autorepeat \/ NoRepeat \/ SlaveCmd
      PROVE  InHand'
  <2>1. queue' = queue /\ peeked' = peeked
    BY <1>4 DEF NoCode, InterpretPress, InterpretRelease, RefuseRelease, WriteBehindArray, Autorepeat, NoRepeat, SlaveCmd, history
  <2>2. pc' = "filter" => ret' # NoCmd
    BY <1>4, InputAssumption DEF NoCode, InterpretPress, InterpretRelease, RefuseRelease, WriteBehindArray, Autorepeat, NoRepeat, SlaveCmd,
      Reading, NextFd, NoCmd
  <2> QED
    BY <2>1, <2>2 DEF InHand, QueueFits
<1>5. CASE Device \/ Ended \/ UNCHANGED vars
  <2>1. UNCHANGED <<queue, peeked, pc, ret>>
    BY <1>5 DEF Device, Ended, Press, Release, Type, history, vars
  <2> QED
    BY <2>1 DEF InHand, QueueFits
<1> QED
  BY <1>1, <1>2, <1>3, <1>4, <1>5 DEF Next, GetCmd, Callers

\* The flags, and where the call is.
Flags ==
  /\ pressed \subseteq Keys /\ arState \in -1 .. 1
  /\ lastDown \in BOOLEAN /\ peek \in BOOLEAN /\ fromQueue \in BOOLEAN /\ spent \in BOOLEAN /\ released \in BOOLEAN
  /\ overrun \in BOOLEAN /\ caller \in {"main", "pause", "wait", "drop", "run"}
  /\ fd \in 1 .. NumKeyFds + 1 /\ (pc = "key" => fd # NumKeyFds + 1)

LEMMA FlagsStep == Flags /\ [Next]_vars => Flags'
<1> SUFFICES ASSUME Flags, [Next]_vars PROVE Flags'
  OBVIOUS
<1>0. arState' \in -1 .. 1
  <2>1. \A n : n \in -1 .. 1 <=> n = -1 \/ n = 0 \/ n = 1
    OBVIOUS
  <2>2. CASE arState' = arState
    BY <2>2 DEF Flags
  <2>3. CASE arState' = -1 \/ arState' = 0 \/ arState' = 1
    BY <2>1, <2>3
  <2>4. arState' = arState \/ arState' = -1 \/ arState' = 0 \/ arState' = 1
    BY DEF Next, Device, GetCmd, Callers, Press, Release, Type, NoCode, InterpretPress, InterpretRelease, RefuseRelease, WriteBehindArray,
      Autorepeat, NoRepeat, SlaveCmd, Eat, Pass, Call, Looked, Take, Taken, Ended, Begin, repeat, vars
  <2> QED
    BY <2>2, <2>3, <2>4
<1>1. pressed' \subseteq Keys
  BY DEF Flags, Next, Device, GetCmd, Callers, Press, Release, Type, NoCode, InterpretPress, InterpretRelease, RefuseRelease, WriteBehindArray,
    Autorepeat, NoRepeat, SlaveCmd, Eat, Pass, Call, Looked, Take, Taken, Ended, Begin, devices, vars
<1>2. peek' \in BOOLEAN /\ caller' \in {"main", "pause", "wait", "drop", "run"}
  BY DEF Flags, Next, Device, GetCmd, Callers, Press, Release, Type, NoCode, InterpretPress, InterpretRelease, RefuseRelease, WriteBehindArray,
    Autorepeat, NoRepeat, SlaveCmd, Eat, Pass, Call, Looked, Take, Taken, Ended, Begin, request, vars
<1>3. lastDown' \in BOOLEAN
  BY Zenon DEF Flags, Next, Device, GetCmd, Callers, Press, Release, Type, NoCode, InterpretPress, InterpretRelease,
    RefuseRelease, WriteBehindArray, Autorepeat, NoRepeat, SlaveCmd, Eat, Pass, Call, Looked, Take, Taken, Ended, Begin, held, vars
<1>4. fromQueue' \in BOOLEAN
  BY Zenon DEF Flags, Next, Device, GetCmd, Callers, Press, Release, Type, NoCode, InterpretPress, InterpretRelease,
    RefuseRelease, WriteBehindArray, Autorepeat, NoRepeat, SlaveCmd, Eat, Pass, Call, Looked, Take, Taken, Ended, Begin, vars
<1>5. spent' \in BOOLEAN /\ released' \in BOOLEAN /\ overrun' \in BOOLEAN
  BY Zenon DEF Flags, Next, Device, GetCmd, Callers, Press, Release, Type, NoCode, InterpretPress, InterpretRelease,
    RefuseRelease, WriteBehindArray, Autorepeat, NoRepeat, SlaveCmd, Eat, Pass, Call, Looked, Take, Taken, Ended, Begin, history, vars
<1>6. fd' \in 1 .. NumKeyFds + 1 /\ (pc' = "key" => fd' # NumKeyFds + 1)
  <2>1. CASE NextFd /\ pc = "key"
    BY <2>1, InputAssumption DEF NextFd, Flags
  <2>2. CASE fd' = 1
    BY <2>2, InputAssumption
  <2>3. CASE fd' = fd /\ (pc' = "key" => pc = "key")
    BY <2>3 DEF Flags
  <2>4. \/ NextFd /\ pc = "key"
        \/ fd' = 1
        \/ fd' = fd /\ (pc' = "key" => pc = "key")
    BY DEF Next, Device, GetCmd, Callers, Press, Release, Type, NoCode, InterpretPress, InterpretRelease, RefuseRelease, WriteBehindArray,
      Autorepeat, NoRepeat, SlaveCmd, Eat, Pass, Call, Looked, Take, Taken, Ended, Begin, Reading, vars
  <2> QED
    BY <2>1, <2>2, <2>3, <2>4
<1> QED
  BY <1>0, <1>1, <1>2, <1>3, <1>4, <1>5, <1>6 DEF Flags

\* Neither ring overflows, the keys held down fit into key_down until interpret_key writes one
\* behind its end, which goes one place far, and what is handed on is a command, whatever the
\* devices, the filters and the callers do.
THEOREM InputTypes == Spec => []TypeOK
<1> DEFINE Types == PressesFirst(fifo) /\ KeysHeld(keyDown, overrun) /\ Seen /\ InHand /\ Flags
<1>1. Init => Types
  <2>1. Init => PressesFirst(fifo) /\ KeysHeld(keyDown, overrun)
    BY InputAssumption DEF Init, PressesFirst, KeysHeld
  <2>2. Init => InHand
    BY InputAssumption DEF Init, InHand, QueueFits, Commands
  <2>3. Init => Flags
    <3>1. NumKeyFds \in Nat \ {0} /\ -1 \in -1 .. 1 /\ 1 \in 1 .. NumKeyFds + 1
      BY InputAssumption
    <3>2. {} \subseteq Keys
      OBVIOUS
    <3> QED
      BY <3>1, <3>2 DEF Init, Flags
  <2> QED
    BY <2>1, <2>2, <2>3, InitSeen
<1>2. Types /\ [Next]_vars => Types'
  <2>1. KeysHeld(keyDown, overrun)' <=> KeysHeld(keyDown', overrun')
    BY DEF KeysHeld
  <2>2. Flags => overrun \in BOOLEAN
    BY DEF Flags
  <2> QED
    BY <2>1, <2>2, PressesFirstStep, KeysStep, SeenStep, InHandStep, FlagsStep
<1>3. Types => TypeOK
  <2>1. KeysHeld(keyDown, overrun)
          => keyDown \in Seq(Clicks) /\ Len(keyDown) <= MaxKeyDown + (IF overrun THEN 1 ELSE 0)
    BY InputAssumption DEF KeysHeld
  <2> QED
    BY <2>1 DEF PressesFirst, Seen, PeekIsNext, InHand, QueueFits, Flags, TypeOK
<1> HIDE DEF Types
<1> QED
  BY <1>1, <1>2, <1>3, PTL DEF Spec
=============================================================================
