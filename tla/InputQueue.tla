------------------------------ MODULE InputQueue ------------------------------
(***************************************************************************)
(* From key codes to commands: the queue of key codes of                   *)
(* src/mplayer/mp_fifo.c, and the keys held down, autorepeat, filters and  *)
(* the command queue of src/mplayer/input/input.c, with their callers in   *)
(* the main loop, the pause loop and the waits of streams.                 *)
(*                                                                         *)
(* A command is the combination of keys it is bound to.  Time is left      *)
(* open: whether a click follows fast enough, and whether the delay of the *)
(* autorepeat is over, are choices.  The two rings are sequences with the  *)
(* capacities of the rings.                                                *)
(***************************************************************************)
EXTENDS Integers, Sequences

CONSTANTS
  Keys,          \* keys whose device reports presses and releases
  TypedKeys,     \* keys of a device that "can't send push event"
  MouseButtons,  \* the keys that make double clicks
  Bindings,      \* the combinations of keys that are bound to a command
  KeptCmds,      \* quit and the play tree steps: left for the main loop
  PauseCmds,     \* pause
  ForcedCmds,    \* commands with pausing == 4, the prefix pausing_keep_force
  EatenCmds,     \* commands a filter eats (those of the menu)
  MenuCmds,      \* commands the menu may queue when it has eaten one
  SlaveCmds,     \* commands that come from a command fd
  KeyFifoSize, CmdQueueSize, MaxKeyDown, NumKeyFds

ASSUME InputAssumption ==
  /\ KeyFifoSize \in Nat /\ KeyFifoSize > 3
  /\ CmdQueueSize \in Nat \ {0} /\ MaxKeyDown \in Nat \ {0} /\ NumKeyFds \in Nat \ {0}
  /\ PauseCmds \cap KeptCmds = {} /\ <<>> \notin PauseCmds \cup ForcedCmds \cup MenuCmds \cup SlaveCmds

NoCmd == <<>>
NoKey == <<>>
Single(k) == <<k, 1>>
Double(k) == <<k, 2>>

VARIABLES
  \* the devices: keys really held
  pressed,
  \* mp_fifo.c: the key codes, last_key
  fifo, lastKey,
  \* input.c: key_down, last_key_down # 0, ar_state, ar_cmd, cmd_queue
  keyDown, lastDown, arState, arCmd, queue,
  \* mp_input_get_cmd: where it is, its caller, peek_only, the key fd it looks at, ret, from_queue
  pc, caller, peek, fd, ret, fromQueue,
  \* history: the command peeked at and not taken since; whether a combination has given
  \* its command since the last press; whether the command at hand came from a release;
  \* whether a key has been written behind the end of key_down
  peeked, spent, released, overrun

devices  == <<pressed, fifo, lastKey>>
held     == <<keyDown, lastDown>>
repeat   == <<arState, arCmd>>
request  == <<caller, peek>>
history  == <<peeked, spent, released, overrun>>
vars     == <<devices, held, repeat, queue, pc, request, fd, ret, fromQueue, history>>

Init ==
  /\ pressed = {} /\ fifo = <<>> /\ lastKey = <<NoKey, NoKey>>
  /\ keyDown = <<>> /\ lastDown = FALSE /\ arState = -1 /\ arCmd = NoCmd /\ queue = <<>>
  /\ pc = "idle" /\ caller = "main" /\ peek = FALSE /\ fd = 1 /\ ret = NoCmd /\ fromQueue = FALSE
  /\ peeked = NoCmd /\ spent = FALSE /\ released = FALSE /\ overrun = FALSE

------------------------------------------------------------------------------
(* mp_fifo.c: mplayer_put_key, called by the devices.                       *)

Code(key, down) == [key |-> key, down |-> down]
\* Mutant: no place is kept free to tell a full ring from an empty one.
FifoFreeAll(q) == KeyFifoSize - Len(q)
FifoFree(q) == KeyFifoSize - 1 - Len(q)

\* Mutant: the reserve for releases is given away.
PutAnything(q, code) == IF FifoFree(q) = 0 THEN q ELSE Append(q, code)
\* mplayer_put_key_internal: a press needs half of the ring free, a release one place.
Put(q, code) ==
  IF FifoFree(q) = 0 \/ (code.down /\ FifoFree(q) < KeyFifoSize \div 2) THEN q ELSE Append(q, code)

\* put_double, if the click came within doubleclick_time: a code without MP_KEY_DOWN.
PutDouble(q, k, fast) == IF fast /\ k \in MouseButtons THEN Put(q, Code(Double(k), FALSE)) ELSE q

Press(k) ==
  /\ k \in Keys \ pressed /\ pressed' = pressed \cup {k}
  /\ LET pressOnly == Put(fifo, Code(Single(k), TRUE)) IN
     \E fast \in BOOLEAN :
       fifo' = PutDouble(pressOnly, k, fast /\ lastKey[1] = Single(k))
  /\ lastKey' = <<Single(k), lastKey[1]>>
  /\ UNCHANGED <<held, repeat, queue, pc, request, fd, ret, fromQueue, history>>

PutRelease(k) ==
  \E fast \in BOOLEAN :
    fifo' = PutDouble(Put(fifo, Code(Single(k), FALSE)), k, fast /\ lastKey = <<Single(k), Single(k)>>)

Release(k) ==
  /\ k \in pressed /\ pressed' = pressed \ {k}
  /\ PutRelease(k)
  /\ UNCHANGED <<lastKey, held, repeat, queue, pc, request, fd, ret, fromQueue, history>>

\* A device that reports a key once.
Type(k) ==
  /\ k \in TypedKeys
  /\ PutRelease(k)
  /\ UNCHANGED <<pressed, lastKey, held, repeat, queue, pc, request, fd, ret, fromQueue, history>>

------------------------------------------------------------------------------
(* mp_input_get_cmd: the queue first, then the events.                      *)

Begin(who, peekOnly) ==
  /\ caller' = who /\ peek' = peekOnly
  /\ \/ /\ queue # <<>>
        /\ ret' = Head(queue) /\ fromQueue' = TRUE /\ pc' = "filter"
        /\ queue' = (IF peekOnly THEN queue ELSE Tail(queue))
        /\ released' = FALSE /\ UNCHANGED fd
     \/ /\ queue = <<>>
        /\ fromQueue' = FALSE /\ fd' = 1 /\ pc' = "key"
        /\ ret' = NoCmd /\ released' = FALSE /\ UNCHANGED queue
  /\ UNCHANGED <<devices, held, repeat, peeked, spent, overrun>>

\* The main loop takes; the pause loop and mp_input_check_interrupt look first.
Call == pc = "idle" /\ (Begin("main", FALSE) \/ Begin("pause", TRUE) \/ Begin("wait", TRUE))

IsDown(key) == \E i \in 1 .. Len(keyDown) : keyDown[i] = key
\* The keys behind the first one found move up by one place.
Without(seq, key) ==
  LET j == CHOOSE j \in 1 .. Len(seq) : seq[j] = key /\ \A i \in 1 .. j - 1 : seq[i] # key
  IN [i \in 1 .. Len(seq) - 1 |-> IF i < j THEN seq[i] ELSE seq[i + 1]]
CmdOf(combination) == IF combination \in Bindings THEN combination ELSE NoCmd
\* The test of interpret_key before it writes key_down[num_key_down].
TooManyDown == Len(keyDown) > MaxKeyDown
\* It lets that write go to key_down[MP_MAX_KEY_DOWN], which is behind the array.
AtEndOfArray == Len(keyDown) = MaxKeyDown

\* read_events goes on to the next key fd, or past them.
NextFd == fd' = fd + 1 /\ pc' = IF fd = NumKeyFds THEN "repeat" ELSE "key"

NoCode ==
  /\ pc = "key" /\ fifo = <<>>
  /\ NextFd
  /\ UNCHANGED <<devices, held, repeat, queue, request, ret, fromQueue, history>>

Reading(down) == pc = "key" /\ fifo # <<>> /\ fifo[1].down = down /\ fifo' = Tail(fifo)

\* Mutant: a press leaves the autorepeat of the keys before it running.
PressGoesOnRepeating ==
  /\ Reading(TRUE)
  /\ LET key == fifo[1].key IN
     /\ keyDown' = (IF TooManyDown \/ IsDown(key) THEN keyDown ELSE Append(keyDown, key))
     /\ lastDown' = (lastDown \/ keyDown' # keyDown) /\ spent' = (spent /\ keyDown' = keyDown)
  /\ arState' = IF arState = -1 THEN 0 ELSE arState
  /\ NextFd
  /\ UNCHANGED <<pressed, lastKey, arCmd, queue, request, ret, fromQueue, peeked, released, overrun>>
\* interpret_key, a press: refused with too many keys down, ignored when already down.  A key
\* written behind the array is one more key, if what is there is not used.
InterpretPress ==
  /\ Reading(TRUE)
  /\ \/ /\ ~TooManyDown /\ ~IsDown(fifo[1].key)
        /\ keyDown' = Append(keyDown, fifo[1].key)
        /\ lastDown' = TRUE /\ arState' = 0 /\ spent' = FALSE
        /\ overrun' = (overrun \/ AtEndOfArray)
     \/ /\ TooManyDown \/ IsDown(fifo[1].key)
        /\ UNCHANGED <<held, arState, spent, overrun>>
  /\ NextFd
  /\ UNCHANGED <<pressed, lastKey, arCmd, queue, request, ret, fromQueue, peeked, released>>

\* Mutant: the keys of the last combination count as a new one.
ReleaseRepeats(key, combination) == CmdOf(combination)
\* "We ignore key from last combination": a command only if a key went down since the last release.
ReleaseCmd(key, combination) == IF lastDown \/ ~IsDown(key) THEN CmdOf(combination) ELSE NoCmd

\* interpret_key, a release; a key that is not down is added first.
InterpretRelease ==
  /\ Reading(FALSE)
  /\ LET key == fifo[1].key
         combination == IF IsDown(key) THEN keyDown ELSE Append(keyDown, key)
     IN
     /\ IsDown(key) \/ ~TooManyDown
     /\ ret' = ReleaseCmd(key, combination)
     /\ keyDown' = Without(combination, key)
     /\ spent' = (ret' # NoCmd \/ (spent /\ IsDown(key)))
     /\ overrun' = (overrun \/ (AtEndOfArray /\ ~IsDown(key)))
  /\ lastDown' = FALSE /\ arState' = -1 /\ arCmd' = NoCmd
  /\ IF ret' = NoCmd THEN NextFd /\ UNCHANGED released
                     ELSE pc' = "filter" /\ released' = TRUE /\ UNCHANGED fd
  /\ UNCHANGED <<pressed, lastKey, queue, request, fromQueue, peeked>>

\* A key written behind the array changes another variable: what the program does from here
\* on is not defined.
WriteBehindArray ==
  /\ pc = "key" /\ fifo # <<>> /\ AtEndOfArray /\ ~IsDown(fifo[1].key)
  /\ overrun' = TRUE /\ pc' = "undefined"
  /\ UNCHANGED <<devices, held, repeat, queue, request, fd, ret, fromQueue, peeked, spent, released>>

RefuseRelease ==
  /\ Reading(FALSE) /\ TooManyDown /\ ~IsDown(fifo[1].key)
  /\ NextFd
  /\ UNCHANGED <<pressed, lastKey, held, repeat, queue, request, ret, fromQueue, history>>

\* Mouse buttons carry MP_NO_REPEAT_KEY.
MayRepeat == arState >= 0 /\ keyDown # <<>> /\ keyDown[Len(keyDown)][1] \notin MouseButtons

\* check_autorepeat, when the delay or the period is over.
Autorepeat ==
  /\ pc = "repeat" /\ MayRepeat
  /\ arCmd' = IF arState = 0 THEN CmdOf(keyDown) ELSE arCmd
  /\ arState' = IF arCmd' = NoCmd THEN -1 ELSE 1
  /\ ret' = arCmd' /\ pc' = IF arCmd' = NoCmd THEN "slave" ELSE "filter"
  /\ UNCHANGED <<devices, held, queue, request, fd, fromQueue, history>>

NoRepeat ==
  /\ pc = "repeat"
  /\ pc' = "slave"
  /\ UNCHANGED <<devices, held, repeat, queue, request, fd, ret, fromQueue, history>>

\* The command fds, and the end of read_events without an event.
SlaveCmd ==
  /\ pc = "slave"
  /\ \/ ret' \in SlaveCmds /\ pc' = "filter"
     \/ ret' = NoCmd /\ pc' = "got"
  /\ UNCHANGED <<devices, held, repeat, queue, request, fd, fromQueue, history>>

\* mp_input_queue_cmd drops what does not fit.
Enqueued(q, cmd) == IF Len(q) >= CmdQueueSize THEN q ELSE Append(q, cmd)

\* What the menu may leave in the queue: up to two commands more ("menu hide" and another).
MenuQueues(q) == {q} \cup {Enqueued(q, c) : c \in MenuCmds}
                     \cup {Enqueued(Enqueued(q, c), d) : c, d \in MenuCmds}

\* A filter eats the command; it may queue others, and one that was only looked at goes.
Eat ==
  /\ pc = "filter" /\ ret \in EatenCmds
  /\ \E more \in MenuQueues(queue) :
       queue' = (IF peek /\ fromQueue THEN Tail(more) ELSE more)
  /\ ret' = NoCmd /\ pc' = "got"
  /\ UNCHANGED <<devices, held, repeat, request, fd, fromQueue, history>>

\* Mutant: an event that was only looked at is not kept.
ForgetPeeked ==
  /\ pc = "filter" /\ ret \notin EatenCmds
  /\ pc' = "got"
  /\ UNCHANGED <<devices, held, repeat, queue, request, fd, ret, fromQueue, history>>
\* The command passes; an event that was only looked at is kept in the queue.
Pass ==
  /\ pc = "filter" /\ ret \notin EatenCmds
  /\ queue' = (IF peek /\ ~fromQueue THEN Enqueued(queue, ret) ELSE queue) /\ pc' = "got"
  /\ UNCHANGED <<devices, held, repeat, request, fd, ret, fromQueue, history>>

------------------------------------------------------------------------------
(* The callers.  "run" and "drop" are the second call of the pause loop and *)
(* of mp_input_check_interrupt, which takes what the first one looked at,   *)
(* to run it or to drop it.                                                 *)

\* Mutant: a wait of a stream drops whatever comes.
DropsAnything(who, cmd) == cmd # NoCmd
\* mp_input_check_interrupt leaves the commands that end the wait to the main loop; the
\* pause loop drops the pause that ends it.
Drops(who, cmd) ==
  \/ who = "wait" /\ cmd \notin KeptCmds \cup {NoCmd}
  \/ who = "pause" /\ cmd \in PauseCmds \ ForcedCmds
\* The pause loop runs commands that leave the pause as it is, whatever they are.
Runs(who, cmd) == who = "pause" /\ cmd \in ForcedCmds

Looked ==
  /\ pc = "got" /\ peek
  /\ peeked' = ret
  /\ \/ Drops(caller, ret) /\ pc' = "drop"
     \/ Runs(caller, ret) /\ pc' = "run"
     \/ ~Drops(caller, ret) /\ ~Runs(caller, ret) /\ pc' = "idle"
  /\ ret' = NoCmd
  /\ UNCHANGED <<devices, held, repeat, queue, request, fd, fromQueue, spent, released, overrun>>

Take == pc \in {"drop", "run"} /\ Begin(pc, FALSE)

Taken ==
  /\ pc = "got" /\ ~peek
  /\ peeked' = NoCmd /\ ret' = NoCmd /\ pc' = "idle"
  /\ UNCHANGED <<devices, held, repeat, queue, request, fd, fromQueue, spent, released, overrun>>

Defined == pc # "undefined"
Device  == Defined /\ ((\E k \in Keys : Press(k) \/ Release(k)) \/ \E k \in TypedKeys : Type(k))
GetCmd  == NoCode \/ InterpretPress \/ InterpretRelease \/ RefuseRelease \/ WriteBehindArray
           \/ Autorepeat \/ NoRepeat \/ SlaveCmd \/ Eat \/ Pass
Callers == Call \/ Looked \/ Take \/ Taken
Ended   == ~Defined /\ UNCHANGED vars

Next == Device \/ GetCmd \/ Callers \/ Ended

Spec == Init /\ [][Next]_vars

\* A call of mp_input_get_cmd returns, and the main loop comes back to take commands.
FairSpec ==
  /\ Spec
  /\ WF_vars(GetCmd) /\ WF_vars(Looked \/ Take \/ Taken)
  /\ SF_vars(pc = "idle" /\ Begin("main", FALSE))

------------------------------------------------------------------------------
(* Properties.                                                              *)

Clicks   == (Keys \cup TypedKeys) \X {1, 2}
KeyCodes == [key : Clicks, down : BOOLEAN]
Commands == Bindings \cup MenuCmds \cup SlaveCmds \cup {NoCmd}

\* The rings keep a place free, and the keys held down fit into key_down, until one is written
\* behind its end, the one that interpret_key's tests let by; they go no farther than that.
TypeOK ==
  /\ pressed \subseteq Keys
  /\ fifo \in Seq(KeyCodes) /\ Len(fifo) < KeyFifoSize
  /\ keyDown \in Seq(Clicks) /\ Len(keyDown) <= MaxKeyDown + (IF overrun THEN 1 ELSE 0)
  /\ queue \in Seq(Commands \ {NoCmd}) /\ Len(queue) <= CmdQueueSize
  /\ arState \in -1 .. 1 /\ {arCmd, ret, peeked} \subseteq Commands
  /\ {lastDown, peek, fromQueue, spent, released, overrun} \subseteq BOOLEAN
  /\ pc \in {"idle", "key", "repeat", "slave", "filter", "got", "drop", "run", "undefined"}
  /\ caller \in {"main", "pause", "wait", "drop", "run"} /\ fd \in 1 .. NumKeyFds + 1

\* "Reserve some space for key release events": however presses, releases and clicks come, what
\* filled the last places of the ring of codes are releases.
ReserveIsForReleases ==
  Len(fifo) = KeyFifoSize - 1 =>
    \A i \in KeyFifoSize + 1 - (KeyFifoSize \div 2) .. KeyFifoSize - 1 : ~fifo[i].down

\* What repeats is the command of the keys that are down now, whatever was pressed meanwhile.
RepeatsWhatIsHeld == arState = 1 => arCmd = CmdOf(keyDown) /\ arCmd # NoCmd

\* The keys of a combination, let go one after the other, give one command: another one needs
\* another press.
OneCommandPerPress ==
  [][released' /\ ~released /\ IsDown(fifo[1].key) => ~spent]_vars

\* The pause loop and the waits of streams take the command they decided on, also when a filter
\* ate and queued others in between.
TakenIsPeeked == pc = "got" /\ ~peek /\ peeked # NoCmd => ret = peeked

\* A quit that is taken is run, by the main loop or, with pausing_keep_force, by the pause loop:
\* what the pause loop and the waits of streams take and drop is never a quit.
QuitIsRun == pc = "got" /\ ~peek /\ ret \in KeptCmds => caller \in {"main", "run"}

\* "The cmd will be executed when we are back in the main loop": a quit in the queue gets there,
\* or is run by the pause loop, whatever is typed meanwhile, unless a key is written behind the
\* end of key_down.
QuitIsObeyed ==
  (\E i \in 1 .. Len(queue) : queue[i] \in KeptCmds)
    ~> (pc = "got" /\ caller \in {"main", "run"} /\ ret \in KeptCmds) \/ ~Defined
=============================================================================
