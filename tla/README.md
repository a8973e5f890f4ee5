# A verification project for mplayer-ce

mplayer-ce is MPlayer for the Wii and the GameCube (libogc). The program proper is
`src/mplayer/`; `src/libs/`, `ffmpeg`, `libdvdread`, `libdvdnav`, `src/loader` and the vidix
drivers are libraries brought along and are not looked at here. This directory holds TLA+ models
of the parts of the player whose behaviour depends on threads, interrupts, limits and long
sequences of calls, TLC instances that check them, and TLAPS proofs about them.

What exists: the **stream cache**, the **audio output**, the **key queue and input commands**, the
**demuxer's packet queues** and the **play tree with its options**, each modelled, checked and
proved about. The other parts are inventoried below; section 7 says what is left out.

## 1. The system

The main thread runs everything (`mplayer.c`): it reads commands, demuxes, decodes, shows frames
and feeds the audio output. Around it run: the filler thread of the stream cache
(`stream/cache2.c`, priority 70, above the main thread), the audio DMA interrupt
(`libao2/ao_gekko.c`), the mount and network threads (`osdep/plat_gekko.c`) and the callbacks of
the input devices (`osdep/getch2-gekko.c`).

| part | state | operations | talks to | what is hard | what makes it correct |
|---|---|---|---|---|---|
| stream cache, `stream/cache2.c` | `cache_vars_t`: ring buffer, `min_filepos`, `max_filepos`, `offset`, `read_filepos`, `eof`, `control*`, `thread_active` | `cache_fill`, `cache_execute_control` (filler); `cache_read`, `cache_stream_fill_buffer`, `cache_stream_seek_long`, `cache_do_control`, `stream_enable_cache`, `cache_uninit` (main) | shared memory without a lock; sleeps; the source | two threads on the same variables, stores in an order, stale snapshots, waits, teardown | the reader gets the bytes of the positions it asks for; every wait ends; memory is freed after the thread |
| stream layer, `stream/stream.c`, `stream.h` | `stream_t`: `pos`, `eof`, `error`, `buffer[buf_pos..buf_len)`; static `_try` | read, skip, seek, reset, control | the cache or the source; demuxers | retries at the end of file, `stream_reset` under a cache, `_try` shared by all streams | `stream_tell` names the byte that comes next |
| audio output, `libao2/ao_gekko.c` | 32 DMA buffers, `buffer_fill`, `buffer_play`, `buffered`, `playing`, `dma_lastpt` | `play`, `get_space`, `get_delay`, `reset`, pause, resume; the DMA interrupt | interrupt | `buffered` changed by both sides, start, underrun, pause | what is written is played, once and in order; no buffer is written while it plays; what a lost update of `buffered` may cost is bounded |
| key queue, `mp_fifo.c` | ring of key codes, last two keys and their times | put, get, double click | input devices, `input.c` | full queue, reserve for releases | no key sticks; keys come in order |
| input commands, `input/input.c` | fd tables, keys held, autorepeat, command queue, filters | `read_events`, `interpret_key`, `mp_input_get_cmd` (peek), queueing, `mp_input_check_interrupt` | key queue; every wait of the player | limits, peeking, device removal in the loop | one command for each key combination; a peeked command is the one taken |
| demuxer core, `libmpdemux/demuxer.c` | per stream: packet list, `packs`, `bytes`, current packet, `eof`; reference counts | add, fill, read, pattern search, pts, flush, seek, switch of stream | stream layer, demuxers, decoders | interleaved streams at the limit, shared packets, end of file and seek | counts match the list; no packet is freed in use; no byte is lost or read twice |
| play tree, `playtree.c` | tree with loops and flags; iterator with a stack | edits; step, up, down, next file | configuration | random play, loops, empty nodes | every push of options has its pop; every entry is visited as often as its loops say |
| configuration, `m_config.c` | options with stacks of saved values | push, pop, set | play tree | long sequences of push, set, pop | pop restores what push saved |
| second memory bank, `osdep/mem2.c` | top of arena, one remembered hole | alloc, realloc, free | cache, audio, video buffers | order of frees, failed realloc | areas never overlap; memory comes back |
| mounting, `osdep/plat_gekko.c` | inserted flags, DVD lock, time of last access | `mountloop`, `DVDGekkoTick`, `DVDGekkoMount` | main thread, mount thread | locks, motor stop against an access | no deadlock; no motor stop during use |
| sources, demuxers, decoders, filters, video output, parsers, main loop | | | | sequential data transformation, device I/O | not modelled (section 7) |

The hazards met while reading, each at its line, are in `PROJECT.json`.

## 2. The plan

1. `CacheGeometry`, `Cache2`, `FileStream` and their proofs: the stream cache. **Done.**
2. `AoGekko`: the ring of DMA buffers against its interrupt, with the loop of the player that feeds
   it. **Done**, with the proof that writer and DMA keep to different buffers, in order.
3. `InputQueue`: key queue, keys held, autorepeat, command queue, peeking. **Done**, with proofs.
4. `DemuxQueue`: three streams filled by one demuxer, limits, end of file, seek, reference counts,
   against what the demuxer read. **Done**, with the proof of all its invariants.
5. `MConfig` and `PlayTree`: pushes and pops of options along the iterator. **Done**, with the proof
   that they match, that each entry plays with its options, and that the entries come in order.
6. Left: `StreamSource` (`stream_read_internal`, `stream_reset`, `stream_seek_internal` with `eof`,
   `error` and `_try`, composed with `Cache2` for the retry path), `Mem2` (no two areas of the second
   memory bank overlap), `DvdMount` (the lock and the motor).

Each part has one module for its state machine, constants with a named assumption, no `RECURSIVE`
operator, an instance module where the constants are more than numbers, `.cfg` files, and a proof
module. `PlayTree` composes two parts: it extends `MConfig`, and its steps push and pop there.

## 3. The modules

| module | what it is |
|---|---|
| `CacheGeometry` | the sizes `cache_init` and `stream_enable_cache` derive from their arguments, with the clamps |
| `Cache2` | the cache: a filler thread and a main thread over `cache_vars_t`, and the reader's `stream_t` |
| `FileStream` | what the cache promises its reader, with no window, thread or slot in it |
| `MCCache2` | sets for TLC's instances |
| `Cache2_proofs` | the window of the cache, both builds |
| `Cache2_reader_proofs` | the reader under the console's priorities, type correctness, and a file played through without a seek in both builds |
| `Cache2_refinement_proofs` | `Cache2` implements `FileStream` |
| `AoGekko` | the ring of `ao_gekko.c`, the DMA and its interrupt, and `fill_audio_out_buffers` |
| `AoGekko_proofs` | types, and what the ring holds |
| `InputQueue`, `MCInputQueue` | from key codes to commands, and the callers that peek; an instance |
| `InputQueue_proofs` | autorepeat, combinations, the reserve for releases, peeking, types |
| `DemuxQueue`, `MCDemuxQueue` | packets, streams and the calls that read them; an instance with its file |
| `FlatteningTheorems` | sequences laid end to end, and induction over numbers without an operator as parameter |
| `DemuxQueue_proofs` | lists, memory, bytes, start codes and times of packets, types |
| `MConfig` | the stack of option values |
| `PlayTree`, `MCPlayTree` | the iterator over a tree with options, and the player that steps it; trees |
| `PlayTree_proofs` | what a pop restores, that pushes and pops match, the copy, each entry's options, the order of the entries, types |

### The stream cache: state

`Cache2`'s variables are the members of `cache_vars_t` (`minPos` is `min_filepos`, `maxPos`
`max_filepos`, `readPos` `read_filepos`), the source's position and error count (`srcPos`,
`srcError`: `stream2->pos` and `->error`), the locals of `cache_fill` and `cache_read` that live
across an access to shared memory (`snap` is `cache_fill`'s `read`; `space`, `len`; `want` is
`cache_read`'s `size`; `newb`; `slot` its `pos`), the reader's `stream_t` (`spos`, `seof`,
`bufPos`, `sbuf`) and one program counter for each thread (`fpc`, `mpc`). A byte of the file is
its position, so that a byte delivered as another is seen at once. `Junk` is a byte nothing is
known of: what memory holds before, or while, the source writes into it.

### The stream cache: actions

One action is one access of a thread to shared memory, or one blocking call; what lies between
uses locals only. So `cache_fill` is `Snapshot` (line 203), `CheckEof`, the three stores
`DropMax`, `DropMin`, `DropOffset` of line 221 in the order C performs them, `SeekSource`,
`PlanFull` or `StartRead`, `ReadData` or `ReadNothing`, `NoData`, `PublishMax` and `WrapOffset`.
`cache_execute_control` reads `control` first for a quit (`ObeyQuit`, `PollLength`), and again
after the source has been asked for its length (`NoControl`, `RefuseControl`, `StartControl`,
`FinishControl`), because the main thread may store in between. `cache_read` is `CheckMax`,
`CheckMin` (the two comparisons of line 144), `WaitForData`, `Measure`, `Locate`, `Copy`,
`Advance`; `Return` is the end of `cache_stream_fill_buffer` and, in a seek, of
`cache_stream_seek_long`. `SendControl` and `TakeReply` are `cache_do_control`, `Uninit`, `Stop`
and `Join` `cache_uninit`. What the player does between calls is left open: it reads bytes of its
stream buffer, fills it, seeks, sends a control or ends. A user's command may cut every wait short
(`Interrupt`).

The code has several builds, and `Build` tells two apart:
`"gekko"`, where the filler has priority 70 and the main thread runs only while it sleeps or
blocks (`MainMayRun`), and where `cache_uninit` joins it; and `"pthread"`, two equal threads with no
join. Under `"gekko"` the filler may still wake up between any two steps of the main thread.

### The stream cache: abstractions

- A read of the source delivers between one byte and what was asked for, or nothing, or fails
  (`ReadMayFail`); it writes into the ring buffer at any time between its start and its end: the
  slots are `Junk` meanwhile. The retries inside `stream_read_internal` are part of that step.
- The controls are two: one that changes nothing (`"get"`) and one that moves the source
  (`"seek"`: time, chapter, angle). Arguments are not modelled.
- `srcError` counts to `ErrorLimit + 1` and no further: the code only compares it with the limit.
- A 64-bit position is one value; on the 32-bit CPU it is two words. Left out: see the hazards.
- `cache_fill_status`, the warnings, the statistics, the capture file, `refillcache`, and the
  GameCube's copies through ARAM (a second buffer around the same steps).
- A source without a `control` function answers every control at once with "unsupported", as
  `RefuseControl` and `FinishControl` also may.

### The audio output

The variables are the static ones of `ao_gekko.c`: `buffers`, `bufferFill` (`buffer_fill`),
`bufferPlay` (`buffer_play`), `buffered` in blocks, `playing`, `dmaLast` (`dma_lastpt`); the DMA's
registers `dmaOn`, `dmaBuffer`, `dmaLeft`; and the main thread's place and locals. A block is its
number in the order of writing; a buffer that is being written is `Torn`.

An action is one access of `play()` to what the interrupt uses. `NextBlock` and `FinishBlock` are
the start and the end of the copy, `LoadCount` and `StoreCount` the two halves of
`buffered += BUFFER_SIZE` (line 304) between which the interrupt may subtract; `lost` counts the
updates that go that way. `StartDma` is lines 307-314. `Interrupt` is `switch_buffers` at the end
of a transfer. `Fill`, `EndFill`, `AskPlaying`, `AskLeft` and `Judge` are `fill_audio_out_buffers`
with `get_delay`; `Pause`, `StopDma`, `Resume`, `Reset` and `Uninit` what the user causes.

- The DMA is external. The code fixes how it must work for the accounting to be right: a started
  transfer takes over the programmed address and raises the interrupt at once, which programs the
  next one. `BeginTransfer` is that.
- Nothing is known of samples: no interleaving of channels, no volume, no LEDs. `StartAfter` is
  `request_size` in blocks, which is larger with more channels.
- After a pause the code programs the bytes left, of the buffer that comes next. The model has the
  length; which bytes of that buffer are heard is not told apart.
- `reset()` is also called at the end of a file (`mplayer.c:4715`) and drops what was not played.
  The numbers of dropped blocks are skipped, so that `InOrder` speaks of what is played.
- `InOrder` states two things: while no update of `buffered` was lost, blocks begin in the order of
  writing, each at most once; after a lost update the DMA may come to buffers it has played before,
  but what it finds there was written less than once round the ring ago (`LeftInRing`).

### Keys and commands

`fifo` and `lastKey` are those of `mp_fifo.c`; `keyDown` is `key_down[0..num_key_down)`,
`lastDown` is `last_key_down != 0`, `arState` and `arCmd` the autorepeat's, `queue` is `cmd_queue`.
`pc`, `caller`, `peek`, `fd`, `ret` and `fromQueue` are the call of `mp_input_get_cmd` that runs.
Both rings are sequences with the rings' capacities. A command is the combination of keys it is
bound to, so that `arCmd = CmdOf(keyDown)` can be stated.

`Press`, `Release` and `Type` are `mplayer_put_key` for the two kinds of devices; `InterpretPress`,
`InterpretRelease`, `RefuseRelease` `interpret_key`; `Autorepeat` `check_autorepeat`; `NoCode`,
`NoRepeat`, `SlaveCmd` the rest of `read_events`; `Eat` and `Pass` the filters and the end of
`mp_input_get_cmd`. `Looked`, `Take` and `Taken` are its callers: the main loop takes, the pause
loop and `mp_input_check_interrupt` look, decide and take in a second call, to drop what they saw
(`Drops`) or, as the pause loop does with commands that leave the pause as it is (`pausing == 4`,
`mplayer.c:2897`), to run it there (`Runs`), a quit included.

- `key_down` has `MaxKeyDown` places, and the limit on keys held (`TooManyDown`) is tested with `>` before an
  insertion: with all places taken the next key is written behind the array (`input.c:1112`, `1138`). That
  is undefined. The model has both outcomes: what is there is not used, and the key counts as one more
  (`overrun`, a history variable, notes it); or it is, and the model stops (`WriteBehindArray`, `pc = "undefined"`). `TypeOK`
  says that there is no other way out of the array and that it goes one place far.

- Time is a choice: whether a second click is fast enough and whether the repeat's delay is over.
- The devices put codes between any two steps of a call. In the code they are polled inside of it.
- A filter is a set of commands it eats; the menu may queue up to two more, as `menu_pt.c` does.
- Left out: the tables of file descriptors, binding sections, the key callback (bindings shown),
  the asynchronous quit.

### The demuxer's queues

`heap` maps addresses to packets with `next`, `master` and `refs`; `ds` has the fields of
`demux_stream_t` the queues use. `filePos` is the next frame of a constant file. A byte is its
frame and its place in it, so that a byte that is lost, doubled or moved is seen.

The calls run one at a time: `demux_read_data` (`Read*`), `demux_pattern_3` (`PatternFills`,
`Scan`), `ds_get_packet` and `ds_get_packet_sub` (`GivePacket`, `Sub*`), `ds_get_next_pts`
(`Pts*`). An action is one pass of a call's loop. `Fill` enters `ds_fill_buffer`, whose passes are
`FillFromQueue`, `FillFromFile` and `FillFails`. `Seek` and `SwitchSub` come between calls.

- `demux_fill_buffer` delivers whole frames. A frame for several streams is a master with clones,
  as `demux_rawdv.c` makes them; the others are packets of their own.
- At the end of the file `demux_rawdv_fill_buffer` has allocated a packet before its read comes back short, and
  returns without it (`demux_rawdv.c:122-125`): it leaks at each call there. Other demuxers allocate none.
  `DemuxAtEnd` has both; `lost` is the set of packets left behind, `MaxLost` at most, and `MemoryIsHeld` names
  them as all that leaks.
- A start code is a place in a frame where one ends, so that codes across packets exist.
- Whether a subtitle is too early is a choice. Opening, parsing of packets as they are added,
  `pts_bytes` and the seek by time without an index are left out.

### The play tree and the options

`MConfig` has one record for `m_config_t`: `lvl`, the save slots of each option as a function from
levels to values (the list `slots`; the one in use has the highest level), the variables, and the
names set. `Push`, `Pop` and `SetOptions` are `m_config_push`, `m_config_pop` and
`m_config_set_option`; `WriteVariable` is what properties and keys do without it.

In `PlayTree`, `iter` is the player's iterator and `copy` the one a command makes to see whether a
step leads anywhere. `Loop`, `StepUp`, `StepOnGroup` and `StepToEntry` are the passes of
`play_tree_iter_step`, `Up` and `UpAtTop` those of `up_step`, `Down` is `down_step`; the functions
call one another last, so that `pc` is all there is of a call. `Stepped`, `Unwound`, `GetSource`
and `Probed` are what the player does with the answer (`load_next_file`, stop, load, `pt_step`),
the `Cmd*` actions the commands. `EndOfFile` and a step forwards by a command come to the console's choice
(`pc = "next"`): `NextFile`, the browser's next file, or `StepOn`, the step by `play_tree_step`.

- The tree is a constant, as `play_tree_cleanup` leaves it: no group without an entry, no invalid
  entry. Edits and random order are left out. Loading a list loads the same tree again.
- The browser's list is the number of files that follow the one chosen in it (`browse`, chosen anew by
  `Browse`). Whether its next file may play (the menu's setting, the same directory, no error of the
  stream) is a choice, as `StepOn` is possible with files left.
- `NextFile` (`mplayer.c:4723-4742`) leaves the iterator on its entry and does not reset `play_tree_step`. After a
  step by n that it answers, the next end of a file steps by n, and so does the first of a list begun
  later: that is what the code does, and `CopyTellsTruth` and `InTreeOrder` name their exceptions for it. A number gets
  there also when a file ends in the pass in which a command's copy finds no entry (`command.c:2808`).

## 4. What is checked

Sectors have one or two bytes, the constants of the geometry keep the code's ratios (at least 16
sectors, fill limit 8, chunk 4, a quarter or a half kept behind) at a quarter of their size or
less, and files are longer than the ring buffer where wrapping matters.

| run | instance | shows |
|---|---|---|
| `cache_gekko_seek` | ring of 8 bytes, file of 13, sector 2, chunk 8, seeks to 0, 5, 11 | The reader sees the file stream `FileStream` (`ImplementsFileStream`). The window holds the file (`WindowHoldsFile`), no byte is copied while it is overwritten (`NoRace`), the byte being waited for is not dropped (`UnreadKept`), the back bytes are kept (`BackBytesKept`), types (`TypeOK`). |
| `cache_live` | ring of 2 bytes, file of 3, all failures, 2 errors tolerated, interrupts, controls | Prefill, reads, seeks and uninit return (`PrefillEnds`, `ReadReturns`, `UninitEnds`), the teardown's wait for the filler included. |
| `cache_pthread_play` | equal threads, ring of 8, file of 13, no seek | A file played through comes out right (`ReaderGetsFile`, `NoRace`), and ends when the source has delivered it (`EofComesFromSource`). |
| `cache_pthread_seek` | the same with seeks | **Violated**, `ReaderGetsFile`: finding 1. |
| `cache_lost_tail` | console priorities, no seek | **Violated**, `EmptyReadMeansEof`: finding 2. |
| `cache_control_seek` | console priorities, one control that moves the source | **Violated**, `WindowHoldsFile`: finding 3. |
| `ao_ring` | ring of 4 buffers of 2 units, at most 7 blocks, user | The buffer the DMA reads is not written (`PlaysCleanly`), blocks come in order, and after a lost update none from farther back than once round the ring (`InOrder`), `buffered` is true while no update was lost (`CountIsTrue`), and a full ring always gets space again, lost updates or not (`SpaceComes`). |
| `ao_short_tail` | the same ring, at most 4 blocks and part of one, no user | **Violated**, `FileEnds`: finding 4. |
| `input_keys` | a key, a button and a remote control; rings of 4 codes and 2 commands, one place for keys down | The reserve (`ReserveIsForReleases`), autorepeat (`RepeatsWhatIsHeld`), one command for a combination (`OneCommandPerPress`), peeking (`TakenIsPeeked`), a quit that is taken is run (`QuitIsRun`), and one in the queue reaches the main loop or is run by the pause loop, unless a key was written behind `key_down` (`QuitIsObeyed`). |
| `demux_queues` | 5 frames, queues of 2 packets or 4 bytes, one seek or change of subtitle, one packet left behind at the end | Lists and counts (`ListsAreTrue`), memory but for that packet (`MemoryIsHeld`), bytes (`NothingLostOrTwice`), start codes (`StopsAtStartCode`), times (`PtsIsNext`), and the limit only delays (`EveryPacketIsRead`). |
| `play_tree` | 7 nodes on 4 levels, a group that plays twice, 2 options, 5 acts of the user, one file behind the one chosen in the browser | Levels (`LevelsAreGroups`), each entry's options (`OptionsAreOfEntry`), the copy's answer unless the browser's file plays (`CopyTellsTruth`), the order (`InTreeOrder`), the end (`ListEnds`). |
| `play_tree_nofs` | two entries, the first with `nofs` | **Violated**, `OptionsAreOfEntry`: finding 5. |

Why these bounds: the file is one and a half rings long and a fill may take up to a whole ring, so
the window wraps, is emptied, refilled in the middle, and at its end; the targets lie before,
inside and beyond the window, at an odd position within a sector, and near the end of the file.
`Cache2` has no counter that grows for ever, so the instances are finite without a
state constraint. The runs with equal threads keep half
of the ring behind (`BackDivisor = 2`), as the builds without the console's priorities do (`cache2.c:433`); `cache_live`
does too, so that of its two bytes one is kept. Two errors tolerated let the
retries of line 279 succeed, fail once and again, and give up. Seven blocks go round a ring of four buffers almost
twice, after any seek; a combination of two keys writes behind a `key_down` of one place, and every ring
of `input_keys` overflows. The file of `demux_queues` has a frame of two streams, one without bytes that fills the
audio's queue, a code across two video packets and a search that `maxlen` cuts. One packet left behind is
enough to be taken for one in use. The tree has options on every level, and
the five acts are enough to step back over a group that loops, change an option there, and stop, and to let the
browser answer a step by 2, stop, and begin a list with that number left.
`MaxBlocks`, `MaxSeeks`, `MaxLost` and `UserActs` bound what would go on for ever.

Deadlock is checked in the runs of the cache, whose finished states step on to themselves, and in
`input_keys` (where the undefined state does so too) and `demux_queues`, whose callers come back for ever. The runs of `AoGekko` and
`PlayTree` do stop: the output is closed, or a list has ended and the user has no acts left.

Every property of a passing run has a mutant, an operator beside the mapped definition it stands
for, that breaks it: a forgotten wrap, a lower bound not raised, a comparison left out, priorities
lost, a free space computed without the bytes ahead or behind, a clamp left
out, an end of file not recorded, a request not acknowledged.

### Findings

1. `cache2.c:22` says the design "doesn't require locking!!". That is so with the console's
   priorities only. `cache_fill` raises `min_filepos` from a snapshot of `read_filepos`; with equal
   threads the reader may seek back after the snapshot, pass its checks against the old
   `min_filepos`, and copy slots that the fill overwrites.
2. `cache_read` compares `read_filepos` with `max_filepos`, then looks at `eof`. The filler may
   store the last bytes and set `eof` in between: the read returns nothing with bytes left in the
   buffer, and an empty answer is what `stream_read` takes for the end of the file (`stream.h:271`).
3. A seek by time or chapter is run by the filler, which goes straight on to `cache_fill` before
   the main thread has moved `read_filepos`. The bytes of the new position are appended under
   positions after the old window.
4. `play()` ignores `AOPLAY_FINAL_CHUNK` and takes whole blocks only, and starts the DMA only with
   more than `request_size` bytes buffered. A file whose sound ends with part of a block, and with no
   more than one whole block since the last reset or underrun, is stuck: nothing plays, `get_delay`
   stays at .0427 s (8192 bytes of stereo at 48 kHz), and the player's check "to avoid hanging"
   (`mplayer.c:2440`) waits for less than .04 s. This is a file with sound only, very short or
   sought near its end.
5. The second name of a variable (`nofs` for `fs`, `novm` for `vm`) keeps the slot of the general
   options (`m_config.c:333`), which push does not move. Given to one file it writes that slot, and
   the pop that leaves the list "restores" it. `LevelsAreGroups` holds all the same; what is restored is
   wrong. The effect is seen once the list has ended and the player goes on (`-idle`, slave mode).

Four things the code does are no finding, as no document denies them; the model has them, and a
property names each as its exception: a key written behind `key_down` (`input.c:1112`), the packet that leaks
at the end of a file (`demux_rawdv.c:122`), the old blocks that come again after a lost update of
`buffered` (`ao_gekko.c:304`), and the browser's file that plays where a step was promised
(`mplayer.c:4725`), with the number it leaves in `play_tree_step`.

### Fairness

`FairSpec` asks that the filler, when it can step, eventually does (its sleeps end, and the
source's calls return), and that a call of the main thread that can step again and again eventually
does. Strong fairness for the latter is what a preemptive scheduler gives to the only other
thread: under `"gekko"` the main thread is interrupted whenever the filler wakes up, and runs
whenever it sleeps. Nothing is asked of the player's decisions (`Player`), of interrupts, nor of
the outcome of a read. A source whose call never returns would block the filler, and with it
`cache_uninit`: the code has no remedy for that, and the model assumes it away.

The other modules ask for less. `AoGekko`: the DMA transfers, and the main thread goes on with a call
it is in; decisions of the user are left to him, except that a pause that has begun (`StopDma`)
ends. `InputQueue`: a call of `mp_input_get_cmd` ends, and the main loop calls it again and again
(strongly, because waits of streams call it too). `DemuxQueue`: a call ends, and both decoders keep
asking (strongly, because they take turns). `PlayTree`: the player goes on, and a file ends or fails.

## 5. What is proved

All proofs hold for every value of the constants that `GeometryAssumption` and `CacheAssumption`
allow: any sizes, any seek targets, any file; and those of the other modules for every value that
`AoAssumption`, `InputAssumption`, `DemuxAssumption`, `ConfigAssumption` and `TreeAssumption` allow:
any ring, any keys, bindings and filters, any file with any limits, any options and any tree. `GeometryAssumption` asks that sizes are natural
numbers, that sectors are not empty and that the fill limit fits into what is not kept behind,
which the code's literals satisfy (16 * 3 >= 8 * 4, and 16 >= 8 * 2).

`SourceObeys` (seeks of the source succeed and no control moves it) is a hypothesis wherever it is
named; finding 3 and the ignored result of line 224 are why it is needed. `PlaysThrough` adds that
the player does not seek; finding 1 is why the equal threads need it.

| theorem | build | hypothesis | says |
|---|---|---|---|
| `WindowIsFaithful` | both | `SourceObeys` | `Spec => []WindowHoldsFile` |
| `BackBytesStay` | both | `SourceObeys` | `Spec => BackBytesKept` |
| `ReaderIsServed` | gekko | `SourceObeys` | `Spec => []ReaderGetsFile` |
| `NoRaceOnSlots` | gekko | `SourceObeys` | `Spec => []NoRace` |
| `UnreadStays` | gekko | `SourceObeys` | `Spec => UnreadKept` |
| `PlayedFileComesOut` | both | `PlaysThrough` | `Spec => []ReaderGetsFile` |
| `PlayIsApart` | both | `PlaysThrough` | `Spec => []NoRace` |
| `EofIsTheSources` | both | `PlaysThrough`, no interrupt, no read error | `Spec => []EofComesFromSource` |
| `CacheImplementsFileStream` | gekko | `SourceObeys` | `Spec => ImplementsFileStream` |
| `TypesAreKept` | gekko | `SourceObeys` | `Spec => []TypeOK` |

| theorem | module | says |
|---|---|---|
| `TypeCorrect` | `AoGekko_proofs` | `Spec => []TypeOK`: every index stays in the ring, `buffered` below `BufferCount`, also after lost updates |
| `Clean` | `AoGekko_proofs` | `Spec => []PlaysCleanly` |
| `CountTrue` | `AoGekko_proofs` | `Spec => []CountIsTrue` |
| `HeardInOrder` | `AoGekko_proofs` | `Spec => InOrder`: in order while no update was lost, and never farther back than once round the ring after one |
| `RepeatsHeld` | `InputQueue_proofs` | `Spec => []RepeatsWhatIsHeld` |
| `OneCommand` | `InputQueue_proofs` | `Spec => OneCommandPerPress` |
| `Reserve` | `InputQueue_proofs` | `Spec => []ReserveIsForReleases` |
| `TakenWasPeeked`, `QuitRuns` | `InputQueue_proofs` | `Spec => []TakenIsPeeked`, `Spec => []QuitIsRun` |
| `InputTypes` | `InputQueue_proofs` | `Spec => []TypeOK`: the keys held fit into `key_down` until one is written behind its end, one place far |
| `QueueTypes`, `QueueLists` | `DemuxQueue_proofs` | `Spec => []TypeOK`, `Spec => []ListsAreTrue` |
| `QueueMemory` | `DemuxQueue_proofs` | `Spec => []MemoryIsHeld`: nothing in use is freed, nothing leaks but what `demux_rawdv` leaves at the end of the file |
| `QueueBytes` | `DemuxQueue_proofs` | `Spec => []NothingLostOrTwice` |
| `PatternStops`, `PtsOfNext` | `DemuxQueue_proofs` | `Spec => []StopsAtStartCode`, `Spec => []PtsIsNext` |
| `LevelsMatch` | `PlayTree_proofs` | `Spec => []LevelsAreGroups` |
| `TreeTypes` | `PlayTree_proofs` | `Spec => []TypeOK` |
| `CopyIsHonest` | `PlayTree_proofs` | `Spec => []CopyTellsTruth`: the iterator goes where the copy went, or stays where the browser's file plays |
| `EntryOptions` | `PlayTree_proofs` | `Spec => []OptionsAreOfEntry`, if `OwnNames` and `OldOptions = {}` |
| `TreeOrder` | `PlayTree_proofs` | `Spec => []InTreeOrder`, if `NoEndlessLoops`; of lists begun with a `play_tree_step` of 1 |
| `PopRestores` | `PlayTree_proofs` | a level that only first names were set in gives back, when popped, what was there at its push |

The argument:

- **The window** (`WindowInv`). `WindowHoldsFile` is not inductive: it does not say why the bytes
  a read brings are the ones expected, nor that the new ones do not overwrite old ones of the
  window. `WindowInv` adds that `offset` is at most one ring behind the window's end, that the
  window is no larger than the ring, that the source stands at the window's end,
  that a running read has room after the window (`space` slots, which the raised `minPos` has left),
  that the bytes between `maxPos` and `maxPos + len` are in their slots before they are published,
  and that `offset` lags by one store after that (`fpc = "wrap"`). It mentions nothing of the main
  thread, so it holds in both builds.
- **The reader** (`ReaderInv`). What `cache_read` has checked stays true until it copies:
  after `CheckMax`, `readPos` is not past `maxPos`; after `CheckMin` it is in the window, or the
  window was emptied for it; after `Measure`, `newb` bytes are there; after `Locate`, `slot` is
  the slot of the first of them, though `offset` may have moved on by a whole ring. This needs the snapshot to be current whenever the filler computes with it
  (`SnapInv`), which is what the priorities give: from `Snapshot` to the read's start the filler
  does not block except in the seek of a window it has just emptied for that snapshot. In the other builds `SnapInv` is false, and the run
  `cache_pthread_seek` shows what follows.
- **Played through** (`PlayInv`). Without priorities the filler may compute with a snapshot of
  `readPos` that is old. Without a seek `readPos` only grows, up to `maxPos`, so the old snapshot is
  still between `minPos` and `readPos` (`PlayWindow`): it never drops the window, and raising `minPos`
  up to it keeps what the reader has checked. `PlaySlots` is the other half: the bytes after `readPos` are in their slots while
  a fill publishes them and while `offset` lags. For `EofIsTheSources`, `EofInv` adds that `eof`, and a
  read that brought nothing, follow the source's end, from which the source does not go back.
- **Refinement**. The mapping takes `tell` to `stream_tell`, `unread` to the stream buffer's rest
  and `busy` to a read or seek under way. Every step of the filler is a stutter; `Return` is
  the step that brings bytes, and `ReaderInv` says which.

- **The ring of the audio output** (`IInv`). `PlaysCleanly` says nothing of the blocks that wait,
  so it is not inductive: the DMA might turn to a buffer with a wrong block in it. `RingIsTrue`
  adds that the blocks written and not begun are in the ring, in order, from `buffer_play` to before
  `buffer_fill`, that there are `buffered` of them (one more inside of the update), and that the DMA
  is one buffer behind `buffer_play`. `play()` writes only with `buffered < BufferCount - 1`, so
  what it writes is neither one of those nor the one the DMA reads. After a lost update `RingIsTrue` is false. `Types`
  (`TypeOK` with `Control`) goes on to hold: a lost update makes `buffered` too large, never too small
  (`buffered <= loaded`). So does `RingIsRecent`, that each buffer has the last block written into it, which is
  the other half of `InOrder`.
- **Keys.** Autorepeat and combinations are small invariants over `arState`, `lastDown` and `spent`.
  For the reserve, `PressesFirst`: places of the queue beyond the half open to presses hold
  releases; taking the oldest code moves everything to a lower place, which keeps it.
- **Peeking** (`Seen`). The command peeked at is at the head of the queue and no filter eats it, at every
  point of the calls between the look and the taking; commands the menu queues go behind it. Where the
  look found an event and not the queue, the queue was empty, so the event is at its head too.
- **The play tree** (`LevelInv`). `LevelsAreGroups` counts levels of the configuration; `Balanced` adds that
  the iterator's stack is as long as its node is deep (for the stop of `up_step` at the root), and
  `PoppedInTime` that the entry's level is gone when the iterator is freed:
  `play_tree_iter_step` pops it before it does anything else, and an up step begun at an entry, which pops
  a level while the entry's is still there, is always followed by a step. A copy changes neither. The depth is a recursive function over the tree;
  `DepthAssumption`, which TLC evaluates, is all that is used of it.
- **Options.** `PopRestores` is about `LevelOn`, which push begins (`PushBegins`), writes and
  sets by first names keep (`WriteKeeps`, `SetKeeps`), and inner levels leave as it was
  (`LevelsNest`). Aliases are its exception, and `play_tree_nofs` shows that they have to be.

- **The demuxer's queues** (`Inv`). None of the invariants is inductive alone: a queue is right only while the
  heap is, the counts only while all lists are. `MemOK` states both at once over ghost lists, one sequence of
  addresses for each stream: the links of the heap make just these lists, no address is in two of them or twice in
  one, and each reference count is the number of uses by streams and clones. Given the lists, each
  operation of the heap (`free_demux_packet`, `ds_add_packet`, a fill, a flush) is a lemma of its own, stated
  with the packets that are between two streams. A packet left behind at the end of the file is one more use of
  itself in these counts: it is in no list and never freed. The ghosts are no new variables: `ChainOfList` shows that
  the recursive `Chain` computes them. `GivenTrue` is bytes: those given and those ahead are those the file holds between
  the last seek and the demuxer's place. `Scanning` says that a search under way has passed over no start
  code, `Unanswered` that a call which runs has not answered; `Told`, about the last answer, is kept while
  `Inv` holds.
- **Types of the input queue.** `InputTypes` joins the invariants above (`PressesFirst`, `Seen`) with `KeysHeld`: the keys
  held down fit into the array, and once a key was written behind it (`overrun`) they are one more at most,
  which a release that finds its key not held must keep too: it adds the key before it takes it out. `InHand` says what the call that runs holds.
- **The copy** (`OnTheWay`). A step of a walk depends on `View` only, the place in the code, the direction, the node
  and the loop counts, and `Moved` is that dependence as an operator: `WalkIsMoved` proves that every
  action of a walk follows it, whoever's the iterator is. A walk may be of any length, so what it leads to is stated
  as a closure (`Leads`): all sets that hold the start and are closed under `Moved`. While the copy walks, it is on the way from the
  player's start; once it has found an entry, the player is on the way to that one, until the browser's
  file plays instead, which withdraws the promise.
- **Options of an entry** (`OptionsInv`). `Layered` gives each level its meaning: the slot of level `Depth[y] + 2` holds
  what is worth at the node `y` of the path to the iterator, the lowest slot the general options, the variable what is
  worth at the node the iterator is on, but for what the user set. A push adds a layer, a pop removes it, and a
  step to the side changes the path below only. The hypotheses of `EntryOptions` are needed: `OwnNames` (no tree
  and no user gives an option by its alias) because of finding 5, and `OldOptions = {}` because an old option
  is not saved by a push (`m_config.c:240`), so that its value outlives the entry: TLC finds that at once with an
  old option in the instance. Two options of the player are old, `screenw` and `screenh`.
- **The order of the entries** (`InOrder`). `InTreeOrder` compares the walk with `Unrolled`, the entries computed over the
  whole tree, and says nothing of where the walk is in it. `Ordered` does: `Unrolled` is the entries begun,
  then what of the node itself is still to be played (`Now`: all of it before a step down, nothing after it), then
  what comes after the node. `Coming` gives the last its meaning for each node on the way to the root:
  the rest of the pass over its group, the passes that its loop count leaves, and what comes after the
  group. The loop counts are the iterator's own and those on its stack (`Counts`). There is a lemma for each way to
  move: to the next child or to the first again (`MovesOn`), down (`GoesDown`), out of a group that is
  over (`LeavesGroup`, `GoesUp`), and one for an entry that begins (`BeginsEntry`). `NoEndlessLoops` is needed: a list with a
  negative loop plays for ever, and has no sequence of entries to compare with. A loop of 0 counts -1 while it plays
  (`play_tree_iter_down_step`), which `CountOf` tells from a negative one by the group's own loop. Of the tree the
  proof uses that it is finite (some node is deepest) and that no node is twice among the children of a group.

The provers cannot use the library's induction theorems, which take an operator as a parameter. Where
a proof needs induction, over the length of a sequence or the depth of a node, it is about sets instead: a set of natural
numbers that is not empty has a least member (`Least`, from well-foundedness), so a set that holds
zero and with each number the next holds them all (`Induction`, in `FlatteningTheorems`).

Only model-checked: liveness (`PrefillEnds`, `ReadReturns`, `UninitEnds`, `SpaceComes`, `QuitIsObeyed`,
`EveryPacketIsRead`, `ListEnds`), which is out of the proof system's reach. Every safety property of a passing
run is also a theorem.

## 6. Reading order

For the cache: `CacheGeometry`, `Cache2` from its constants to `Next`, `FileStream`, the properties
at the end of `Cache2`, the `.cfg` files, then the proofs in the order of the table in section 3.
`AoGekko`, `InputQueue`, `DemuxQueue` and `MConfig` with `PlayTree` are each read alone: constants and
variables, the actions in the order of the code, the properties at the end, the instance, the proofs.

## 7. What is not modelled

Of the modelled parts: section 3 names what each leaves out, and `PROJECT.json` again under each
component. Parts whose behaviour a model could show, and which have none yet: the retries and resets
of the stream layer (`stream/stream.c`), the second memory bank (`osdep/mem2.c`), the mount and network
threads (`osdep/plat_gekko.c`); their hazards are listed without a property.

The rest has no behaviour of its own worth a state machine: video output (`libvo/vo_gx.c`,
`osdep/gx_supp.c`: hardware state), the demuxers of the file formats, decoders and filters (sequential
transformation of data), the parsers of play lists and configuration files, the network and file sources
(seen by the cache as a source that delivers, delays or fails), the rest of the main loop (it appears as
the open choices of `Player`, `Feed`, `Callers` and `User`), and the vendored libraries, which are most of
the repository's lines: what is modelled is a small share of them.
