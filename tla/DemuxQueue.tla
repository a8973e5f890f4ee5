------------------------------ MODULE DemuxQueue ------------------------------
(***************************************************************************)
(* The packet queues of src/mplayer/libmpdemux/demuxer.c and demuxer.h:    *)
(* packets in memory with their reference counts, the three streams which  *)
(* link them into queues and read from the current one, and the calls of   *)
(* decoders, parsers and the player that take bytes out of them.           *)
(*                                                                         *)
(* A byte is the frame of the file it is from and its place in it.  What   *)
(* the demuxer reads is a file of frames, each for one stream, or for      *)
(* audio and video, which share its bytes (demux_rawdv).  The calls run to *)
(* their end one at a time; an action is one pass of their loops.          *)
(***************************************************************************)
EXTENDS Integers, FiniteSets, SequencesExt

CONSTANTS
  Audio, Video, Sub,
  File,           \* the frames: [to, size, codes], codes where a start code ends
  MaxPacks,       \* MAX_PACKS
  MaxPackBytes,   \* MAX_PACK_BYTES
  ReadLengths,    \* the lengths demux_read_data is called with
  MaxLengths,     \* and demux_pattern_3, maxlen
  MaxSeeks,       \* bound: seeks and changes of a track over the whole behaviour
  MaxLost         \* bound: packets left behind at the end of the file

Streams == {Audio, Video, Sub}
Frames  == 1 .. Len(File)

ASSUME DemuxAssumption ==
  /\ Cardinality(Streams) = 3
  /\ {MaxPacks, MaxPackBytes} \subseteq Nat \ {0}
  /\ ReadLengths \cup MaxLengths \subseteq Nat \ {0} /\ {MaxSeeks, MaxLost} \subseteq Nat
  /\ File \in Seq([to : SUBSET Streams, size : Nat, codes : SUBSET Nat])
  /\ \A f \in Frames : \/ \E s \in Streams : File[f].to = {s}
                       \/ File[f].to = {Audio, Video}

VARIABLES
  \* the packets in memory, by address
  heap,
  \* demux_stream_t: first, last, packs, bytes, current, buffer, pos, size, eof
  ds,
  \* the demuxer: the next frame of the file
  filePos,
  \* the call that runs, and what the last one answered
  pc, call, answer,
  \* history: bytes given since the last flush, the frame the demuxer was at then, seeks, and
  \* the packets the demuxer left behind
  given, since, seeks, lost

memory  == <<heap, ds>>
history == <<given, since, seeks, lost>>
vars    == <<memory, filePos, pc, call, answer, history>>

None      == 0
Addresses == Nat \ {None}
Pointers  == Addresses \cup {None}
NoAnswer  == [op |-> "none"]

EmptyStream ==
  [first |-> None, last |-> None, packs |-> 0, bytes |-> 0, current |-> None,
   buffer |-> None, pos |-> 0, size |-> 0, eof |-> FALSE]

Init ==
  /\ heap = <<>> /\ ds = [s \in Streams |-> EmptyStream]
  /\ filePos = 1
  /\ pc = "idle" /\ call = [op |-> "packet", s |-> Audio, left |-> 0, total |-> 0] /\ answer = NoAnswer
  /\ given = [s \in Streams |-> <<>>] /\ since = [s \in Streams |-> 1]
  /\ seeks = 0 /\ lost = {}

------------------------------------------------------------------------------
(* Packets.                                                                 *)

Without(h, p) == Restrict(h, DOMAIN h \ {p})
MasterOf(h, p) == IF h[p].master = None THEN p ELSE h[p].master
SizeOf(h, p) == File[h[p].frame].size

NewAddress(h) == CHOOSE a \in 1 .. Cardinality(DOMAIN h) + 1 : a \notin DOMAIN h

\* Mutant: a clone does not count for the bytes it shares.
NewPacketUncounted(h, f, master) ==
  LET p == NewAddress(h) IN
  [x \in DOMAIN h \cup {p} |->
     IF x = p THEN [frame |-> f, next |-> None, master |-> master,
                    refs |-> IF master = None THEN 1 ELSE 0] ELSE h[x]]
\* new_demux_packet, or clone_demux_packet when a master is given.
NewPacket(h, f, master) ==
  LET p == NewAddress(h) IN
  [x \in DOMAIN h \cup {p} |->
     IF x = p THEN [frame |-> f, next |-> None, master |-> master,
                    refs |-> IF master = None THEN 1 ELSE 0]
     ELSE IF x = master THEN [h[x] EXCEPT !.refs = @ + 1] ELSE h[x]]

Unref(h, m) == IF h[m].refs = 1 THEN Without(h, m) ELSE [h EXCEPT ![m].refs = @ - 1]

\* free_demux_packet: a clone gives up its share of the master's bytes, then goes itself.
FreePacket(h, p) ==
  IF h[p].master = None THEN Unref(h, p) ELSE Without(Unref(h, h[p].master), p)

------------------------------------------------------------------------------
(* Streams: a queue q is the pair of the memory and the three streams.      *)

\* ds_add_packet.
AddPacket(q, s, p) ==
  LET d == q.ds[s] IN
  [heap |-> IF d.last = None THEN q.heap ELSE [q.heap EXCEPT ![d.last].next = p],
   ds   |-> [q.ds EXCEPT ![s] = [d EXCEPT !.packs = @ + 1, !.bytes = @ + SizeOf(q.heap, p),
                                          !.first = IF d.last = None THEN p ELSE @, !.last = p]]]

\* The packets linked from p on: their addresses, one too many if they form a cycle.
Chain(h, p) ==
  LET at[n \in 0 .. Cardinality(DOMAIN h)] ==
        IF n = 0 THEN p ELSE IF at[n - 1] \in DOMAIN h THEN h[at[n - 1]].next ELSE None
      length == Cardinality({n \in 0 .. Cardinality(DOMAIN h) : at[n] # None})
  IN [i \in 1 .. length |-> at[i - 1]]

\* A new packet for a stream, or a clone of the master for it.
AddNew(q, s, f, master) ==
  AddPacket([q EXCEPT !.heap = NewPacket(q.heap, f, master)], s, NewAddress(q.heap))

\* The demuxer's fill_buffer: the next frame; when audio and video share it, the audio gets a
\* clone of the master, which is added before it.
DemuxFillBuffer(q) ==
  LET to     == File[filePos].to
      owner  == IF Video \in to THEN Video ELSE CHOOSE s \in to : TRUE
      master == NewAddress(q.heap)
      withMaster == [q EXCEPT !.heap = NewPacket(q.heap, filePos, None)]
  IN AddPacket(IF to = {Audio, Video} THEN AddNew(withMaster, Audio, filePos, master)
                                      ELSE withMaster,
               owner, master)

AtEnd == filePos > Len(File)

\* Asked for a frame at the end of the file, demux_rawdv has allocated a packet before its read
\* fails, and returns without it: nothing points at it any more. Other demuxers leave none.
DemuxAtEnd ==
  \/ UNCHANGED <<heap, lost>>
  \/ /\ Cardinality(lost) < MaxLost
     /\ heap' = NewPacket(heap, filePos, None) /\ lost' = lost \cup {NewAddress(heap)}

\* "Too many packets in the buffer", of audio or of video.
TooMany == \E s \in {Audio, Video} : ds[s].packs >= MaxPacks \/ ds[s].bytes >= MaxPackBytes

\* The loop of ds_free_packs: packet after packet.
FreeAll(h, packets) ==
  LET freed[n \in 0 .. Len(packets)] ==
        IF n = 0 THEN h ELSE FreePacket(freed[n - 1], packets[n])
  IN freed[Len(packets)]

\* Mutant: the size of the current packet goes, and the place in it stays.
FreePacksAndSize(q, s) ==
  [heap |-> FreeAll(q.heap, Chain(q.heap, q.ds[s].first)),
   ds   |-> [q.ds EXCEPT ![s] = [EmptyStream EXCEPT !.pos = q.ds[s].pos, !.eof = q.ds[s].eof]]]
\* ds_free_packs: eof and buffer_size stay.
FreePacks(q, s) ==
  LET d == q.ds[s]
      queueFreed == FreeAll(q.heap, Chain(q.heap, d.first))
  IN
  [heap |-> IF d.current = None THEN queueFreed ELSE FreePacket(queueFreed, d.current),
   ds   |-> [q.ds EXCEPT ![s] = [EmptyStream EXCEPT !.pos = d.size, !.size = d.size, !.eof = d.eof]]]

Queues == [heap |-> heap, ds |-> ds]
Become(q) == heap' = q.heap /\ ds' = q.ds

------------------------------------------------------------------------------
(* ds_fill_buffer.                                                          *)

S == call.s
D == ds[S]
Drained == D.pos >= D.size

Fill ==
  /\ heap' = IF D.current = None THEN heap ELSE FreePacket(heap, D.current)
  /\ ds' = [ds EXCEPT ![S].current = None] /\ pc' = "fill"
  /\ UNCHANGED <<filePos, call, answer, history>>

\* Mutant: the end that was met before is remembered.
FillFromQueueAtEof ==
  /\ pc = "fill" /\ D.packs > 0
  /\ ds' = [ds EXCEPT ![S].buffer = MasterOf(heap, D.first), ![S].pos = 0,
                      ![S].size = SizeOf(heap, D.first), ![S].bytes = @ - SizeOf(heap, D.first),
                      ![S].current = D.first, ![S].first = heap[D.first].next,
                      ![S].last = IF heap[D.first].next = None THEN None ELSE @,
                      ![S].packs = @ - 1]
  /\ pc' = IF call.op \in {"packet", "sub"} THEN "give" ELSE "loop"
  /\ UNCHANGED <<heap, filePos, call, answer, history>>
\* Mutant: last stays when the queue becomes empty.
FillFromQueueKeepsLast ==
  /\ pc = "fill" /\ D.packs > 0
  /\ ds' = [ds EXCEPT ![S].eof = FALSE, ![S].buffer = MasterOf(heap, D.first), ![S].pos = 0,
                      ![S].size = SizeOf(heap, D.first), ![S].bytes = @ - SizeOf(heap, D.first),
                      ![S].current = D.first, ![S].first = heap[D.first].next, ![S].packs = @ - 1]
  /\ pc' = IF call.op \in {"packet", "sub"} THEN "give" ELSE "loop"
  /\ UNCHANGED <<heap, filePos, call, answer, history>>
\* The first packet becomes the current one: "obviously not yet EOF after all".
FillFromQueue ==
  /\ pc = "fill" /\ D.packs > 0
  /\ ds' = [ds EXCEPT ![S].eof = FALSE,
                      ![S].buffer = MasterOf(heap, D.first), ![S].pos = 0,
                      ![S].size = SizeOf(heap, D.first), ![S].bytes = @ - SizeOf(heap, D.first),
                      ![S].current = D.first, ![S].first = heap[D.first].next,
                      ![S].last = IF heap[D.first].next = None THEN None ELSE @,
                      ![S].packs = @ - 1]
  /\ pc' = IF call.op \in {"packet", "sub"} THEN "give" ELSE "loop"
  /\ UNCHANGED <<heap, filePos, call, answer, history>>

FillFromFile ==
  /\ pc = "fill" /\ D.packs = 0 /\ ~D.eof /\ ~TooMany /\ ~AtEnd
  /\ Become(DemuxFillBuffer(Queues)) /\ filePos' = filePos + 1
  /\ UNCHANGED <<pc, call, answer, history>>

\* The end of the file, too many packets, or an eof not taken back: the call ends.
FillFails ==
  /\ pc = "fill" /\ D.packs = 0
  /\ \/ (D.eof \/ TooMany) /\ UNCHANGED <<heap, lost>>
     \/ ~D.eof /\ ~TooMany /\ AtEnd /\ DemuxAtEnd
  /\ ds' = [ds EXCEPT ![S].buffer = None, ![S].pos = 0, ![S].size = 0, ![S].eof = TRUE]
  /\ pc' = "idle"
  /\ answer' = IF call.op = "pattern" THEN [op |-> "pattern", found |-> FALSE, n |-> call.total]
                                      ELSE NoAnswer
  /\ UNCHANGED <<filePos, call, given, since, seeks>>

\* The next n bytes of the current packet go to the caller.
Give(n) ==
  /\ given' = [given EXCEPT ![S] = @ \o [i \in 1 .. n |-> <<heap[D.buffer].frame, D.pos + i>>]]
  /\ ds' = [ds EXCEPT ![S].pos = @ + n]
  /\ UNCHANGED <<heap, filePos, since, seeks, lost>>

------------------------------------------------------------------------------
(* The calls.                                                               *)

Call(op, s, n) ==
  /\ pc = "idle"
  /\ call' = [op |-> op, s |-> s, left |-> n, total |-> 0] /\ pc' = "loop" /\ answer' = NoAnswer
  /\ UNCHANGED <<memory, filePos, history>>

Looping(op) == pc = "loop" /\ call.op = op

\* ds_get_packet and ds_get_packet_sub, which does not read the file.
PacketFills  == Looping("packet") /\ Drained /\ Fill
SubFills     == Looping("sub") /\ Drained /\ D.packs > 0 /\ Fill
NoSub ==
  /\ Looping("sub") /\ Drained /\ D.packs = 0
  /\ pc' = "idle"
  /\ UNCHANGED <<memory, filePos, call, answer, history>>
GivePacket ==
  /\ pc = "give" \/ ((Looping("packet") \/ Looping("sub")) /\ ~Drained)
  /\ Give(D.size - D.pos)
  /\ pc' = "idle" /\ UNCHANGED <<call, answer>>
\* Mutant: a packet that is too early is taken all the same.
SubTooEarlyIsTaken ==
  /\ call.op = "sub" /\ D.pos = 0 /\ (pc = "give" \/ (pc = "loop" /\ ~Drained))
  /\ ds' = [ds EXCEPT ![S].pos = D.size] /\ pc' = "idle"
  /\ UNCHANGED <<heap, filePos, call, answer, history>>
\* "Check if we are too early": the packet stays, unread.
SubTooEarly ==
  /\ call.op = "sub" /\ D.pos = 0 /\ (pc = "give" \/ (pc = "loop" /\ ~Drained))
  /\ pc' = "idle"
  /\ UNCHANGED <<memory, filePos, call, answer, history>>

\* demux_read_data.
ReadFills == Looping("read") /\ call.left > 0 /\ Drained /\ Fill
ReadSome ==
  /\ Looping("read") /\ call.left > 0 /\ ~Drained
  /\ LET x == IF D.size - D.pos > call.left THEN call.left ELSE D.size - D.pos IN
     Give(x) /\ call' = [call EXCEPT !.left = @ - x]
  /\ UNCHANGED <<pc, answer>>
ReadEnds ==
  /\ Looping("read") /\ call.left = 0
  /\ pc' = "idle"
  /\ UNCHANGED <<memory, filePos, call, answer, history>>

\* demux_pattern_3: call.left is maxlen, call.total the bytes read.
PatternFills == Looping("pattern") /\ Drained /\ Fill
\* The place in the buffer where the scan stops: at the end of a start code, which takes three
\* bytes of this call, or of the buffer.
CodesAhead == {i \in D.pos + 1 .. D.size : i \in File[heap[D.buffer].frame].codes
                                           /\ call.total + i - D.pos >= 3}
ScanStop == IF CodesAhead = {} THEN D.size
            ELSE CHOOSE i \in CodesAhead : \A j \in CodesAhead : i <= j
\* Mutant: the scan goes on to the end of the buffer.
ScanAll ==
  /\ Looping("pattern") /\ ~Drained
  /\ LET rest  == D.size - D.pos
         n     == IF call.total + rest > call.left THEN call.left - call.total ELSE rest
         found == CodesAhead # {}
     IN
     /\ Give(n) /\ call' = [call EXCEPT !.total = @ + n]
     /\ IF found \/ call.total + n >= call.left
        THEN pc' = "idle" /\ answer' = [op |-> "pattern", found |-> found, n |-> call'.total]
        ELSE UNCHANGED <<pc, answer>>
\* One pass: what was scanned is read, up to maxlen.
Scan ==
  /\ Looping("pattern") /\ ~Drained
  /\ LET scanned == ScanStop - D.pos
         n == IF call.total + scanned > call.left THEN call.left - call.total ELSE scanned
         matched == CodesAhead # {}
     IN
     /\ Give(n) /\ call' = [call EXCEPT !.total = @ + n]
     /\ IF (matched /\ call.total + n >= 3) \/ call.total + n >= call.left
        THEN /\ pc' = "idle"
             /\ answer' = [op |-> "pattern", found |-> matched /\ call.total + n >= 3,
                           n |-> call.total + n]
        ELSE UNCHANGED <<pc, answer>>

\* ds_get_next_pts: it reads ahead, but takes nothing; the time is the frame.
Unread == D.current # None /\ D.pos = 0
PtsFills ==
  /\ Looping("pts") /\ D.first = None /\ ~Unread /\ ~TooMany /\ ~AtEnd
  /\ Become(DemuxFillBuffer(Queues)) /\ filePos' = filePos + 1
  /\ UNCHANGED <<pc, call, answer, history>>
NoPts ==
  /\ Looping("pts") /\ D.first = None /\ ~Unread
  /\ \/ TooMany /\ UNCHANGED <<heap, lost>>
     \/ ~TooMany /\ AtEnd /\ DemuxAtEnd
  /\ pc' = "idle"
  /\ UNCHANGED <<ds, filePos, call, answer, given, since, seeks>>
\* Mutant: the packet being read from is asked first.
PtsOfCurrent ==
  /\ Looping("pts") /\ (D.first # None \/ Unread)
  /\ pc' = "idle"
  /\ answer' = [op |-> "pts", frame |-> heap[IF D.current # None THEN D.current ELSE D.first].frame]
  /\ UNCHANGED <<memory, filePos, call, history>>
GivePts ==
  /\ Looping("pts") /\ (D.first # None \/ Unread)
  /\ pc' = "idle"
  /\ answer' = [op |-> "pts", frame |-> heap[IF Unread THEN D.current ELSE D.first].frame]
  /\ UNCHANGED <<memory, filePos, call, history>>

\* demux_seek, in a file that can be sought in: demux_flush, no eof, another place in the file.
Seek ==
  /\ pc = "idle" /\ seeks < MaxSeeks
  /\ LET flushed == FreePacks(FreePacks(FreePacks(Queues, Video), Audio), Sub) IN
     heap' = flushed.heap /\ ds' = [s \in Streams |-> [flushed.ds[s] EXCEPT !.eof = FALSE]]
  /\ filePos' \in Frames
  /\ given' = [s \in Streams |-> <<>>] /\ since' = [s \in Streams |-> filePos']
  /\ seeks' = seeks + 1 /\ answer' = NoAnswer
  /\ UNCHANGED <<pc, call, lost>>

\* Another subtitle: what is queued for the old one goes.
SwitchSub ==
  /\ pc = "idle" /\ seeks < MaxSeeks
  /\ Become(FreePacks(Queues, Sub))
  /\ given' = [given EXCEPT ![Sub] = <<>>] /\ since' = [since EXCEPT ![Sub] = filePos]
  /\ seeks' = seeks + 1 /\ answer' = NoAnswer
  /\ UNCHANGED <<filePos, pc, call, lost>>

Calls ==
  \/ \E s \in {Audio, Video} : Call("packet", s, 0)
  \/ \E s \in {Audio, Video}, n \in ReadLengths : Call("read", s, n)
  \/ \E n \in MaxLengths : Call("pattern", Video, n)
  \/ \E s \in Streams : Call("pts", s, 0)
  \/ Call("sub", Sub, 0)
Step ==
  \/ FillFromQueue \/ FillFromFile \/ FillFails
  \/ PacketFills \/ SubFills \/ NoSub \/ GivePacket \/ SubTooEarly
  \/ ReadFills \/ ReadSome \/ ReadEnds
  \/ PatternFills \/ Scan
  \/ PtsFills \/ NoPts \/ GivePts

Next == Calls \/ Step \/ Seek \/ SwitchSub

Spec == Init /\ [][Next]_vars

\* A call runs to its end, and the decoders of audio and of video both go on reading.
FairSpec ==
  /\ Spec /\ WF_vars(Step)
  /\ \A s \in {Audio, Video} : SF_vars(Call("packet", s, 0))

------------------------------------------------------------------------------
(* Properties.                                                              *)

\* The frame behind the last is that of a packet nothing was read into.
Packets == [frame : 1 .. Len(File) + 1, next : Pointers, master : Pointers, refs : Nat]

TypeOK ==
  /\ DOMAIN heap \subseteq Addresses /\ \A p \in DOMAIN heap : heap[p] \in Packets
  /\ \A s \in Streams :
       /\ {ds[s].first, ds[s].last, ds[s].current, ds[s].buffer} \subseteq Pointers
       /\ {ds[s].packs, ds[s].bytes} \subseteq Nat
       /\ ds[s].pos \in 0 .. ds[s].size /\ ds[s].eof \in BOOLEAN
  /\ filePos \in 1 .. Len(File) + 1 /\ seeks \in 0 .. MaxSeeks /\ lost \subseteq DOMAIN heap
  /\ pc \in {"idle", "loop", "fill", "give"}
  /\ call.op \in {"packet", "sub", "read", "pattern", "pts"} /\ call.s \in Streams

Queue(s) == Chain(heap, ds[s].first)

BytesOf(f, from) == [i \in 1 .. File[f].size - from |-> <<f, from + i>>]

\* The bytes of the packets a stream queues.
Queued(s) == FlattenSeq([i \in 1 .. Len(Queue(s)) |-> BytesOf(heap[Queue(s)[i]].frame, 0)])

\* Of each stream, packs, bytes and last agree with the packets linked from first, and no packet
\* is in two queues, or twice in one, or read from while it is queued.
ListsAreTrue ==
  \A s \in Streams :
    LET q == Queue(s) IN
    /\ ds[s].packs = Len(q) /\ ds[s].bytes = Len(Queued(s))
    /\ ds[s].last = IF q = <<>> THEN None ELSE q[Len(q)]
    /\ \A i, j \in DOMAIN q : q[i] = q[j] => i = j
    /\ \A t \in Streams :
         ds[t].current \notin Range(q) /\ (s # t => Range(Queue(t)) \cap Range(q) = {})

InUse == UNION {Range(Queue(s)) \cup ({ds[s].current} \ {None}) : s \in Streams}
ClonesOf(m) == {p \in DOMAIN heap : heap[p].master = m}

\* No buffer a stream reads from has been freed, and a packet is in memory as long as a stream
\* queues it, reads from it, or has a clone of it, and not longer, with one exception: a packet
\* demux_rawdv allocates when it is asked at the end of the file is never freed. Those are all
\* that leaks: every other packet is held, and no stream holds one of them.
MemoryIsHeld ==
  LET held == InUse \cup lost IN
  /\ held \subseteq DOMAIN heap /\ lost \cap InUse = {}
  /\ \A p \in DOMAIN heap :
       IF heap[p].master = None
       THEN heap[p].refs = Cardinality(ClonesOf(p)) + Cardinality({p} \cap held) /\ heap[p].refs > 0
       ELSE p \in held /\ heap[p].master \in DOMAIN heap
  /\ \A s \in Streams : ~(ds[s].pos >= ds[s].size) =>
       ds[s].current # None /\ ds[s].buffer = MasterOf(heap, ds[s].current)

Ahead(s) ==
  (IF ds[s].pos < ds[s].size THEN BytesOf(heap[ds[s].buffer].frame, ds[s].pos) ELSE <<>>) \o Queued(s)
Demuxed(s) ==
  FlattenSeq([i \in 1 .. filePos - since[s] |->
            IF s \in File[since[s] + i - 1].to THEN BytesOf(since[s] + i - 1, 0) ELSE <<>>])

\* Whichever calls take them, in whatever mixture, the bytes given to the readers of a stream and
\* those still ahead of them are those the demuxer read for it since the last flush, in order.
NothingLostOrTwice == \A s \in Streams : given[s] \o Ahead(s) = Demuxed(s)

IsCode(byte) == byte[2] \in File[byte[1]].codes

\* demux_pattern_3 passes over no start code, also not one that lies across packets, and a code it
\* says it found is the last it read, unless it read as much as it may.
StopsAtStartCode ==
  answer.op = "pattern" =>
    LET read == SubSeq(given[Video], Len(given[Video]) - answer.n + 1, Len(given[Video])) IN
    /\ \A i \in 3 .. answer.n : IsCode(read[i]) => i = answer.n /\ answer.found
    /\ answer.found => answer.n >= 3 /\ (IsCode(read[answer.n]) \/ answer.n = call.left)

\* ds_get_next_pts tells the time of the packet the reader begins next, be it current or still to
\* become so, never that of one it has begun. A packet without bytes is the exception: its reader
\* has nothing to begin, and its time is told again until the next packet is fetched.
PtsIsNext ==
  answer.op = "pts" =>
    LET ahead  == Ahead(call.s)
        begins == {i \in DOMAIN ahead : ahead[i][2] = 1}
    IN
    /\ call.s \in File[answer.frame].to
    /\ File[answer.frame].size > 0 =>
         \E i \in begins : ahead[i][1] = answer.frame /\ \A j \in begins : i <= j

\* Too many packets of one stream end the other only for the time being: as long as both are read,
\* all that is in the file is read.
EveryPacketIsRead ==
  <>[](AtEnd /\ \A s \in {Audio, Video} : Ahead(s) = <<>>)
=============================================================================
