--------------------------- MODULE DemuxQueue_proofs ---------------------------
(***************************************************************************)
(* The packet queues for every file, every limit and every length of list. *)
(*                                                                         *)
(* The model follows links, frees and joins with functions defined by      *)
(* recursion on how far they have come: what is shown of them is shown by  *)
(* induction over the numbers.  First come the operations: what each does  *)
(* to a heap whose reference counts are true, and to the lists in it.      *)
(* The theorems of the state machine are at the end.                       *)
(***************************************************************************)
EXTENDS DemuxQueue, FlatteningTheorems

------------------------------------------------------------------------------
(* The packets in memory.  U is the set of the packets somebody holds: a    *)
(* stream, which queues or reads them, or the call which adds them.         *)

Clones(h, m) == {p \in DOMAIN h : h[p].master = m}

HeapTyped(h) ==
  /\ IsFiniteSet(DOMAIN h) /\ DOMAIN h \subseteq Addresses
  /\ \A p \in DOMAIN h : h[p] \in Packets

\* A master counts who holds it and its clones; a clone is held, and is one of a master.
Counted(h, U) ==
  /\ U \subseteq DOMAIN h
  /\ \A p \in DOMAIN h : h[p].master = None =>
       /\ h[p].refs = Cardinality(Clones(h, p)) + (IF p \in U THEN 1 ELSE 0)
       /\ h[p].refs > 0
  /\ \A p \in DOMAIN h : h[p].master # None =>
       /\ p \in U /\ h[p].master \in DOMAIN h
       /\ h[h[p].master].master = None /\ h[h[p].master].frame = h[p].frame

HeapOK(h, U) == HeapTyped(h) /\ Counted(h, U)

\* Of the packets of h, those left in g are what they were.
Same(h, g) ==
  /\ DOMAIN g \subseteq DOMAIN h
  /\ \A p \in DOMAIN g : /\ g[p].frame = h[p].frame /\ g[p].next = h[p].next
                         /\ g[p].master = h[p].master

LEMMA SameTransitive == ASSUME NEW a, NEW b, NEW c, Same(a, b), Same(b, c) PROVE Same(a, c)
BY DEF Same

LEMMA ClonesFinite ==
  ASSUME NEW h, NEW m, HeapTyped(h)
  PROVE  IsFiniteSet(Clones(h, m)) /\ Cardinality(Clones(h, m)) \in Nat
<1>1. Clones(h, m) \subseteq DOMAIN h
  BY DEF Clones
<1> QED BY <1>1, FS_Subset, FS_CardinalityType DEF HeapTyped

\* One reference less, of a master which is left.
LEMMA PacketUnref ==
  ASSUME NEW pk \in Packets, pk.refs > 0
  PROVE  /\ [pk EXCEPT !.refs = @ - 1] \in Packets
         /\ [pk EXCEPT !.refs = @ - 1].refs = pk.refs - 1
         /\ [pk EXCEPT !.refs = @ - 1].frame = pk.frame
         /\ [pk EXCEPT !.refs = @ - 1].next = pk.next
         /\ [pk EXCEPT !.refs = @ - 1].master = pk.master
BY DEF Packets

LEMMA FreeMaster ==
  ASSUME NEW h, NEW U, HeapOK(h, U), NEW p \in U, h[p].master = None
  PROVE  HeapOK(FreePacket(h, p), U \ {p}) /\ Same(h, FreePacket(h, p))
<1> DEFINE g == FreePacket(h, p)
<1>1. p \in DOMAIN h /\ p # None /\ h[p].refs = Cardinality(Clones(h, p)) + 1
  BY DEF HeapOK, HeapTyped, Counted, Addresses, None
<1>2. g = Unref(h, p)
  BY DEF FreePacket
<1>3. CASE h[p].refs = 1
  <2>1. Clones(h, p) = {}
    BY <1>1, <1>3, ClonesFinite, FS_EmptySet DEF HeapOK
  <2>2. DOMAIN g = DOMAIN h \ {p} /\ \A x \in DOMAIN g : g[x] = h[x]
    BY <1>2, <1>3 DEF Unref, Without, Restrict
  <2> HIDE DEF g
  <2>3. HeapTyped(g)
    BY <2>2, FS_Subset DEF HeapOK, HeapTyped
  <2>4. \A x \in DOMAIN g : Clones(g, x) = Clones(h, x)
    BY <2>2 DEF Clones, HeapOK, HeapTyped, Addresses
  <2>5. Counted(g, U \ {p})
    <3>1. U \ {p} \subseteq DOMAIN g
      BY <2>2 DEF HeapOK, Counted
    <3>2. ASSUME NEW x \in DOMAIN g, g[x].master = None
          PROVE  g[x].refs = Cardinality(Clones(g, x)) + (IF x \in U \ {p} THEN 1 ELSE 0) /\ g[x].refs > 0
      BY <3>2, <2>2, <2>4 DEF HeapOK, Counted
    <3>3. ASSUME NEW x \in DOMAIN g, g[x].master # None
          PROVE  /\ x \in U \ {p} /\ g[x].master \in DOMAIN g
                 /\ g[g[x].master].master = None /\ g[g[x].master].frame = g[x].frame
      <4>1. h[x].master # p
        BY <2>1, <2>2 DEF Clones
      <4> QED BY <3>3, <2>2, <4>1 DEF HeapOK, Counted
    <3> QED BY <3>1, <3>2, <3>3 DEF Counted
  <2> QED BY <2>2, <2>3, <2>5 DEF HeapOK, Same, g
<1>4. CASE h[p].refs # 1
  <2>1. g = [h EXCEPT ![p].refs = @ - 1]
    BY <1>2, <1>4 DEF Unref
  <2>2. h[p] \in Packets /\ h[p].refs > 0
    BY <1>1 DEF HeapOK, HeapTyped, Counted
  <2>3. /\ DOMAIN g = DOMAIN h /\ \A x \in DOMAIN h \ {p} : g[x] = h[x]
        /\ g[p] = [h[p] EXCEPT !.refs = @ - 1]
    BY <2>1, <1>1
  <2>4. /\ g[p] \in Packets /\ g[p].refs = h[p].refs - 1 /\ g[p].frame = h[p].frame
        /\ g[p].next = h[p].next /\ g[p].master = h[p].master
    BY <2>2, <2>3, PacketUnref
  <2> HIDE DEF g
  <2>5. Same(h, g) /\ \A x \in DOMAIN g : Clones(g, x) = Clones(h, x)
    BY <2>3, <2>4 DEF Same, Clones
  <2>6. HeapTyped(g)
    BY <2>3, <2>4 DEF HeapOK, HeapTyped
  <2>7. h[p].refs - 1 = Cardinality(Clones(h, p)) /\ h[p].refs - 1 > 0
    BY <1>1, <1>4, <2>2, ClonesFinite DEF HeapOK
  <2>8. Counted(g, U \ {p})
    <3>1. U \ {p} \subseteq DOMAIN g
      BY <2>3 DEF HeapOK, Counted
    <3>2. ASSUME NEW x \in DOMAIN g, g[x].master = None
          PROVE  g[x].refs = Cardinality(Clones(g, x)) + (IF x \in U \ {p} THEN 1 ELSE 0) /\ g[x].refs > 0
      <4>1. CASE x = p
        BY <4>1, <2>4, <2>5, <2>7, ClonesFinite DEF HeapOK
      <4>2. CASE x # p
        BY <4>2, <3>2, <2>3, <2>5 DEF HeapOK, Counted
      <4> QED BY <4>1, <4>2
    <3>3. ASSUME NEW x \in DOMAIN g, g[x].master # None
          PROVE  /\ x \in U \ {p} /\ g[x].master \in DOMAIN g
                 /\ g[g[x].master].master = None /\ g[g[x].master].frame = g[x].frame
      <4>1. x # p /\ g[x] = h[x] /\ g[x].master \in DOMAIN h
        BY <3>3, <2>3, <2>4 DEF HeapOK, Counted
      <4> QED BY <4>1, <3>3, <2>3, <2>5 DEF HeapOK, Counted, Same
    <3> QED BY <3>1, <3>2, <3>3 DEF Counted
  <2> QED BY <2>5, <2>6, <2>8 DEF HeapOK, g
<1> QED BY <1>3, <1>4

LEMMA FreeClone ==
  ASSUME NEW h, NEW U, HeapOK(h, U), NEW p \in U, h[p].master # None
  PROVE  HeapOK(FreePacket(h, p), U \ {p}) /\ Same(h, FreePacket(h, p))
<1> DEFINE g == FreePacket(h, p)  m == h[p].master
<1>1. /\ p \in DOMAIN h /\ m \in DOMAIN h /\ m # None /\ m # p
      /\ h[m].master = None /\ p \in Clones(h, m)
      /\ h[m].refs = Cardinality(Clones(h, m)) + (IF m \in U THEN 1 ELSE 0)
  BY DEF HeapOK, HeapTyped, Counted, Clones
<1>2. g = Without(Unref(h, m), p)
  BY DEF FreePacket
<1>3. /\ Cardinality(Clones(h, m) \ {p}) = Cardinality(Clones(h, m)) - 1
      /\ Cardinality(Clones(h, m)) \in Nat /\ Cardinality(Clones(h, m) \ {p}) \in Nat
      /\ IsFiniteSet(Clones(h, m) \ {p})
  BY <1>1, ClonesFinite, FS_RemoveElement, FS_CardinalityType DEF HeapOK
<1>4. h[m] \in Packets /\ h[m].refs > 0
  BY <1>1 DEF HeapOK, HeapTyped, Counted
<1> HIDE DEF m
<1>5. CASE h[m].refs = 1
  <2>1. Clones(h, m) = {p} /\ m \notin U
    <3>1. m \notin U /\ Cardinality(Clones(h, m) \ {p}) = 0
      BY <1>1, <1>3, <1>5
    <3>2. Clones(h, m) \ {p} = {}
      BY <3>1, <1>3, FS_EmptySet
    <3> QED BY <3>1, <3>2, <1>1
  <2>2. DOMAIN g = DOMAIN h \ {p, m} /\ \A x \in DOMAIN g : g[x] = h[x]
    BY <1>2, <1>5 DEF Unref, Without, Restrict
  <2> HIDE DEF g
  <2>3. HeapTyped(g)
    BY <2>2, FS_Subset DEF HeapOK, HeapTyped
  <2>4. \A x \in DOMAIN g : Clones(g, x) = Clones(h, x)
    BY <1>1, <2>1, <2>2 DEF Clones, HeapOK, HeapTyped, Addresses
  <2>5. Counted(g, U \ {p})
    <3>1. U \ {p} \subseteq DOMAIN g
      BY <2>1, <2>2 DEF HeapOK, Counted
    <3>2. ASSUME NEW x \in DOMAIN g, g[x].master = None
          PROVE  g[x].refs = Cardinality(Clones(g, x)) + (IF x \in U \ {p} THEN 1 ELSE 0) /\ g[x].refs > 0
      BY <3>2, <2>2, <2>4 DEF HeapOK, Counted
    <3>3. ASSUME NEW x \in DOMAIN g, g[x].master # None
          PROVE  /\ x \in U \ {p} /\ g[x].master \in DOMAIN g
                 /\ g[g[x].master].master = None /\ g[g[x].master].frame = g[x].frame
      <4>1. h[x].master # m
        BY <2>1, <2>2 DEF Clones
      <4>2. h[x].master # p
        BY <3>3, <2>2, <1>1 DEF HeapOK, Counted, m
      <4> QED BY <3>3, <2>2, <4>1, <4>2 DEF HeapOK, Counted
    <3> QED BY <3>1, <3>2, <3>3 DEF Counted
  <2> QED BY <2>2, <2>3, <2>5 DEF HeapOK, Same, g
<1>6. CASE h[m].refs # 1
  <2> DEFINE k == [h EXCEPT ![m].refs = @ - 1]
  <2>1. g = Without(k, p)
    BY <1>2, <1>6 DEF Unref
  <2>2. DOMAIN k = DOMAIN h /\ k[m] = [h[m] EXCEPT !.refs = @ - 1] /\ \A x \in DOMAIN h \ {m} : k[x] = h[x]
    BY <1>1
  <2> HIDE DEF k
  <2>3. /\ DOMAIN g = DOMAIN h \ {p} /\ \A x \in DOMAIN g \ {m} : g[x] = h[x]
        /\ m \in DOMAIN g /\ g[m] = [h[m] EXCEPT !.refs = @ - 1]
    BY <2>1, <2>2, <1>1 DEF Without, Restrict
  <2>4. /\ g[m] \in Packets /\ g[m].refs = h[m].refs - 1 /\ g[m].frame = h[m].frame
        /\ g[m].next = h[m].next /\ g[m].master = h[m].master
    BY <1>4, <2>3, PacketUnref
  <2> HIDE DEF g
  <2>5. Same(h, g)
    BY <2>3, <2>4 DEF Same
  <2>6. HeapTyped(g)
    BY <2>3, <2>4, FS_Subset DEF HeapOK, HeapTyped
  <2>7. Clones(g, m) = Clones(h, m) \ {p} /\ \A x \in DOMAIN g : x # m => Clones(g, x) = Clones(h, x)
    BY <2>3, <2>5, <1>1 DEF Clones, Same
  <2>8. Counted(g, U \ {p})
    <3>1. U \ {p} \subseteq DOMAIN g
      BY <2>3 DEF HeapOK, Counted
    <3>2. ASSUME NEW x \in DOMAIN g, g[x].master = None
          PROVE  g[x].refs = Cardinality(Clones(g, x)) + (IF x \in U \ {p} THEN 1 ELSE 0) /\ g[x].refs > 0
      <4>1. CASE x = m
        <5>1. g[x].refs = h[m].refs - 1 /\ h[m].refs \in Nat /\ Clones(g, x) = Clones(h, m) \ {p}
              /\ (x \in U \ {p} <=> m \in U)
          BY <4>1, <2>4, <2>7, <1>1, <1>4 DEF Packets
        <5> QED BY <5>1, <1>1, <1>3, <1>4, <1>6
      <4>2. CASE x # m
        BY <4>2, <3>2, <2>3, <2>7 DEF HeapOK, Counted
      <4> QED BY <4>1, <4>2
    <3>3. ASSUME NEW x \in DOMAIN g, g[x].master # None
          PROVE  /\ x \in U \ {p} /\ g[x].master \in DOMAIN g
                 /\ g[g[x].master].master = None /\ g[g[x].master].frame = g[x].frame
      <4>1. x # m /\ x \in DOMAIN h \ {p} /\ g[x] = h[x]
        BY <3>3, <2>3, <2>4, <1>1
      <4>2. /\ x \in U /\ g[x].master \in DOMAIN h
            /\ h[g[x].master].master = None /\ h[g[x].master].frame = g[x].frame
        BY <4>1, <3>3 DEF HeapOK, Counted
      <4>3. g[x].master # p
        BY <4>2, <1>1 DEF m
      <4> QED BY <4>1, <4>2, <4>3, <2>3, <2>5 DEF Same
    <3> QED BY <3>1, <3>2, <3>3 DEF Counted
  <2> QED BY <2>5, <2>6, <2>8 DEF HeapOK, g
<1> QED BY <1>5, <1>6

\* free_demux_packet takes the packet from those held, and keeps all the counts true.
LEMMA FreePacketOK ==
  ASSUME NEW h, NEW U, HeapOK(h, U), NEW p \in U
  PROVE  HeapOK(FreePacket(h, p), U \ {p}) /\ Same(h, FreePacket(h, p))
BY FreeMaster, FreeClone

IsFreeing(h, q, freed) ==
  freed = [n \in 0 .. Len(q) |-> IF n = 0 THEN h ELSE FreePacket(freed[n - 1], q[n])]

LEMMA FreeingExists == ASSUME NEW h, NEW q, Len(q) \in Nat PROVE \E freed : IsFreeing(h, q, freed)
<1> DEFINE T == {k \in Nat : \E g : g = [n \in 0 .. k |-> IF n = 0 THEN h ELSE FreePacket(g[n - 1], q[n])]}
<1>1. 0 \in T
  <2> DEFINE g == [n \in 0 .. 0 |-> h]
  <2>1. g = [n \in 0 .. 0 |-> IF n = 0 THEN h ELSE FreePacket(g[n - 1], q[n])]
    OBVIOUS
  <2> QED BY <2>1
<1>2. ASSUME NEW k \in 0 .. Len(q) - 1, k \in T PROVE k + 1 \in T
  <2>1. PICK g : g = [n \in 0 .. k |-> IF n = 0 THEN h ELSE FreePacket(g[n - 1], q[n])]
    BY <1>2
  <2> DEFINE f == [n \in 0 .. k + 1 |-> IF n <= k THEN g[n] ELSE FreePacket(g[k], q[k + 1])]
  <2>2. ASSUME NEW n \in 0 .. k + 1 PROVE f[n] = IF n = 0 THEN h ELSE FreePacket(f[n - 1], q[n])
    <3>1. CASE n <= k
      BY <3>1, <2>1
    <3>2. CASE ~ (n <= k)
      BY <3>2
    <3> QED BY <3>1, <3>2
  <2>3. f = [n \in 0 .. k + 1 |-> IF n = 0 THEN h ELSE FreePacket(f[n - 1], q[n])]
    BY <2>2
  <2> HIDE DEF f
  <2> QED BY <2>3
<1> HIDE DEF T
<1>3. \A k \in 0 .. Len(q) - 1 : k \in T => k + 1 \in T
  BY <1>2
<1>4. \A k \in 0 .. Len(q) : k \in T
  BY <1>1, <1>3, Induction, Zenon
<1> QED BY <1>4 DEF IsFreeing, T

\* The loop of ds_free_packs frees what it is given, when none of it is given twice.
LEMMA FreeAllOK ==
  ASSUME NEW h, NEW U, HeapOK(h, U), NEW q, Len(q) \in Nat, \A i \in 1 .. Len(q) : q[i] \in U,
         \A i, j \in 1 .. Len(q) : q[i] = q[j] => i = j
  PROVE  HeapOK(FreeAll(h, q), U \ {q[i] : i \in 1 .. Len(q)}) /\ Same(h, FreeAll(h, q))
<1> DEFINE freed == CHOOSE g : IsFreeing(h, q, g)
<1>1. IsFreeing(h, q, freed)
  BY FreeingExists, Zenon
<1>2. FreeAll(h, q) = freed[Len(q)]
  BY Zenon DEF FreeAll, IsFreeing
<1> HIDE DEF freed
<1> DEFINE Left(n) == U \ {q[i] : i \in 1 .. n}
           T == {n \in Nat : HeapOK(freed[n], Left(n)) /\ Same(h, freed[n])}
<1>3. 0 \in T
  <2>1. freed[0] = h /\ Left(0) = U
    BY <1>1 DEF IsFreeing
  <2> QED BY <2>1 DEF Same
<1>4. ASSUME NEW n \in 0 .. Len(q) - 1, n \in T PROVE n + 1 \in T
  <2>1. freed[n + 1] = FreePacket(freed[n], q[n + 1])
    <3> DEFINE m == n + 1
    <3>1. m \in 0 .. Len(q) /\ m # 0 /\ m - 1 = n
      OBVIOUS
    <3> HIDE DEF m
    <3>2. freed[m] = FreePacket(freed[m - 1], q[m])
      BY <1>1, <3>1 DEF IsFreeing
    <3> QED BY <3>1, <3>2 DEF m
  <2>2. q[n + 1] \in Left(n) /\ Left(n + 1) = Left(n) \ {q[n + 1]} /\ n + 1 \in Nat
    <3>1. \A i \in 1 .. n : q[i] # q[n + 1]
      OBVIOUS
    <3>2. \A i : i \in 1 .. n + 1 <=> i \in 1 .. n \/ i = n + 1
      OBVIOUS
    <3>3. q[n + 1] \in U
      OBVIOUS
    <3> QED BY <3>1, <3>2, <3>3
  <2>3. HeapOK(freed[n], Left(n)) /\ Same(h, freed[n])
    BY <1>4
  <2> HIDE DEF Left
  <2>4. HeapOK(freed[n + 1], Left(n + 1)) /\ Same(freed[n], freed[n + 1])
    BY <2>1, <2>2, <2>3, FreePacketOK
  <2> QED BY <2>2, <2>3, <2>4, SameTransitive
<1> HIDE DEF T
<1>5. \A n \in 0 .. Len(q) - 1 : n \in T => n + 1 \in T
  BY <1>4
<1>6. Len(q) \in T
  <2>1. \A n \in 0 .. Len(q) : n \in T
    BY <1>3, <1>5, Induction, Zenon
  <2> QED BY <2>1
<1> QED BY <1>2, <1>6 DEF T

\* A place where nothing is.
LEMMA FileType ==
  /\ Len(File) \in Nat /\ Frames \subseteq Nat \ {0}
  /\ \A f \in Frames : File[f].size \in Nat /\ File[f].codes \subseteq Nat /\ File[f].to \subseteq Streams
<1> DEFINE Frame == [to : SUBSET Streams, size : Nat, codes : SUBSET Nat]
<1>1. File \in Seq(Frame)
  BY DemuxAssumption
<1> HIDE DEF Frame
<1>2. Len(File) \in Nat /\ Frames \subseteq Nat \ {0} /\ \A f \in Frames : File[f] \in Frame
  BY <1>1 DEF Frames
<1> QED BY <1>2 DEF Frame

LEMMA NewAddressIsNew ==
  ASSUME NEW h, HeapTyped(h)
  PROVE  NewAddress(h) \in Addresses /\ NewAddress(h) \notin DOMAIN h
<1> DEFINE n == Cardinality(DOMAIN h)
<1>1. n \in Nat
  BY FS_CardinalityType DEF HeapTyped
<1>2. \E a \in 1 .. n + 1 : a \notin DOMAIN h
  <2> SUFFICES ASSUME 1 .. n + 1 \subseteq DOMAIN h PROVE FALSE
    OBVIOUS
  <2>1. Cardinality(1 .. n + 1) <= n
    BY FS_Subset DEF HeapTyped
  <2>2. Cardinality(1 .. n + 1) = n + 1
    BY <1>1, FS_Interval
  <2> QED BY <1>1, <2>1, <2>2
<1>3. NewAddress(h) \in 1 .. n + 1 /\ NewAddress(h) \notin DOMAIN h
  BY <1>2 DEF NewAddress
<1> QED BY <1>1, <1>3 DEF Addresses, None

\* The packet p is new in g, unlinked, and the others are what they were in h.
Added(h, g, p, f) ==
  /\ p \in Addresses \ DOMAIN h /\ DOMAIN g = DOMAIN h \cup {p}
  /\ g[p].frame = f /\ g[p].next = None
  /\ \A x \in DOMAIN h : /\ g[x].frame = h[x].frame /\ g[x].next = h[x].next
                         /\ g[x].master = h[x].master

LEMMA NewMaster ==
  ASSUME NEW h, NEW U, HeapOK(h, U), NEW f \in 1 .. Len(File) + 1
  PROVE  LET p == NewAddress(h)  g == NewPacket(h, f, None) IN
         HeapOK(g, U \cup {p}) /\ Added(h, g, p, f) /\ g[p].master = None
<1> DEFINE p == NewAddress(h)  g == NewPacket(h, f, None)
<1>1. p \in Addresses \ DOMAIN h /\ None \notin DOMAIN h /\ p # None
  BY NewAddressIsNew DEF HeapOK, HeapTyped, Addresses
<1>2. /\ DOMAIN g = DOMAIN h \cup {p}
      /\ g[p] = [frame |-> f, next |-> None, master |-> None, refs |-> 1]
      /\ \A x \in DOMAIN h : g[x] = h[x]
  BY <1>1 DEF NewPacket
<1> HIDE DEF p, g
<1>3. HeapTyped(g)
  <2>1. IsFiniteSet(DOMAIN g)
    BY <1>2, FS_AddElement DEF HeapOK, HeapTyped
  <2>2. g[p] \in Packets
    BY <1>2 DEF Packets, Pointers, Addresses, None
  <2> QED BY <1>1, <1>2, <2>1, <2>2 DEF HeapOK, HeapTyped
<1>4. \A x \in DOMAIN h : Clones(g, x) = Clones(h, x)
  BY <1>1, <1>2 DEF Clones
<1>5. Clones(g, p) = {}
  BY <1>1, <1>2 DEF Clones, HeapOK, Counted
<1>6. Counted(g, U \cup {p})
  <2>1. U \cup {p} \subseteq DOMAIN g
    BY <1>2 DEF HeapOK, Counted
  <2>2. ASSUME NEW x \in DOMAIN g, g[x].master = None
        PROVE  g[x].refs = Cardinality(Clones(g, x)) + (IF x \in U \cup {p} THEN 1 ELSE 0) /\ g[x].refs > 0
    <3>1. CASE x = p
      <4>1. g[x].refs = 1 /\ Cardinality(Clones(g, x)) = 0
        BY <3>1, <1>2, <1>5, FS_EmptySet
      <4> QED BY <3>1, <4>1
    <3>2. CASE x # p
      BY <2>2, <3>2, <1>2, <1>4 DEF HeapOK, Counted
    <3> QED BY <3>1, <3>2
  <2>3. ASSUME NEW x \in DOMAIN g, g[x].master # None
        PROVE  /\ x \in U \cup {p} /\ g[x].master \in DOMAIN g
               /\ g[g[x].master].master = None /\ g[g[x].master].frame = g[x].frame
    BY <2>3, <1>2 DEF HeapOK, Counted
  <2> QED BY <2>1, <2>2, <2>3 DEF Counted
<1> QED BY <1>1, <1>2, <1>3, <1>6 DEF HeapOK, Added, p, g

LEMMA NewClone ==
  ASSUME NEW h, NEW U, HeapOK(h, U), NEW m \in DOMAIN h, h[m].master = None, h[m].frame \in Frames
  PROVE  LET p == NewAddress(h)  g == NewPacket(h, h[m].frame, m) IN
         HeapOK(g, U \cup {p}) /\ Added(h, g, p, h[m].frame) /\ g[p].master = m
<1> DEFINE p == NewAddress(h)  g == NewPacket(h, h[m].frame, m)
<1>1. p \in Addresses \ DOMAIN h /\ None \notin DOMAIN h /\ p # None /\ m # None /\ m # p /\ m \in Addresses
  BY NewAddressIsNew DEF HeapOK, HeapTyped, Addresses
<1>2. /\ DOMAIN g = DOMAIN h \cup {p}
      /\ g[p] = [frame |-> h[m].frame, next |-> None, master |-> m, refs |-> 0]
      /\ g[m] = [h[m] EXCEPT !.refs = @ + 1]
      /\ \A x \in DOMAIN h : x # m => g[x] = h[x]
  BY <1>1 DEF NewPacket
<1>3. /\ g[m] \in Packets /\ g[m].refs = h[m].refs + 1 /\ g[m].frame = h[m].frame
      /\ g[m].next = h[m].next /\ g[m].master = h[m].master /\ h[m].refs \in Nat
  <2>1. h[m] \in Packets
    BY DEF HeapOK, HeapTyped
  <2> QED BY <1>2, <2>1 DEF Packets
<1> HIDE DEF p, g
<1>a. /\ g[p].frame = h[m].frame /\ g[p].next = None /\ g[p].master = m
      /\ \A x \in DOMAIN h : /\ g[x].frame = h[x].frame /\ g[x].next = h[x].next
                             /\ g[x].master = h[x].master
  <2>1. g[p].frame = h[m].frame /\ g[p].next = None /\ g[p].master = m
    BY <1>2
  <2>2. ASSUME NEW x \in DOMAIN h
        PROVE  g[x].frame = h[x].frame /\ g[x].next = h[x].next /\ g[x].master = h[x].master
    <3>1. CASE x = m
      BY <3>1, <1>3
    <3>2. CASE x # m
      BY <3>2, <1>2
    <3> QED BY <3>1, <3>2
  <2> QED BY <2>1, <2>2
<1>4. HeapTyped(g)
  <2>1. IsFiniteSet(DOMAIN g)
    BY <1>2, FS_AddElement DEF HeapOK, HeapTyped
  <2>2. g[p] \in Packets
    <3>1. h[m].frame \in 1 .. Len(File) + 1
      BY FileType DEF Frames
    <3> QED BY <3>1, <1>1, <1>2 DEF Packets, Pointers, Addresses, None
  <2> QED BY <1>1, <1>2, <1>3, <2>1, <2>2 DEF HeapOK, HeapTyped
<1>5. /\ \A x \in DOMAIN h : x # m => Clones(g, x) = Clones(h, x)
      /\ Clones(g, m) = Clones(h, m) \cup {p} /\ p \notin Clones(h, m)
  <2>1. \A x : x # m => Clones(g, x) = Clones(h, x)
    BY <1>1, <1>2, <1>a DEF Clones
  <2>2. Clones(g, m) = Clones(h, m) \cup {p} /\ p \notin Clones(h, m)
    BY <1>1, <1>2, <1>a DEF Clones
  <2> QED BY <2>1, <2>2
<1>6. Cardinality(Clones(g, m)) = Cardinality(Clones(h, m)) + 1 /\ Cardinality(Clones(h, m)) \in Nat
  BY <1>5, ClonesFinite, FS_AddElement DEF HeapOK
<1>7. Counted(g, U \cup {p})
  <2>1. U \cup {p} \subseteq DOMAIN g
    BY <1>2 DEF HeapOK, Counted
  <2>2. ASSUME NEW x \in DOMAIN g, g[x].master = None
        PROVE  g[x].refs = Cardinality(Clones(g, x)) + (IF x \in U \cup {p} THEN 1 ELSE 0) /\ g[x].refs > 0
    <3>1. CASE x = m
      <4>1. h[m].refs = Cardinality(Clones(h, m)) + (IF m \in U THEN 1 ELSE 0)
        BY DEF HeapOK, Counted
      <4> QED BY <3>1, <4>1, <1>1, <1>3, <1>6
    <3>2. CASE x # m
      <4>1. x # p
        BY <2>2, <1>1, <1>2
      <4> QED BY <2>2, <3>2, <4>1, <1>2, <1>5 DEF HeapOK, Counted
    <3> QED BY <3>1, <3>2
  <2>3. ASSUME NEW x \in DOMAIN g, g[x].master # None
        PROVE  /\ x \in U \cup {p} /\ g[x].master \in DOMAIN g
               /\ g[g[x].master].master = None /\ g[g[x].master].frame = g[x].frame
    <3>1. CASE x = p
      BY <3>1, <1>1, <1>2, <1>a
    <3>2. CASE x # p
      <4>1. x \in DOMAIN h /\ h[x].master # None
        BY <2>3, <3>2, <1>2, <1>a
      <4>2. /\ x \in U /\ h[x].master \in DOMAIN h
            /\ h[h[x].master].master = None /\ h[h[x].master].frame = h[x].frame
        BY <4>1 DEF HeapOK, Counted
      <4> QED BY <4>1, <4>2, <1>2, <1>a
    <3> QED BY <3>1, <3>2
  <2> QED BY <2>1, <2>2, <2>3 DEF Counted
<1> QED BY <1>1, <1>2, <1>a, <1>4, <1>7 DEF HeapOK, Added, p, g

\* A packet is linked to p: nothing else changes.
Linked(h, l, p) == [h EXCEPT ![l].next = p]

LEMMA LinkedOK ==
  ASSUME NEW h, NEW U, HeapOK(h, U), NEW l \in DOMAIN h, NEW p \in Addresses
  PROVE  LET g == Linked(h, l, p) IN
         /\ HeapOK(g, U) /\ DOMAIN g = DOMAIN h /\ g[l].next = p
         /\ \A x \in DOMAIN h : /\ g[x].frame = h[x].frame /\ g[x].master = h[x].master
                                /\ x # l => g[x].next = h[x].next
<1> DEFINE g == Linked(h, l, p)
<1>1. DOMAIN g = DOMAIN h /\ g[l] = [h[l] EXCEPT !.next = p] /\ \A x \in DOMAIN h : x # l => g[x] = h[x]
  BY DEF Linked
<1>2. h[l] \in Packets /\ p \in Pointers
  BY DEF HeapOK, HeapTyped, Pointers
<1>3. /\ g[l] \in Packets /\ g[l].refs = h[l].refs /\ g[l].frame = h[l].frame
      /\ g[l].next = p /\ g[l].master = h[l].master
  BY <1>1, <1>2 DEF Packets
<1> HIDE DEF g
<1>4. /\ \A x \in DOMAIN h : /\ g[x].frame = h[x].frame /\ g[x].master = h[x].master
                             /\ g[x].refs = h[x].refs
      /\ \A x : Clones(g, x) = Clones(h, x)
  BY <1>1, <1>3 DEF Clones
<1>5. HeapTyped(g)
  BY <1>1, <1>3 DEF HeapOK, HeapTyped
<1>6. Counted(g, U)
  BY <1>1, <1>4 DEF HeapOK, Counted
<1> QED BY <1>1, <1>3, <1>4, <1>5, <1>6 DEF HeapOK, g

------------------------------------------------------------------------------
(* The bytes of packets.                                                    *)

Bytes == Frames \X Nat
Content(h, l) == FlattenSeq([i \in 1 .. Len(l) |-> BytesOf(h[l[i]].frame, 0)])

LEMMA BytesOfType ==
  ASSUME NEW f \in Frames, NEW from \in Nat, from <= File[f].size
  PROVE  /\ BytesOf(f, from) \in Seq(Bytes) /\ Len(BytesOf(f, from)) = File[f].size - from
         /\ \A i \in 1 .. File[f].size - from : BytesOf(f, from)[i] = <<f, from + i>>
<1>1. File[f].size - from \in Nat /\ \A i \in 1 .. File[f].size - from : <<f, from + i>> \in Bytes
  BY FileType DEF Bytes
<1>2. BytesOf(f, from) = [i \in 1 .. File[f].size - from |-> <<f, from + i>>]
  BY DEF BytesOf
<1> QED BY <1>1, <1>2

LEMMA WholeFrame ==
  ASSUME NEW f \in Frames
  PROVE  /\ BytesOf(f, 0) \in Seq(Bytes) /\ Len(BytesOf(f, 0)) = File[f].size
         /\ \A i \in 1 .. File[f].size : BytesOf(f, 0)[i] = <<f, i>>
<1>1. File[f].size \in Nat /\ 0 \in Nat /\ 0 <= File[f].size
  BY FileType
<1>2. /\ BytesOf(f, 0) \in Seq(Bytes) /\ Len(BytesOf(f, 0)) = File[f].size - 0
      /\ \A i \in 1 .. File[f].size - 0 : BytesOf(f, 0)[i] = <<f, 0 + i>>
  BY <1>1, BytesOfType
<1> QED BY <1>1, <1>2

FramesKnown(h, l) == l \in Seq(Addresses) /\ \A i \in 1 .. Len(l) : h[l[i]].frame \in Frames

LEMMA PartsType ==
  ASSUME NEW h, NEW l, FramesKnown(h, l)
  PROVE  [i \in 1 .. Len(l) |-> BytesOf(h[l[i]].frame, 0)] \in Seq(Seq(Bytes))
<1>1. \A i \in 1 .. Len(l) : BytesOf(h[l[i]].frame, 0) \in Seq(Bytes)
  BY WholeFrame, Zenon DEF FramesKnown
<1>2. Len(l) \in Nat
  BY DEF FramesKnown
<1> QED BY <1>1, <1>2

LEMMA ContentType ==
  ASSUME NEW h, NEW l, FramesKnown(h, l) PROVE Content(h, l) \in Seq(Bytes)
BY PartsType, FlatType DEF Content

LEMMA ContentEmpty == \A h : Content(h, <<>>) = <<>>
<1>1. \A h : [i \in 1 .. Len(<<>>) |-> BytesOf(h[<<>>[i]].frame, 0)] = <<>>
  OBVIOUS
<1> QED BY <1>1, FlatEmpty DEF Content

LEMMA ContentAppend ==
  ASSUME NEW h, NEW l, FramesKnown(h, l), NEW p \in Addresses, h[p].frame \in Frames
  PROVE  Content(h, Append(l, p)) = Content(h, l) \o BytesOf(h[p].frame, 0)
<1> DEFINE m == Append(l, p)
           parts == [i \in 1 .. Len(l) |-> BytesOf(h[l[i]].frame, 0)]
           more  == [i \in 1 .. Len(m) |-> BytesOf(h[m[i]].frame, 0)]
           x == BytesOf(h[p].frame, 0)
<1>1. parts \in Seq(Seq(Bytes)) /\ x \in Seq(Bytes)
  BY PartsType, WholeFrame, Zenon
<1>2. Len(l) \in Nat /\ Len(m) = Len(l) + 1 /\ m[Len(l) + 1] = p /\ \A i \in 1 .. Len(l) : m[i] = l[i]
  BY DEF FramesKnown
<1>3. Len(parts) = Len(l) /\ \A i \in 1 .. Len(l) : parts[i] = BytesOf(h[l[i]].frame, 0)
  BY <1>2
<1> HIDE DEF m
<1>4. DOMAIN more = 1 .. Len(l) + 1 /\ more[Len(l) + 1] = x /\ \A i \in 1 .. Len(l) : more[i] = BytesOf(h[l[i]].frame, 0)
  BY <1>2
<1>5. more \in Seq(Seq(Bytes))
  <2>1. m \in Seq(Addresses)
    BY AppendProperties, Zenon DEF FramesKnown, m
  <2>2. FramesKnown(h, m)
    BY <1>2, <2>1 DEF FramesKnown
  <2> QED BY <2>2, PartsType, Zenon
<1> HIDE DEF parts, more, x
<1>6. more = Append(parts, x)
  <2>1. Len(more) = Len(l) + 1
    BY <1>2, <1>4, <1>5
  <2>2. /\ Append(parts, x) \in Seq(Seq(Bytes)) /\ Len(Append(parts, x)) = Len(l) + 1
        /\ Append(parts, x)[Len(l) + 1] = x /\ \A i \in 1 .. Len(l) : Append(parts, x)[i] = parts[i]
    BY <1>1, <1>2, <1>3, AppendProperties
  <2>3. \A i \in 1 .. Len(l) + 1 : more[i] = Append(parts, x)[i]
    BY <1>2, <1>3, <1>4, <2>2
  <2> QED BY <1>5, <2>1, <2>2, <2>3, SeqEqual
<1>7. FlattenSeq(more) = FlattenSeq(parts) \o x
  BY <1>1, <1>6, FlatAppend
<1> QED BY <1>7 DEF Content, parts, more, x, m

LEMMA ContentTail ==
  ASSUME NEW h, NEW l, FramesKnown(h, l), l # <<>>
  PROVE  /\ FramesKnown(h, Tail(l))
         /\ Content(h, l) = BytesOf(h[l[1]].frame, 0) \o Content(h, Tail(l))
<1> DEFINE m == Tail(l)
           parts == [i \in 1 .. Len(l) |-> BytesOf(h[l[i]].frame, 0)]
           rest  == [i \in 1 .. Len(m) |-> BytesOf(h[m[i]].frame, 0)]
<1>1. Len(l) \in Nat /\ Len(l) # 0 /\ m \in Seq(Addresses) /\ Len(m) = Len(l) - 1 /\ \A i \in 1 .. Len(m) : m[i] = l[i + 1]
  BY DEF FramesKnown
<1>2. FramesKnown(h, m)
  BY <1>1 DEF FramesKnown
<1>3. parts \in Seq(Seq(Bytes)) /\ parts # <<>> /\ Len(parts) = Len(l) /\ parts[1] = BytesOf(h[l[1]].frame, 0)
  BY <1>1, PartsType
<1> HIDE DEF m
<1>4. rest = Tail(parts)
  <2>1. \A i \in 1 .. Len(m) : rest[i] = parts[i + 1]
    BY <1>1
  <2>2. Tail(parts) = [i \in 1 .. Len(m) |-> parts[i + 1]]
    BY <1>1, <1>3
  <2> QED BY <2>1, <2>2
<1> HIDE DEF parts, rest
<1>5. FlattenSeq(parts) = parts[1] \o FlattenSeq(rest)
  BY <1>3, <1>4, FlatTail
<1> QED BY <1>2, <1>3, <1>5 DEF Content, parts, rest, m

LEMMA ContentSame ==
  ASSUME NEW g, NEW h, NEW l, \A i \in 1 .. Len(l) : g[l[i]].frame = h[l[i]].frame
  PROVE  Content(g, l) = Content(h, l)
<1>1. [i \in 1 .. Len(l) |-> BytesOf(g[l[i]].frame, 0)] = [i \in 1 .. Len(l) |-> BytesOf(h[l[i]].frame, 0)]
  OBVIOUS
<1> QED BY <1>1, Zenon DEF Content

------------------------------------------------------------------------------
(* Lists.  l is the list of the packets a stream d queues.                  *)

IsList(h, d, l) ==
  /\ l \in Seq(Addresses) /\ \A i \in 1 .. Len(l) : l[i] \in DOMAIN h
  /\ d.first = IF l = <<>> THEN None ELSE l[1]
  /\ d.last = IF l = <<>> THEN None ELSE l[Len(l)]
  /\ \A i \in 1 .. Len(l) : h[l[i]].next = IF i = Len(l) THEN None ELSE l[i + 1]
  /\ \A i, j \in 1 .. Len(l) : l[i] = l[j] => i = j
  /\ d.packs = Len(l) /\ d.bytes = Len(Content(h, l))

IsChaining(h, p, at) ==
  at = [n \in 0 .. Cardinality(DOMAIN h) |->
          IF n = 0 THEN p ELSE IF at[n - 1] \in DOMAIN h THEN h[at[n - 1]].next ELSE None]

\* Following the links from first gives the list, and ends with it.
LEMMA ChainOfList ==
  ASSUME NEW h, HeapTyped(h), NEW d, NEW l, IsList(h, d, l)
  PROVE  Chain(h, d.first) = l
<1> DEFINE n == Cardinality(DOMAIN h)
           p == d.first
           f == [i \in 0 .. n |-> IF i < Len(l) THEN l[i + 1] ELSE None]
           at == CHOOSE a : IsChaining(h, p, a)
<1>1. n \in Nat /\ Len(l) \in Nat /\ l = [i \in 1 .. Len(l) |-> l[i]] /\ None \notin DOMAIN h
  BY FS_CardinalityType DEF HeapTyped, IsList, Addresses
<1>a. Len(l) \in Nat
  BY <1>1
<1>2. Len(l) <= n
  <2>0. l \in [1 .. Len(l) -> DOMAIN h] /\ \A i, j \in 1 .. Len(l) : l[i] = l[j] => i = j
    BY DEF IsList
  <2>1. l \in Injection(1 .. Len(l), DOMAIN h)
    BY <2>0, Zenon DEF Injection, IsInjective
  <2>2. Cardinality(1 .. Len(l)) <= n
    BY <2>1, FS_Injection DEF HeapTyped
  <2>3. Cardinality(1 .. Len(l)) = Len(l)
    BY <1>a, FS_Interval, SMTT(30)
  <2> QED BY <2>2, <2>3
<1> HIDE DEF n
<1>3. IsChaining(h, p, f)
  <2>1. ASSUME NEW i \in 0 .. n
        PROVE  f[i] = IF i = 0 THEN p ELSE IF f[i - 1] \in DOMAIN h THEN h[f[i - 1]].next ELSE None
    <3>1. CASE i = 0
      <4>1. l # <<>> <=> 0 < Len(l)
        BY <1>1
      <4> QED BY <3>1, <4>1, <1>1 DEF IsList
    <3>2. CASE i # 0
      <4>1. i - 1 \in 0 .. n
        BY <1>1, <3>2
      <4>2. CASE i - 1 < Len(l)
        <5>1. f[i - 1] = l[i] /\ i \in 1 .. Len(l)
          BY <1>1, <3>2, <4>1, <4>2
        <5>2. l[i] \in DOMAIN h /\ h[l[i]].next = IF i = Len(l) THEN None ELSE l[i + 1]
          BY <5>1 DEF IsList
        <5> QED BY <1>1, <3>2, <5>1, <5>2
      <4>3. CASE ~ (i - 1 < Len(l))
        BY <1>1, <3>2, <4>1, <4>3
      <4> QED BY <4>2, <4>3
    <3> QED BY <3>1, <3>2
  <2> HIDE DEF p
  <2>2. f = [i \in 0 .. n |-> IF i = 0 THEN p ELSE IF f[i - 1] \in DOMAIN h THEN h[f[i - 1]].next ELSE None]
    BY <2>1
  <2> HIDE DEF f
  <2> QED BY <2>2 DEF IsChaining, n
<1>4. IsChaining(h, p, at)
  BY <1>3, Zenon
<1> HIDE DEF at, f, p
<1> DEFINE T == {i \in Nat : at[i] = f[i]}
<1>5. 0 \in T
  BY <1>1, <1>3, <1>4 DEF IsChaining, n
<1>6. ASSUME NEW i \in 0 .. n - 1, i \in T PROVE i + 1 \in T
  <2> DEFINE m == i + 1
  <2>1. m \in 0 .. n /\ m # 0 /\ m - 1 = i /\ m \in Nat
    BY <1>1
  <2> HIDE DEF m
  <2>2. at[m] = IF at[m - 1] \in DOMAIN h THEN h[at[m - 1]].next ELSE None
    BY <1>4, <2>1 DEF IsChaining, n
  <2>3. f[m] = IF f[m - 1] \in DOMAIN h THEN h[f[m - 1]].next ELSE None
    BY <1>3, <2>1 DEF IsChaining, n
  <2>4. at[i] = f[i]
    BY <1>6
  <2> QED BY <2>1, <2>2, <2>3, <2>4 DEF m
<1> HIDE DEF T
<1>7. \A i \in 0 .. n : at[i] = f[i]
  <2>1. \A i \in 0 .. n - 1 : i \in T => i + 1 \in T
    BY <1>6
  <2>2. \A i \in 0 .. n : i \in T
    BY <1>1, <1>5, <2>1, Induction, Zenon
  <2> QED BY <2>2 DEF T
<1>8. \A i \in 0 .. n : at[i] = IF i < Len(l) THEN l[i + 1] ELSE None
  BY <1>7 DEF f
<1> DEFINE linked == {i \in 0 .. n : at[i] # None}
<1>9. linked = 0 .. Len(l) - 1
  <2>1. \A i \in 1 .. Len(l) : l[i] # None
    BY <1>1 DEF IsList
  <2>2. \A i \in 0 .. n : i < Len(l) => i + 1 \in 1 .. Len(l)
    BY <1>1
  <2> QED BY <1>1, <1>2, <1>8, <2>1, <2>2
<1>10. Cardinality(linked) = Len(l)
  <2>1. 0 \in Int /\ Len(l) - 1 \in Int /\ (IF 0 > Len(l) - 1 THEN 0 ELSE (Len(l) - 1) - 0 + 1) = Len(l)
    BY <1>a
  <2>2. Cardinality(0 .. Len(l) - 1) = IF 0 > Len(l) - 1 THEN 0 ELSE (Len(l) - 1) - 0 + 1
    BY <2>1, FS_Interval, Zenon
  <2> QED BY <1>9, <2>1, <2>2
<1>11. Chain(h, p) = [i \in 1 .. Cardinality(linked) |-> at[i - 1]]
  BY Zenon DEF Chain, at, IsChaining, n
<1> HIDE DEF linked
<1>12. \A i \in 1 .. Len(l) : at[i - 1] = l[i]
  <2> SUFFICES ASSUME NEW i \in 1 .. Len(l) PROVE at[i - 1] = l[i]
    OBVIOUS
  <2>1. i - 1 \in 0 .. n /\ i - 1 < Len(l) /\ (i - 1) + 1 = i
    BY <1>1, <1>2
  <2> QED BY <1>8, <2>1
<1> QED BY <1>1, <1>10, <1>11, <1>12 DEF p

------------------------------------------------------------------------------
(* Streams.  D is the function of the streams, L that of their lists.       *)

StreamRecords ==
  [first : Pointers, last : Pointers, packs : Nat, bytes : Nat, current : Pointers,
   buffer : Pointers, pos : Nat, size : Nat, eof : BOOLEAN]

\* What a stream holds.
Uses(d, l) == {l[i] : i \in 1 .. Len(l)} \cup ({d.current} \ {None})

\* It reads in the bytes of the current packet, or has read to the end.
IsReading(h, d) ==
  /\ d.pos <= d.size
  /\ IF d.current = None THEN d.pos = d.size
     ELSE /\ d.current \in DOMAIN h /\ h[d.current].frame \in Frames
          /\ d.size = SizeOf(h, d.current) /\ d.buffer = MasterOf(h, d.current)

StreamOK(h, s, d, l) ==
  /\ d \in StreamRecords /\ IsList(h, d, l) /\ IsReading(h, d)
  /\ \A i \in 1 .. Len(l) : d.current # l[i]
  /\ \A x \in Uses(d, l) : h[x].frame \in Frames /\ s \in File[h[x].frame].to

\* The bytes ahead of the reader, of the current packet and of the others.
Rest(h, d) == IF d.pos < d.size THEN BytesOf(h[d.buffer].frame, d.pos) ELSE <<>>
AheadIn(h, d, l) == Rest(h, d) \o Content(h, l)

Others(D0, L, s) == UNION {Uses(D0[t], L[t]) : t \in Streams \ {s}}
Held(D0, L) == UNION {Uses(D0[s], L[s]) : s \in Streams}

\* The memory, with X held by the call that runs.
MemOK(h, D0, L, X) ==
  /\ D0 \in [Streams -> StreamRecords] /\ L \in [Streams -> Seq(Addresses)]
  /\ HeapOK(h, Held(D0, L) \cup X)
  /\ \A s \in Streams : StreamOK(h, s, D0[s], L[s])
  /\ \A s, t \in Streams : s # t => Uses(D0[s], L[s]) \cap Uses(D0[t], L[t]) = {}
  /\ X \cap Held(D0, L) = {} /\ \A x \in X : h[x].next = None

\* A stream whose packets are left as they are is right, and has the same bytes ahead of it.
LEMMA StreamSame ==
  ASSUME NEW g, NEW h, NEW s, NEW d, NEW l, StreamOK(h, s, d, l),
         \A x \in Uses(d, l) : /\ x \in DOMAIN g /\ g[x].frame = h[x].frame
                               /\ g[x].next = h[x].next /\ g[x].master = h[x].master
  PROVE  StreamOK(g, s, d, l)
<1>1. \A i \in 1 .. Len(l) : l[i] \in Uses(d, l)
  BY DEF Uses
<1>2. Content(g, l) = Content(h, l)
  BY <1>1, ContentSame
<1>3. IsList(g, d, l)
  BY <1>1, <1>2 DEF IsList, StreamOK
<1>4. IsReading(g, d)
  BY DEF IsReading, StreamOK, Uses, SizeOf, MasterOf
<1> QED BY <1>3, <1>4 DEF StreamOK

\* The bytes of the packet a stream reads from are those of the packet's own frame.
LEMMA BufferFrame ==
  ASSUME NEW h, NEW U, HeapOK(h, U), NEW d, IsReading(h, d), d.pos < d.size,
         d.pos \in Nat, d.size \in Nat
  PROVE  d.current # None /\ h[d.buffer].frame = h[d.current].frame
BY DEF IsReading, MasterOf, HeapOK, Counted

LEMMA AheadSame ==
  ASSUME NEW g, NEW h, NEW U, NEW V, HeapOK(h, U), HeapOK(g, V),
         NEW s, NEW d, NEW l, StreamOK(h, s, d, l), StreamOK(g, s, d, l),
         \A x \in Uses(d, l) : g[x].frame = h[x].frame
  PROVE  AheadIn(g, d, l) = AheadIn(h, d, l)
<1>1. \A i \in 1 .. Len(l) : l[i] \in Uses(d, l)
  BY DEF Uses
<1>2. Content(g, l) = Content(h, l)
  BY <1>1, ContentSame
<1>3. ASSUME d.pos < d.size PROVE g[d.buffer].frame = h[d.buffer].frame
  <2>1. d.pos \in Nat /\ d.size \in Nat
    BY DEF StreamOK, StreamRecords
  <2>2. d.current # None /\ h[d.buffer].frame = h[d.current].frame /\ g[d.buffer].frame = g[d.current].frame
    BY <1>3, <2>1, BufferFrame DEF StreamOK
  <2> QED BY <2>2 DEF Uses
<1> QED BY <1>2, <1>3 DEF AheadIn, Rest

\* The memory h has become g, in which s is d, with the packets of l queued: those of the others
\* are left as they are, and the new ones are not among them.
Replaced(h, D0, L, s, g, d, l, Y) ==
  /\ d \in StreamRecords /\ l \in Seq(Addresses)
  /\ HeapOK(g, Others(D0, L, s) \cup Uses(d, l) \cup Y) /\ StreamOK(g, s, d, l)
  /\ Uses(d, l) \cap Others(D0, L, s) = {}
  /\ Y \cap Others(D0, L, s) = {} /\ Y \cap Uses(d, l) = {} /\ \A x \in Y : g[x].next = None
  /\ \A x \in Others(D0, L, s) : /\ g[x].frame = h[x].frame /\ g[x].next = h[x].next
                                 /\ g[x].master = h[x].master

\* Then the memory is right, and the others have the same bytes ahead.
Kept(h, D0, L, s, g, d, l, Y) ==
  /\ MemOK(g, [D0 EXCEPT ![s] = d], [L EXCEPT ![s] = l], Y)
  /\ \A t \in Streams \ {s} : AheadIn(g, D0[t], L[t]) = AheadIn(h, D0[t], L[t])

LEMMA OneStream ==
  ASSUME NEW h, NEW D0, NEW L, NEW X, MemOK(h, D0, L, X), NEW s \in Streams,
         NEW g, NEW d, NEW l, NEW Y, Replaced(h, D0, L, s, g, d, l, Y)
  PROVE  Kept(h, D0, L, s, g, d, l, Y)
<1> USE DEF Replaced, Kept
<1> DEFINE E == [D0 EXCEPT ![s] = d]  M == [L EXCEPT ![s] = l]
<1>1. E \in [Streams -> StreamRecords] /\ M \in [Streams -> Seq(Addresses)]
  BY DEF MemOK
<1>2. E[s] = d /\ M[s] = l /\ \A t \in Streams \ {s} : E[t] = D0[t] /\ M[t] = L[t]
  BY DEF MemOK
<1> HIDE DEF E, M
<1>3. Held(E, M) = Others(D0, L, s) \cup Uses(d, l)
  BY <1>2 DEF Held, Others
<1>4. \A t \in Streams \ {s} : Uses(D0[t], L[t]) \subseteq Others(D0, L, s)
  BY DEF Others
<1>5. \A t \in Streams \ {s} : StreamOK(g, t, D0[t], L[t])
  <2> SUFFICES ASSUME NEW t \in Streams \ {s} PROVE StreamOK(g, t, D0[t], L[t])
    OBVIOUS
  <2>1. StreamOK(h, t, D0[t], L[t])
    BY DEF MemOK
  <2>2. \A x \in Uses(D0[t], L[t]) : /\ x \in DOMAIN g /\ g[x].frame = h[x].frame
                                     /\ g[x].next = h[x].next /\ g[x].master = h[x].master
    BY <1>4 DEF HeapOK, Counted
  <2> QED BY <2>1, <2>2, StreamSame
<1>6. \A t \in Streams : StreamOK(g, t, E[t], M[t])
  BY <1>2, <1>5
<1>7. \A t, u \in Streams : t # u => Uses(E[t], M[t]) \cap Uses(E[u], M[u]) = {}
  <2> SUFFICES ASSUME NEW t \in Streams, NEW u \in Streams, t # u
               PROVE  Uses(E[t], M[t]) \cap Uses(E[u], M[u]) = {}
    OBVIOUS
  <2>1. CASE t = s
    BY <2>1, <1>2, <1>4
  <2>2. CASE u = s
    BY <2>2, <1>2, <1>4
  <2>3. CASE t # s /\ u # s
    BY <2>3, <1>2 DEF MemOK
  <2> QED BY <2>1, <2>2, <2>3
<1>8. MemOK(g, E, M, Y)
  BY <1>1, <1>3, <1>6, <1>7 DEF MemOK
<1>9. ASSUME NEW t \in Streams \ {s} PROVE AheadIn(g, D0[t], L[t]) = AheadIn(h, D0[t], L[t])
  <2>1. HeapOK(h, Held(D0, L) \cup X) /\ StreamOK(h, t, D0[t], L[t])
    BY DEF MemOK
  <2>2. StreamOK(g, t, D0[t], L[t]) /\ \A x \in Uses(D0[t], L[t]) : g[x].frame = h[x].frame
    BY <1>4, <1>5
  <2> QED BY <2>1, <2>2, AheadSame
<1> QED BY <1>8, <1>9 DEF E, M

------------------------------------------------------------------------------
(* What the operations do to the memory and to the bytes ahead.             *)

LEMMA HeldOf ==
  ASSUME NEW h, NEW D0, NEW L, NEW X, MemOK(h, D0, L, X), NEW s \in Streams
  PROVE  /\ Held(D0, L) = Others(D0, L, s) \cup Uses(D0[s], L[s])
         /\ HeapOK(h, Others(D0, L, s) \cup Uses(D0[s], L[s]) \cup X)
         /\ Others(D0, L, s) \cap Uses(D0[s], L[s]) = {}
         /\ StreamOK(h, s, D0[s], L[s])
         /\ D0[s] \in StreamRecords /\ L[s] \in Seq(Addresses)
<1>1. Held(D0, L) = Others(D0, L, s) \cup Uses(D0[s], L[s])
  BY DEF Held, Others
<1>2. Others(D0, L, s) \cap Uses(D0[s], L[s]) = {}
  BY DEF Others, MemOK
<1>3. HeapOK(h, Held(D0, L) \cup X)
  BY DEF MemOK
<1>4. HeapOK(h, Others(D0, L, s) \cup Uses(D0[s], L[s]) \cup X)
  BY <1>1, <1>3, Zenon
<1>5. StreamOK(h, s, D0[s], L[s]) /\ D0[s] \in StreamRecords /\ L[s] \in Seq(Addresses)
  BY DEF MemOK
<1> QED BY <1>1, <1>2, <1>4, <1>5

\* What others than the stream hold; between the calls W is what was left behind.
Away(D0, L, s, W) == Others(D0, L, s) \cup W

LEMMA HeldAlone ==
  ASSUME NEW h, NEW D0, NEW L, NEW W, MemOK(h, D0, L, W), NEW s \in Streams
  PROVE  /\ HeapOK(h, Away(D0, L, s, W) \cup Uses(D0[s], L[s]))
         /\ Away(D0, L, s, W) \cap Uses(D0[s], L[s]) = {}
         /\ StreamOK(h, s, D0[s], L[s])
         /\ D0[s] \in StreamRecords /\ L[s] \in Seq(Addresses)
<1>1. Others(D0, L, s) \cup Uses(D0[s], L[s]) \cup W = Away(D0, L, s, W) \cup Uses(D0[s], L[s])
  BY DEF Away
<1>2. HeapOK(h, Others(D0, L, s) \cup Uses(D0[s], L[s]) \cup W)
  BY HeldOf
<1>3. HeapOK(h, Away(D0, L, s, W) \cup Uses(D0[s], L[s]))
  BY <1>1, <1>2, Zenon
<1>4. Away(D0, L, s, W) \cap Uses(D0[s], L[s]) = {}
  <2>1. Held(D0, L) = Others(D0, L, s) \cup Uses(D0[s], L[s])
    BY HeldOf
  <2>2. Others(D0, L, s) \cap Uses(D0[s], L[s]) = {}
    BY HeldOf
  <2>3. W \cap Held(D0, L) = {}
    BY DEF MemOK
  <2> QED BY <2>1, <2>2, <2>3 DEF Away
<1> QED BY <1>3, <1>4, HeldOf

LEMMA OneStreamAlone ==
  ASSUME NEW h, NEW D0, NEW L, NEW W, MemOK(h, D0, L, W), NEW s \in Streams,
         NEW g, NEW d \in StreamRecords, NEW l \in Seq(Addresses),
         HeapOK(g, Away(D0, L, s, W) \cup Uses(d, l)), StreamOK(g, s, d, l),
         Uses(d, l) \cap Away(D0, L, s, W) = {},
         \A x \in Away(D0, L, s, W) : /\ g[x].frame = h[x].frame /\ g[x].next = h[x].next
                                      /\ g[x].master = h[x].master
  PROVE  /\ MemOK(g, [D0 EXCEPT ![s] = d], [L EXCEPT ![s] = l], W)
         /\ \A t \in Streams \ {s} : AheadIn(g, D0[t], L[t]) = AheadIn(h, D0[t], L[t])
<1>1. Others(D0, L, s) \cup Uses(d, l) \cup W = Away(D0, L, s, W) \cup Uses(d, l)
  BY DEF Away
<1>2. HeapOK(g, Others(D0, L, s) \cup Uses(d, l) \cup W)
  BY <1>1, Zenon
<1>3. /\ W \cap Held(D0, L) = {} /\ \A x \in W : h[x].next = None
      /\ Held(D0, L) = Others(D0, L, s) \cup Uses(D0[s], L[s])
  <2>1. Held(D0, L) = Others(D0, L, s) \cup Uses(D0[s], L[s])
    BY HeldOf
  <2> QED BY <2>1 DEF MemOK
<1>4. /\ W \cap Others(D0, L, s) = {} /\ W \cap Uses(d, l) = {} /\ \A x \in W : g[x].next = None
      /\ Uses(d, l) \cap Others(D0, L, s) = {}
  BY <1>3 DEF Away
<1>5. \A x \in Others(D0, L, s) : /\ g[x].frame = h[x].frame /\ g[x].next = h[x].next
                                 /\ g[x].master = h[x].master
  BY DEF Away
<1>6. Replaced(h, D0, L, s, g, d, l, W)
  BY <1>2, <1>4, <1>5 DEF Replaced
<1>7. Kept(h, D0, L, s, g, d, l, W)
  BY <1>6, OneStream
<1> QED BY <1>7 DEF Kept

\* A stream may change without the memory, when it holds the same packets.
LEMMA SameHeap ==
  ASSUME NEW h, NEW D0, NEW L, NEW W, MemOK(h, D0, L, W), NEW s \in Streams,
         NEW d \in StreamRecords, NEW l \in Seq(Addresses),
         Uses(d, l) = Uses(D0[s], L[s]), StreamOK(h, s, d, l)
  PROVE  MemOK(h, [D0 EXCEPT ![s] = d], [L EXCEPT ![s] = l], W)
<1>1. HeapOK(h, Away(D0, L, s, W) \cup Uses(d, l)) /\ Uses(d, l) \cap Away(D0, L, s, W) = {}
  BY HeldAlone
<1> QED BY <1>1, OneStreamAlone

\* A change from the memory h to g, after which it is right, and each stream has the same bytes ahead.
Still(h, D0, L, g, W, E) ==
  \E M : /\ MemOK(g, E, M, W)
         /\ \A t \in Streams : AheadIn(g, E[t], M[t]) = AheadIn(h, D0[t], L[t])

\* ds_fill_buffer frees the current packet.
LEMMA FreeCurrent ==
  ASSUME NEW h, NEW D0, NEW L, NEW W, MemOK(h, D0, L, W), NEW s \in Streams, D0[s].pos >= D0[s].size,
         NEW g, g = IF D0[s].current = None THEN h ELSE FreePacket(h, D0[s].current),
         NEW d, d = [D0[s] EXCEPT !.current = None]
  PROVE  Still(h, D0, L, g, W, [D0 EXCEPT ![s] = d])
<1> DEFINE c == D0[s].current  l == L[s]  U == Away(D0, L, s, W) \cup Uses(D0[s], l)
<1>1. /\ HeapOK(h, U) /\ StreamOK(h, s, D0[s], l) /\ D0[s] \in StreamRecords /\ l \in Seq(Addresses)
      /\ Away(D0, L, s, W) \cap Uses(D0[s], l) = {}
  BY HeldAlone
<1>2. /\ d \in StreamRecords /\ d.current = None /\ d.first = D0[s].first /\ d.last = D0[s].last
      /\ d.packs = D0[s].packs /\ d.bytes = D0[s].bytes /\ d.pos = D0[s].pos /\ d.size = D0[s].size
  BY <1>1 DEF StreamRecords, Pointers, None
<1>3. d.pos = d.size
  BY <1>1, <1>2 DEF StreamOK, IsReading, StreamRecords
<1>4. HeapOK(g, U \ ({c} \ {None})) /\ Same(h, g)
  <2>1. CASE c = None
    <3>1. U \ ({c} \ {None}) = U
      BY <2>1
    <3> QED BY <2>1, <3>1, <1>1 DEF Same
  <2>2. CASE c # None
    <3>1. c \in U /\ U \ ({c} \ {None}) = U \ {c}
      BY <2>2 DEF Uses
    <3> QED BY <2>2, <3>1, <1>1, FreePacketOK
  <2> QED BY <2>1, <2>2
<1>5. Uses(d, l) = {l[i] : i \in 1 .. Len(l)} /\ Uses(d, l) \subseteq Uses(D0[s], l) /\ c \notin Uses(d, l)
  BY <1>1, <1>2 DEF Uses, StreamOK
<1>6. U \ ({c} \ {None}) = Away(D0, L, s, W) \cup Uses(d, l)
  BY <1>1, <1>5 DEF Uses
<1>7. \A x \in U \ ({c} \ {None}) : /\ x \in DOMAIN g /\ g[x].frame = h[x].frame
                                    /\ g[x].next = h[x].next /\ g[x].master = h[x].master
  BY <1>4 DEF Same, HeapOK, Counted
<1>8. StreamOK(h, s, d, l)
  BY <1>1, <1>2, <1>3, <1>5 DEF StreamOK, IsList, IsReading, Pointers, Addresses, None
<1>9. StreamOK(g, s, d, l)
  BY <1>6, <1>7, <1>8, StreamSame
<1>10. [L EXCEPT ![s] = l] = L
  BY DEF MemOK
<1>11. /\ MemOK(g, [D0 EXCEPT ![s] = d], [L EXCEPT ![s] = l], W)
       /\ \A t \in Streams \ {s} : AheadIn(g, D0[t], L[t]) = AheadIn(h, D0[t], L[t])
  <2>1. HeapOK(g, Away(D0, L, s, W) \cup Uses(d, l))
    BY <1>4, <1>6, Zenon
  <2>2. /\ Uses(d, l) \cap Away(D0, L, s, W) = {}
        /\ \A x \in Away(D0, L, s, W) : /\ g[x].frame = h[x].frame /\ g[x].next = h[x].next
                                       /\ g[x].master = h[x].master
    BY <1>1, <1>5, <1>6, <1>7
  <2> HIDE DEF l, c, U
  <2> QED BY <1>1, <1>2, <1>9, <2>1, <2>2, OneStreamAlone, SMTT(30)
<1>12. AheadIn(g, d, l) = AheadIn(h, D0[s], l)
  <2>1. Content(g, l) = Content(h, l)
    BY <1>5, <1>6, <1>7, ContentSame
  <2>2. ~ (d.pos < d.size) /\ ~ (D0[s].pos < D0[s].size)
    BY <1>1, <1>2, <1>3 DEF StreamRecords
  <2> QED BY <2>1, <2>2 DEF AheadIn, Rest
<1> DEFINE E == [D0 EXCEPT ![s] = d]
<1>13. E[s] = d /\ \A t \in Streams \ {s} : E[t] = D0[t]
  BY DEF MemOK
<1>14. MemOK(g, E, L, W)
  BY <1>10, <1>11, Zenon
<1> HIDE DEF E
<1>15. \A t \in Streams : AheadIn(g, E[t], L[t]) = AheadIn(h, D0[t], L[t])
  BY <1>11, <1>12, <1>13
<1> QED BY <1>14, <1>15 DEF Still, E

\* ds_free_packs: in r the stream is empty, and read to its end.
Freed(h, D0, L, W, s, r) ==
  /\ MemOK(r.heap, r.ds, [L EXCEPT ![s] = <<>>], W)
  /\ AheadIn(r.heap, r.ds[s], <<>>) = <<>>
  /\ \A t \in Streams \ {s} : /\ r.ds[t] = D0[t]
                              /\ AheadIn(r.heap, D0[t], L[t]) = AheadIn(h, D0[t], L[t])

LEMMA FreePacksOK ==
  ASSUME NEW h, NEW D0, NEW L, NEW W, MemOK(h, D0, L, W), NEW s \in Streams
  PROVE  Freed(h, D0, L, W, s, FreePacks([heap |-> h, ds |-> D0], s))
<1> DEFINE c == D0[s].current  l == L[s]  O == Away(D0, L, s, W)  U == O \cup Uses(D0[s], l)
           k == FreeAll(h, Chain(h, D0[s].first))
           g == IF c = None THEN k ELSE FreePacket(k, c)
           d == [EmptyStream EXCEPT !.pos = D0[s].size, !.size = D0[s].size, !.eof = D0[s].eof]
<1>1. /\ HeapOK(h, U) /\ StreamOK(h, s, D0[s], l) /\ D0[s] \in StreamRecords /\ l \in Seq(Addresses)
      /\ O \cap Uses(D0[s], l) = {}
  BY HeldAlone
<1>2. Chain(h, D0[s].first) = l
  BY <1>1, ChainOfList DEF HeapOK, StreamOK
<1>3. HeapOK(k, U \ {l[i] : i \in 1 .. Len(l)}) /\ Same(h, k)
  <2>1. Len(l) \in Nat /\ \A i \in 1 .. Len(l) : l[i] \in U
    BY <1>1 DEF Uses
  <2>2. \A i, j \in 1 .. Len(l) : l[i] = l[j] => i = j
    BY <1>1 DEF StreamOK, IsList
  <2> QED BY <1>1, <1>2, <2>1, <2>2, FreeAllOK
<1>4. HeapOK(g, O) /\ Same(h, g)
  <2>1. CASE c = None
    <3>1. U \ {l[i] : i \in 1 .. Len(l)} = O
      BY <2>1, <1>1 DEF Uses
    <3> QED BY <2>1, <3>1, <1>3
  <2>2. CASE c # None
    <3>1. /\ c \in U \ {l[i] : i \in 1 .. Len(l)}
          /\ (U \ {l[i] : i \in 1 .. Len(l)}) \ {c} = O
      BY <2>2, <1>1 DEF Uses, StreamOK
    <3> HIDE DEF k, U, O
    <3>2. HeapOK(FreePacket(k, c), O) /\ Same(k, FreePacket(k, c))
      BY <3>1, <1>3, FreePacketOK
    <3> QED BY <2>2, <3>2, <1>3, SameTransitive
  <2> QED BY <2>1, <2>2
<1>5. /\ d \in StreamRecords /\ d.current = None /\ d.first = None /\ d.last = None
      /\ d.packs = 0 /\ d.bytes = 0 /\ d.pos = d.size
  BY <1>1 DEF StreamRecords, Pointers, None, EmptyStream
<1> HIDE DEF g, d, k
<1>6. <<>> \in Seq(Addresses) /\ Len(<<>>) = 0 /\ Uses(d, <<>>) = {}
  BY <1>5, EmptySeq DEF Uses
<1>7. StreamOK(g, s, d, <<>>)
  <2>1. IsList(g, d, <<>>)
    BY <1>5, <1>6, ContentEmpty DEF IsList
  <2>2. IsReading(g, d)
    BY <1>5 DEF IsReading, StreamRecords
  <2> QED BY <1>5, <1>6, <2>1, <2>2 DEF StreamOK
<1>8. \A x \in O : g[x].frame = h[x].frame /\ g[x].next = h[x].next /\ g[x].master = h[x].master
  BY <1>4 DEF Same, HeapOK, Counted
<1>9. /\ MemOK(g, [D0 EXCEPT ![s] = d], [L EXCEPT ![s] = <<>>], W)
      /\ \A t \in Streams \ {s} : AheadIn(g, D0[t], L[t]) = AheadIn(h, D0[t], L[t])
  <2>1. O \cup Uses(d, <<>>) = O /\ Uses(d, <<>>) \cap O = {}
    BY <1>6
  <2>2. HeapOK(g, O \cup Uses(d, <<>>))
    BY <1>4, <2>1, Zenon
  <2> DEFINE none == <<>>
  <2>3. /\ HeapOK(g, O \cup Uses(d, none)) /\ StreamOK(g, s, d, none) /\ none \in Seq(Addresses)
        /\ Uses(d, none) \cap O = {}
    BY <1>6, <1>7, <2>1, <2>2
  <2> HIDE DEF l, c, U, none
  <2>4. /\ MemOK(g, [D0 EXCEPT ![s] = d], [L EXCEPT ![s] = none], W)
        /\ \A t \in Streams \ {s} : AheadIn(g, D0[t], L[t]) = AheadIn(h, D0[t], L[t])
    BY <1>5, <1>8, <2>3, OneStreamAlone
  <2> QED BY <2>4 DEF none
<1>10. AheadIn(g, d, <<>>) = <<>>
  <2>1. d.pos \in Nat /\ ~ (d.pos < d.size)
    BY <1>5 DEF StreamRecords
  <2>2. <<>> \o <<>> = <<>>
    BY ConcatEmptySeq, EmptySeq
  <2> QED BY <2>1, <2>2, ContentEmpty DEF AheadIn, Rest
<1> HIDE DEF O, U, l
<1>11. /\ FreePacks([heap |-> h, ds |-> D0], s).heap = g
       /\ FreePacks([heap |-> h, ds |-> D0], s).ds = [D0 EXCEPT ![s] = d]
  BY DEF FreePacks, g, k, d
<1>12. \A t \in Streams \ {s} : [D0 EXCEPT ![s] = d][t] = D0[t]
  BY DEF MemOK
<1>13. [D0 EXCEPT ![s] = d][s] = d
  BY DEF MemOK
<1> QED BY <1>9, <1>10, <1>11, <1>12, <1>13 DEF Freed
\* The bytes ahead are bytes of the file.
LEMMA AheadType ==
  ASSUME NEW h, NEW U, HeapOK(h, U), NEW s, NEW d, NEW l, StreamOK(h, s, d, l)
  PROVE  /\ FramesKnown(h, l) /\ Content(h, l) \in Seq(Bytes) /\ Rest(h, d) \in Seq(Bytes)
         /\ AheadIn(h, d, l) \in Seq(Bytes)
         /\ d.pos < d.size => /\ h[d.buffer].frame \in Frames /\ d.size = File[h[d.buffer].frame].size
                              /\ Rest(h, d) = BytesOf(h[d.buffer].frame, d.pos)
<1>1. \A i \in 1 .. Len(l) : h[l[i]].frame \in Frames
  BY DEF StreamOK, Uses
<1>2. FramesKnown(h, l)
  BY <1>1 DEF FramesKnown, StreamOK, IsList
<1>3. Content(h, l) \in Seq(Bytes)
  BY <1>2, ContentType
<1>4. d.pos \in Nat /\ d.size \in Nat
  BY DEF StreamOK, StreamRecords
<1>5. ASSUME d.pos < d.size
      PROVE  /\ h[d.buffer].frame \in Frames /\ d.size = File[h[d.buffer].frame].size
             /\ Rest(h, d) = BytesOf(h[d.buffer].frame, d.pos) /\ Rest(h, d) \in Seq(Bytes)
  <2>1. d.current # None /\ h[d.buffer].frame = h[d.current].frame
    BY <1>4, <1>5, BufferFrame DEF StreamOK
  <2>2. d.current \in DOMAIN h /\ h[d.current].frame \in Frames /\ d.size = File[h[d.current].frame].size
    BY <2>1 DEF StreamOK, IsReading, SizeOf
  <2>3. d.pos <= File[h[d.buffer].frame].size
    BY <1>4, <1>5, <2>1, <2>2
  <2>4. BytesOf(h[d.buffer].frame, d.pos) \in Seq(Bytes)
    BY <1>4, <2>1, <2>2, <2>3, BytesOfType
  <2> QED BY <1>5, <2>1, <2>2, <2>4 DEF Rest
<1>6. Rest(h, d) \in Seq(Bytes)
  BY <1>5, EmptySeq DEF Rest
<1>7. AheadIn(h, d, l) \in Seq(Bytes)
  BY <1>3, <1>6, ConcatProperties, Zenon DEF AheadIn
<1> QED BY <1>2, <1>3, <1>5, <1>6, <1>7

\* A packet which is new is held by the call, and no stream has it.
SameAhead(h, D0, L, g) == \A t \in Streams : AheadIn(g, D0[t], L[t]) = AheadIn(h, D0[t], L[t])

LEMMA AddedOK ==
  ASSUME NEW h, NEW D0, NEW L, NEW X, MemOK(h, D0, L, X), NEW g, NEW p, NEW f,
         Added(h, g, p, f), HeapOK(g, Held(D0, L) \cup X \cup {p})
  PROVE  MemOK(g, D0, L, X \cup {p}) /\ SameAhead(h, D0, L, g)
<1>1. /\ HeapOK(h, Held(D0, L) \cup X) /\ Held(D0, L) \cup X \subseteq DOMAIN h
      /\ \A t \in Streams : Uses(D0[t], L[t]) \subseteq Held(D0, L)
  BY DEF MemOK, HeapOK, Counted, Held
<1>2. p \notin DOMAIN h /\ DOMAIN g = DOMAIN h \cup {p} /\ g[p].next = None
      /\ \A x \in DOMAIN h : /\ g[x].frame = h[x].frame /\ g[x].next = h[x].next
                             /\ g[x].master = h[x].master
  BY DEF Added
<1>3. ASSUME NEW t \in Streams PROVE StreamOK(g, t, D0[t], L[t])
  <2>1. StreamOK(h, t, D0[t], L[t])
    BY DEF MemOK
  <2>2. \A x \in Uses(D0[t], L[t]) : /\ x \in DOMAIN g /\ g[x].frame = h[x].frame
                                     /\ g[x].next = h[x].next /\ g[x].master = h[x].master
    BY <1>1, <1>2
  <2> QED BY <2>1, <2>2, StreamSame
<1>4. ASSUME NEW t \in Streams PROVE AheadIn(g, D0[t], L[t]) = AheadIn(h, D0[t], L[t])
  <2>1. StreamOK(h, t, D0[t], L[t]) /\ StreamOK(g, t, D0[t], L[t])
    BY <1>3 DEF MemOK
  <2>2. \A x \in Uses(D0[t], L[t]) : g[x].frame = h[x].frame
    BY <1>1, <1>2
  <2> QED BY <1>1, <2>1, <2>2, AheadSame
<1>5. HeapOK(g, Held(D0, L) \cup (X \cup {p}))
  <2>1. Held(D0, L) \cup (X \cup {p}) = Held(D0, L) \cup X \cup {p}
    OBVIOUS
  <2> QED BY <2>1, Zenon
<1>6. (X \cup {p}) \cap Held(D0, L) = {}
  BY <1>1, <1>2 DEF MemOK
<1>7. \A x \in X \cup {p} : g[x].next = None
  BY <1>1, <1>2 DEF MemOK
<1>8. MemOK(g, D0, L, X \cup {p})
  BY <1>3, <1>5, <1>6, <1>7 DEF MemOK
<1> QED BY <1>4, <1>8 DEF SameAhead

\* A list longer by a packet.
LEMMA Appended ==
  ASSUME NEW l \in Seq(Addresses), NEW p \in Addresses
  PROVE  /\ Append(l, p) \in Seq(Addresses) /\ Len(l) \in Nat /\ Len(Append(l, p)) = Len(l) + 1
         /\ Append(l, p)[Len(l) + 1] = p /\ \A i \in 1 .. Len(l) : Append(l, p)[i] = l[i]
         /\ Append(l, p) # <<>> /\ {Append(l, p)[i] : i \in 1 .. Len(l) + 1} = {l[i] : i \in 1 .. Len(l)} \cup {p}
<1> DEFINE m == Append(l, p)
<1>1. /\ m \in Seq(Addresses) /\ Len(l) \in Nat /\ Len(m) = Len(l) + 1
      /\ m[Len(l) + 1] = p /\ \A i \in 1 .. Len(l) : m[i] = l[i]
  OBVIOUS
<1> HIDE DEF m
<1>2. m # <<>>
  BY <1>1
<1>3. \A i : i \in 1 .. Len(l) + 1 <=> i \in 1 .. Len(l) \/ i = Len(l) + 1
  BY <1>1
<1>4. {m[i] : i \in 1 .. Len(l) + 1} = {l[i] : i \in 1 .. Len(l)} \cup {p}
  BY <1>1, <1>3
<1> QED BY <1>1, <1>2, <1>4 DEF m

\* In r the packet p, one of X, is the last of the list l of the stream s, and its bytes are the
\* last ahead.
LastIs(h, D0, L, X, s, p, r, l) ==
  /\ MemOK(r.heap, r.ds, [L EXCEPT ![s] = l], X \ {p})
  /\ AheadIn(r.heap, r.ds[s], l) = AheadIn(h, D0[s], L[s]) \o BytesOf(h[p].frame, 0)
  /\ r.ds[s].current = D0[s].current /\ r.ds[s].pos = D0[s].pos /\ r.ds[s].size = D0[s].size
  /\ \A t \in Streams \ {s} : /\ r.ds[t] = D0[t]
                              /\ AheadIn(r.heap, D0[t], L[t]) = AheadIn(h, D0[t], L[t])
  /\ \A x \in X : r.heap[x].frame = h[x].frame /\ r.heap[x].master = h[x].master

\* ds_add_packet.
LEMMA AddPacketOK ==
  ASSUME NEW h, NEW D0, NEW L, NEW X, MemOK(h, D0, L, X), NEW s \in Streams,
         NEW p \in X, h[p].frame \in Frames, s \in File[h[p].frame].to
  PROVE  LastIs(h, D0, L, X, s, p, AddPacket([heap |-> h, ds |-> D0], s, p), Append(L[s], p))
<1> DEFINE d == D0[s]  k == L[s]  l == Append(k, p)  O == Others(D0, L, s)  Y == X \ {p}
           U == O \cup Uses(d, k) \cup X
           g == IF d.last = None THEN h ELSE Linked(h, d.last, p)
           e == [d EXCEPT !.packs = @ + 1, !.bytes = @ + SizeOf(h, p),
                          !.first = IF d.last = None THEN p ELSE @, !.last = p]
<1>1. /\ HeapOK(h, U) /\ StreamOK(h, s, d, k) /\ d \in StreamRecords /\ k \in Seq(Addresses)
      /\ O \cap Uses(d, k) = {} /\ X \cap (O \cup Uses(d, k)) = {} /\ \A x \in X : h[x].next = None
  BY HeldOf DEF MemOK
<1>2. /\ p \in DOMAIN h /\ p \in Addresses /\ h[p].frame \in Frames /\ p # None
      /\ p \notin O /\ p \notin Uses(d, k) /\ h[p].next = None
      /\ \A x \in U : x \in DOMAIN h
  BY <1>1 DEF HeapOK, HeapTyped, Counted, Packets, Addresses
<1>3. /\ l \in Seq(Addresses) /\ Len(k) \in Nat /\ Len(l) = Len(k) + 1
      /\ l[Len(k) + 1] = p /\ \A i \in 1 .. Len(k) : l[i] = k[i]
      /\ l # <<>> /\ {l[i] : i \in 1 .. Len(k) + 1} = {k[i] : i \in 1 .. Len(k)} \cup {p}
  BY <1>1, <1>2, Appended
<1>4. /\ k = <<>> <=> Len(k) = 0
      /\ d.first = IF k = <<>> THEN None ELSE k[1]
      /\ d.last = IF k = <<>> THEN None ELSE k[Len(k)]
      /\ \A i \in 1 .. Len(k) : k[i] \in DOMAIN h /\ k[i] \in Uses(d, k) /\ k[i] # None
      /\ \A i \in 1 .. Len(k) : h[k[i]].next = IF i = Len(k) THEN None ELSE k[i + 1]
      /\ \A i, j \in 1 .. Len(k) : k[i] = k[j] => i = j
      /\ d.packs = Len(k) /\ d.bytes = Len(Content(h, k))
  BY <1>1 DEF StreamOK, IsList, Uses, Addresses
<1>5. d.last = None <=> Len(k) = 0
  BY <1>3, <1>4
<1>6. /\ DOMAIN g = DOMAIN h /\ HeapOK(g, U)
      /\ \A x \in DOMAIN h : /\ g[x].frame = h[x].frame /\ g[x].master = h[x].master
                             /\ x # d.last => g[x].next = h[x].next
      /\ Len(k) # 0 => g[k[Len(k)]].next = p
  <2>1. CASE Len(k) = 0
    <3>1. g = h
      BY <2>1, <1>5
    <3> QED BY <2>1, <3>1, <1>1
  <2>2. CASE Len(k) # 0
    <3>1. d.last = k[Len(k)] /\ d.last \in DOMAIN h /\ g = Linked(h, d.last, p)
      BY <2>2, <1>3, <1>4, <1>5
    <3>2. PICK last \in DOMAIN h : last = d.last
      BY <3>1
    <3> HIDE DEF U, d, k, l, O
    <3>3. /\ HeapOK(Linked(h, last, p), U) /\ DOMAIN Linked(h, last, p) = DOMAIN h
          /\ Linked(h, last, p)[last].next = p
          /\ \A x \in DOMAIN h : /\ Linked(h, last, p)[x].frame = h[x].frame
                                 /\ Linked(h, last, p)[x].master = h[x].master
                                 /\ x # last => Linked(h, last, p)[x].next = h[x].next
      BY <1>1, <1>2, LinkedOK
    <3> QED BY <3>1, <3>2, <3>3
  <2> QED BY <2>1, <2>2
<1>7. /\ e \in StreamRecords /\ e.packs = Len(k) + 1 /\ e.bytes = d.bytes + File[h[p].frame].size
      /\ e.first = (IF Len(k) = 0 THEN p ELSE d.first) /\ e.last = p /\ e.current = d.current
      /\ e.buffer = d.buffer /\ e.pos = d.pos /\ e.size = d.size
  <2>1. File[h[p].frame].size \in Nat
    BY <1>2, FileType
  <2>2. p \in Pointers /\ d \in StreamRecords /\ d.packs = Len(k) /\ Len(k) \in Nat
    BY <1>1, <1>2, <1>3, <1>4 DEF Pointers
  <2> HIDE DEF d, k
  <2>3. e.packs = d.packs + 1 /\ e.bytes = d.bytes + File[h[p].frame].size /\ e.last = p
        /\ e.first = (IF d.last = None THEN p ELSE d.first)
        /\ e.current = d.current /\ e.buffer = d.buffer /\ e.pos = d.pos /\ e.size = d.size
    BY <2>2 DEF StreamRecords, SizeOf
  <2>4. e \in StreamRecords
    <3> DEFINE a == IF d.last = None THEN p ELSE d.first
               m == d.packs + 1
               n == d.bytes + SizeOf(h, p)
    <3>1. a \in Pointers /\ m \in Nat /\ n \in Nat
      BY <2>1, <2>2 DEF StreamRecords, SizeOf
    <3> HIDE DEF a, m, n
    <3>2. [d EXCEPT !.packs = m, !.bytes = n, !.first = a, !.last = p] \in StreamRecords
      BY <2>2, <3>1, Zenon DEF StreamRecords
    <3> QED BY <3>2 DEF a, m, n
  <2> QED BY <1>5, <2>2, <2>3, <2>4
<1> HIDE DEF g, e, l
<1>8. Uses(e, l) = Uses(d, k) \cup {p}
  BY <1>3, <1>7 DEF Uses
<1>9. Content(g, l) = Content(h, k) \o BytesOf(h[p].frame, 0)
  <2>1. Content(g, l) = Content(h, l)
    <3>1. \A i \in 1 .. Len(l) : l[i] \in Uses(e, l)
      BY DEF Uses
    <3>2. \A i \in 1 .. Len(l) : g[l[i]].frame = h[l[i]].frame
      BY <3>1, <1>2, <1>6, <1>8
    <3> QED BY <3>2, ContentSame
  <2>2. FramesKnown(h, k)
    BY <1>1, AheadType
  <2> QED BY <2>1, <2>2, <1>2, ContentAppend DEF l
<1>10. Len(Content(g, l)) = e.bytes
  <2>1. Content(h, k) \in Seq(Bytes) /\ BytesOf(h[p].frame, 0) \in Seq(Bytes)
    BY <1>1, <1>2, AheadType, WholeFrame
  <2>2. Len(BytesOf(h[p].frame, 0)) = File[h[p].frame].size
    BY <1>2, WholeFrame
  <2>3. Len(Content(h, k) \o BytesOf(h[p].frame, 0)) = Len(Content(h, k)) + Len(BytesOf(h[p].frame, 0))
    BY <2>1, ConcatProperties
  <2> QED BY <1>4, <1>7, <1>9, <2>2, <2>3
<1>11. IsList(g, e, l)
  <2>1. \A i \in 1 .. Len(l) : l[i] \in DOMAIN g
    <3>1. \A i \in 1 .. Len(l) : l[i] \in Uses(e, l)
      BY DEF Uses
    <3> QED BY <3>1, <1>2, <1>6, <1>8
  <2>2. e.first = l[1] /\ e.last = l[Len(l)]
    BY <1>3, <1>4, <1>7
  <2>3. ASSUME NEW i \in 1 .. Len(l) PROVE g[l[i]].next = IF i = Len(l) THEN None ELSE l[i + 1]
    <3>1. CASE i = Len(k) + 1
      <4>1. l[i] = p /\ p # d.last
        BY <3>1, <1>2, <1>3, <1>4
      <4> QED BY <3>1, <4>1, <1>2, <1>3, <1>6
    <3>2. CASE i = Len(k)
      <4>1. i \in 1 .. Len(k) /\ l[i] = k[i] /\ g[k[i]].next = p /\ l[i + 1] = p /\ i # Len(l)
        BY <3>2, <1>3, <1>6
      <4> QED BY <4>1
    <3>3. CASE i # Len(k) /\ i # Len(k) + 1
      <4>1. i \in 1 .. Len(k) /\ i + 1 \in 1 .. Len(k) /\ Len(k) \in 1 .. Len(k) /\ i # Len(l)
        BY <3>3, <1>3
      <4>2. l[i] = k[i] /\ l[i + 1] = k[i + 1] /\ k[i] # k[Len(k)] /\ k[i] \in DOMAIN h
        BY <4>1, <3>3, <1>3, <1>4
      <4>3. k[i] # d.last /\ h[k[i]].next = k[i + 1]
        BY <4>1, <4>2, <3>3, <1>4
      <4> QED BY <4>1, <4>2, <4>3, <1>6
    <3> QED BY <3>1, <3>2, <3>3
  <2>4. ASSUME NEW i \in 1 .. Len(l), NEW j \in 1 .. Len(l), l[i] = l[j] PROVE i = j
    <3>1. \A n \in 1 .. Len(k) : l[n] # p
      BY <1>2, <1>3, <1>4
    <3>2. \A n \in 1 .. Len(l) : n = Len(k) + 1 \/ n \in 1 .. Len(k)
      BY <1>3
    <3> QED BY <2>4, <3>1, <3>2, <1>3, <1>4
  <2> QED BY <2>1, <2>2, <2>3, <2>4, <1>3, <1>7, <1>10 DEF IsList
<1>12. IsReading(g, e)
  BY <1>1, <1>6, <1>7 DEF StreamOK, IsReading, SizeOf, MasterOf
<1>13. StreamOK(g, s, e, l)
  <2>1. \A i \in 1 .. Len(l) : e.current # l[i]
    <3>1. \A i \in 1 .. Len(k) : d.current # k[i]
      BY <1>1 DEF StreamOK
    <3>2. d.current # p
      BY <1>2 DEF Uses
    <3>3. \A n \in 1 .. Len(l) : n = Len(k) + 1 \/ n \in 1 .. Len(k)
      BY <1>3
    <3> QED BY <3>1, <3>2, <3>3, <1>3, <1>7
  <2>2. \A x \in Uses(e, l) : g[x].frame \in Frames /\ s \in File[g[x].frame].to
    BY <1>1, <1>2, <1>6, <1>8 DEF StreamOK
  <2> QED BY <2>1, <2>2, <1>7, <1>11, <1>12 DEF StreamOK
<1>14. Replaced(h, D0, L, s, g, e, l, Y)
  <2>1. O \cup Uses(e, l) \cup Y = U
    BY <1>8
  <2>2. HeapOK(g, O \cup Uses(e, l) \cup Y)
    BY <2>1, <1>6, Zenon
  <2>3. Uses(e, l) \cap O = {} /\ Y \cap O = {} /\ Y \cap Uses(e, l) = {}
    BY <1>1, <1>2, <1>8
  <2>4. d.last = None \/ d.last \in Uses(d, k)
    BY <1>3, <1>4, <1>5
  <2>5. \A x \in Y : g[x].next = None
    BY <1>1, <1>2, <1>6, <2>4, None \notin Addresses DEF HeapOK, HeapTyped, Addresses
  <2>6. \A x \in O : g[x].frame = h[x].frame /\ g[x].next = h[x].next /\ g[x].master = h[x].master
    BY <1>1, <1>2, <1>6, <2>4 DEF HeapOK, HeapTyped, Addresses
  <2> QED BY <2>2, <2>3, <2>5, <2>6, <1>3, <1>7, <1>13 DEF Replaced
<1>15. Kept(h, D0, L, s, g, e, l, Y)
  BY <1>14, OneStream
<1>16. AheadIn(g, e, l) = AheadIn(h, d, k) \o BytesOf(h[p].frame, 0)
  <2>1. Rest(g, e) = Rest(h, d)
    <3>1. d.pos < d.size => g[d.buffer].frame = h[d.buffer].frame
      <4>1. d.pos < d.size => d.buffer \in DOMAIN h
        BY <1>1 DEF StreamOK, StreamRecords, IsReading, MasterOf, HeapOK, Counted
      <4> QED BY <4>1, <1>6
    <3> QED BY <3>1, <1>7 DEF Rest
  <2> DEFINE x == Rest(h, d)  y == Content(h, k)  z == BytesOf(h[p].frame, 0)
  <2>2. x \in Seq(Bytes) /\ y \in Seq(Bytes) /\ z \in Seq(Bytes)
    BY <1>1, <1>2, AheadType, WholeFrame
  <2> HIDE DEF x, y, z
  <2>3. (x \o y) \o z = x \o (y \o z)
    BY <2>2
  <2> QED BY <1>9, <2>1, <2>3, Zenon DEF AheadIn, x, y, z
<1>17. /\ AddPacket([heap |-> h, ds |-> D0], s, p).heap = g
       /\ AddPacket([heap |-> h, ds |-> D0], s, p).ds = [D0 EXCEPT ![s] = e]
  BY DEF AddPacket, g, e, Linked
<1>18. [D0 EXCEPT ![s] = e][s] = e /\ \A t \in Streams \ {s} : [D0 EXCEPT ![s] = e][t] = D0[t]
  BY DEF MemOK
<1>19. \A x \in X : g[x].frame = h[x].frame /\ g[x].master = h[x].master
  BY <1>2, <1>6
<1> HIDE DEF O, U, d, k, Y
<1> DEFINE r == AddPacket([heap |-> h, ds |-> D0], s, p)
<1>20. r.heap = g /\ r.ds = [D0 EXCEPT ![s] = e]
  BY <1>17
<1> HIDE DEF r
<1>21. MemOK(r.heap, r.ds, [L EXCEPT ![s] = l], Y)
  BY <1>15, <1>20, Zenon DEF Kept
<1>22. AheadIn(r.heap, r.ds[s], l) = AheadIn(h, d, k) \o BytesOf(h[p].frame, 0)
  BY <1>16, <1>18, <1>20, Zenon
<1>23. r.ds[s].current = d.current /\ r.ds[s].pos = d.pos /\ r.ds[s].size = d.size
  BY <1>7, <1>18, <1>20, Zenon
<1>24. \A t \in Streams \ {s} : /\ r.ds[t] = D0[t]
                                /\ AheadIn(r.heap, D0[t], L[t]) = AheadIn(h, D0[t], L[t])
  BY <1>15, <1>18, <1>20, Zenon DEF Kept
<1>25. \A x \in X : r.heap[x].frame = h[x].frame /\ r.heap[x].master = h[x].master
  BY <1>19, <1>20, Zenon
<1> QED BY <1>21, <1>22, <1>23, <1>24, <1>25, Zenon DEF LastIs, l, r, d, k, Y

\* The three streams are three.
LEMMA Three == Audio # Video /\ Audio # Sub /\ Video # Sub
<1>1. \A a, b : IsFiniteSet({a, b}) /\ Cardinality({a, b}) <= 2
  <2> SUFFICES ASSUME NEW a, NEW b PROVE IsFiniteSet({a, b}) /\ Cardinality({a, b}) <= 2
    OBVIOUS
  <2>1. IsFiniteSet({a}) /\ Cardinality({a}) = 1
    BY FS_Singleton
  <2>2. {a, b} = {a} \cup {b}
    OBVIOUS
  <2>3. IsFiniteSet({a} \cup {b}) /\ Cardinality({a} \cup {b}) = IF b \in {a} THEN 1 ELSE 2
    BY <2>1, FS_AddElement
  <2> QED BY <2>2, <2>3
<1>2. \A a, b : Streams # {a, b}
  <2>1. Cardinality(Streams) = 3
    BY DemuxAssumption
  <2> HIDE DEF Streams
  <2>2. ASSUME NEW a, NEW b, Streams = {a, b} PROVE FALSE
    <3>1. Cardinality({a, b}) = 3 /\ Cardinality({a, b}) <= 2
      BY <2>1, <2>2, <1>1
    <3> QED BY <3>1
  <2> QED BY <2>2
<1>3. ASSUME Audio = Video \/ Audio = Sub \/ Video = Sub PROVE Streams = {Video, Sub} \/ Streams = {Audio, Video}
  BY <1>3 DEF Streams
<1> QED BY <1>2, <1>3

\* In r, after the bytes of frame f came to the streams in ss, with the lists M.
Filled(h, D0, L, r, M, X, ss, f) ==
  /\ MemOK(r.heap, r.ds, M, X)
  /\ \A t \in Streams :
       /\ AheadIn(r.heap, r.ds[t], M[t]) =
            AheadIn(h, D0[t], L[t]) \o (IF t \in ss THEN BytesOf(f, 0) ELSE <<>>)
       /\ r.ds[t].current = D0[t].current /\ r.ds[t].pos = D0[t].pos /\ r.ds[t].size = D0[t].size

LEMMA AheadBytes ==
  ASSUME NEW h, NEW D0, NEW L, NEW X, MemOK(h, D0, L, X), NEW s \in Streams
  PROVE  AheadIn(h, D0[s], L[s]) \in Seq(Bytes) /\ AheadIn(h, D0[s], L[s]) \o <<>> = AheadIn(h, D0[s], L[s])
<1>1. HeapOK(h, Held(D0, L) \cup X) /\ StreamOK(h, s, D0[s], L[s])
  BY DEF MemOK
<1>2. AheadIn(h, D0[s], L[s]) \in Seq(Bytes)
  BY <1>1, AheadType
<1> QED BY <1>2, ConcatEmptySeq

LEMMA FilledTwice ==
  ASSUME NEW h, NEW D0, NEW L, NEW q, NEW K, NEW X, NEW r, NEW M, NEW Y, NEW ss, NEW tt, NEW f \in Frames,
         NEW Z, MemOK(h, D0, L, Z), Filled(h, D0, L, q, K, X, ss, f), Filled(q.heap, q.ds, K, r, M, Y, tt, f),
         ss \cap tt = {}
  PROVE  Filled(h, D0, L, r, M, Y, ss \cup tt, f)
<1>1. MemOK(r.heap, r.ds, M, Y)
  BY DEF Filled
<1>2. ASSUME NEW t \in Streams
      PROVE  AheadIn(r.heap, r.ds[t], M[t]) =
               AheadIn(h, D0[t], L[t]) \o (IF t \in ss \cup tt THEN BytesOf(f, 0) ELSE <<>>)
  <2> DEFINE x == AheadIn(h, D0[t], L[t])  y == AheadIn(q.heap, q.ds[t], K[t])
             z == AheadIn(r.heap, r.ds[t], M[t])  b == BytesOf(f, 0)
  <2>1. y = x \o (IF t \in ss THEN b ELSE <<>>) /\ z = y \o (IF t \in tt THEN b ELSE <<>>)
    BY DEF Filled
  <2>2. x \in Seq(Bytes) /\ b \in Seq(Bytes) /\ x \o <<>> = x
    BY AheadBytes, WholeFrame
  <2> HIDE DEF x, y, z, b
  <2>3. (x \o b) \o <<>> = x \o b
    <3>1. x \o b \in Seq(Bytes)
      BY <2>2, ConcatProperties
    <3> QED BY <3>1, ConcatEmptySeq, Zenon
  <2>4. CASE t \in ss
    <3>1. y = x \o b /\ z = y \o <<>>
      BY <2>1, <2>4
    <3> QED BY <3>1, <2>3, <2>4, Zenon DEF x, z, b
  <2>5. CASE t \notin ss
    <3>1. y = x
      BY <2>1, <2>2, <2>5
    <3> QED BY <3>1, <2>1, <2>5 DEF x, z, b
  <2> QED BY <2>4, <2>5
<1>3. \A t \in Streams : /\ r.ds[t].current = D0[t].current
                         /\ r.ds[t].pos = D0[t].pos /\ r.ds[t].size = D0[t].size
  BY DEF Filled
<1> QED BY <1>1, <1>2, <1>3 DEF Filled

Left(X, h, g) == \A x \in X : g[x].frame = h[x].frame /\ g[x].master = h[x].master

LEMMA FilledByAdd ==
  ASSUME NEW q, NEW L, NEW X, MemOK(q.heap, q.ds, L, X), NEW s \in Streams,
         NEW p \in X, NEW f \in Frames, q.heap[p].frame = f, s \in File[f].to
  PROVE  /\ Filled(q.heap, q.ds, L, AddPacket(q, s, p), [L EXCEPT ![s] = Append(L[s], p)], X \ {p}, {s}, f)
         /\ Left(X, q.heap, AddPacket(q, s, p).heap)
<1> DEFINE h == q.heap  D0 == q.ds  l == Append(L[s], p)  M == [L EXCEPT ![s] = l]
           r == AddPacket([heap |-> h, ds |-> D0], s, p)
<1>1. AddPacket(q, s, p) = r
  BY DEF AddPacket
<1>a. MemOK(h, D0, L, X) /\ h[p].frame \in Frames /\ s \in File[h[p].frame].to
  OBVIOUS
<1> HIDE DEF h, D0
<1>2. LastIs(h, D0, L, X, s, p, r, l)
  BY <1>a, AddPacketOK
<1>3. M[s] = l /\ \A t \in Streams \ {s} : M[t] = L[t]
  BY <1>a DEF MemOK
<1>4. \A t \in Streams : AheadIn(h, D0[t], L[t]) \o <<>> = AheadIn(h, D0[t], L[t])
  BY <1>a, AheadBytes
<1> HIDE DEF r, M, l
<1>5. Filled(h, D0, L, r, M, X \ {p}, {s}, f)
  <2>1. ASSUME NEW t \in Streams
        PROVE  /\ AheadIn(r.heap, r.ds[t], M[t]) =
                    AheadIn(h, D0[t], L[t]) \o (IF t \in {s} THEN BytesOf(f, 0) ELSE <<>>)
               /\ r.ds[t].current = D0[t].current /\ r.ds[t].pos = D0[t].pos /\ r.ds[t].size = D0[t].size
    <3>1. CASE t = s
      BY <3>1, <1>2, <1>3 DEF h, LastIs
    <3>2. CASE t # s
      BY <3>2, <1>2, <1>3, <1>4 DEF LastIs
    <3> QED BY <3>1, <3>2
  <2> QED BY <2>1, <1>2 DEF Filled, LastIs, M
<1> QED BY <1>1, <1>2, <1>5 DEF LastIs, Left, r, M, l, h, D0

\* new_demux_packet or clone_demux_packet: the streams do not have it yet.
NewIn(q, L, X, f, m, p, r) ==
  /\ r.heap = NewPacket(q.heap, f, m) /\ r.ds = q.ds
  /\ Filled(q.heap, q.ds, L, r, L, X \cup {p}, {}, f)
  /\ r.heap[p].frame = f /\ r.heap[p].master = m /\ p \notin X /\ Left(X, q.heap, r.heap)

LEMMA FilledByNew ==
  ASSUME NEW q, q = [heap |-> q.heap, ds |-> q.ds], NEW L, NEW X, MemOK(q.heap, q.ds, L, X), NEW f \in Frames, NEW m,
         m = None \/ (m \in X /\ q.heap[m].master = None /\ q.heap[m].frame = f)
  PROVE  NewIn(q, L, X, f, m, NewAddress(q.heap), [q EXCEPT !.heap = NewPacket(q.heap, f, m)])
<1> DEFINE h == q.heap  p == NewAddress(h)  g == NewPacket(h, f, m)
           U == Held(q.ds, L) \cup X
           r == [q EXCEPT !.heap = g]
<1>1. HeapOK(h, U) /\ \A x \in X : x \in DOMAIN h
  BY DEF MemOK, HeapOK, Counted
<1>2. HeapOK(g, U \cup {p}) /\ Added(h, g, p, f) /\ g[p].master = m
  <2>1. CASE m = None
    <3>1. f \in 1 .. Len(File) + 1
      BY FileType DEF Frames
    <3> QED BY <2>1, <3>1, <1>1, NewMaster
  <2>2. CASE m # None
    <3>1. m \in DOMAIN h /\ h[m].master = None /\ h[m].frame = f
      BY <2>2, <1>1
    <3>2. \A k : k = f => NewPacket(h, k, m) = g
      OBVIOUS
    <3> QED BY <3>1, <1>1, NewClone
  <2> QED BY <2>1, <2>2
<1>3. MemOK(g, q.ds, L, X \cup {p}) /\ SameAhead(h, q.ds, L, g)
  <2> DEFINE D0 == q.ds
  <2>1. MemOK(h, D0, L, X) /\ HeapOK(g, Held(D0, L) \cup X \cup {p}) /\ Added(h, g, p, f)
    BY <1>2
  <2> HIDE DEF g, p, h, U, D0
  <2>2. MemOK(g, D0, L, X \cup {p}) /\ SameAhead(h, D0, L, g)
    BY <2>1, AddedOK
  <2> QED BY <2>2 DEF D0
<1>4. r.heap = g /\ r.ds = q.ds
  OBVIOUS
<1>5. \A t \in Streams : AheadIn(h, q.ds[t], L[t]) \o <<>> = AheadIn(h, q.ds[t], L[t])
  BY AheadBytes
<1> HIDE DEF r, g
<1>6. Filled(h, q.ds, L, r, L, X \cup {p}, {}, f)
  BY <1>3, <1>4, <1>5 DEF Filled, SameAhead
<1>7. /\ g[p].frame = f /\ p \notin X
      /\ \A x \in X : g[x].frame = h[x].frame /\ g[x].master = h[x].master
  BY <1>1, <1>2 DEF Added
<1> QED BY <1>2, <1>4, <1>6, <1>7 DEF NewIn, Left, r, g

\* The demuxer's fill_buffer, for one stream, and for audio and video which share the frame.
LEMMA FillOne ==
  ASSUME filePos \in Frames, NEW h, NEW D0, NEW L, NEW W, MemOK(h, D0, L, W),
         NEW s \in Streams, File[filePos].to = {s}
  PROVE  \E M : Filled(h, D0, L, DemuxFillBuffer([heap |-> h, ds |-> D0]), M, W, {s}, filePos)
<1> DEFINE f == filePos  q == [heap |-> h, ds |-> D0]  p == NewAddress(q.heap)
           a == [q EXCEPT !.heap = NewPacket(q.heap, f, None)]  r == AddPacket(a, s, p)
<1>1. q.heap = h /\ q.ds = D0 /\ q = [heap |-> q.heap, ds |-> q.ds] /\ f \in Frames
  OBVIOUS
<1>2. DemuxFillBuffer(q) = r
  <2>1. {s} # {Audio, Video} /\ (IF Video \in {s} THEN Video ELSE CHOOSE t \in {s} : TRUE) = s
    BY Three
  <2> QED BY <2>1 DEF DemuxFillBuffer
<1> HIDE DEF q, a, f, p
<1>3. PICK Y : Y = W
  OBVIOUS
<1>4. /\ a.heap = NewPacket(q.heap, f, None) /\ a.ds = q.ds
      /\ Filled(q.heap, q.ds, L, a, L, Y \cup {p}, {}, f) /\ a.heap[p].frame = f /\ p \notin Y
  <2>1. MemOK(q.heap, q.ds, L, Y) /\ (None = None \/ (None \in Y /\ q.heap[None].master = None /\ q.heap[None].frame = f))
    BY <1>1, <1>3
  <2>2. NewIn(q, L, Y, f, None, p, a)
    BY <1>1, <2>1, FilledByNew DEF a, p
  <2> QED BY <2>2 DEF NewIn
<1>5. PICK X : X = Y \cup {p}
  OBVIOUS
<1>6. PICK M : Filled(a.heap, a.ds, L, r, M, X \ {p}, {s}, f)
  <2>1. MemOK(a.heap, a.ds, L, X) /\ p \in X /\ a.heap[p].frame = f /\ s \in File[f].to
    BY <1>4, <1>5 DEF Filled, f
  <2> QED BY <1>1, <2>1, FilledByAdd
<1> HIDE DEF r
<1>7. Filled(q.heap, q.ds, L, a, L, X, {}, f)
  BY <1>4, <1>5
<1>8. Filled(q.heap, q.ds, L, r, M, X \ {p}, {} \cup {s}, f)
  <2> DEFINE no == {}  ss == {s}
  <2>1. MemOK(q.heap, q.ds, L, Y) /\ Filled(q.heap, q.ds, L, a, L, X, no, f) /\ no \cap ss = {}
        /\ Filled(a.heap, a.ds, L, r, M, X \ {p}, ss, f)
    BY <1>1, <1>3, <1>6, <1>7
  <2> HIDE DEF no, ss
  <2>2. Filled(q.heap, q.ds, L, r, M, X \ {p}, no \cup ss, f)
    BY <1>1, <2>1, FilledTwice
  <2> QED BY <2>2 DEF no, ss
<1>9. X \ {p} = W /\ {} \cup {s} = {s}
  BY <1>3, <1>4, <1>5
<1>10. Filled(q.heap, q.ds, L, r, M, W, {s}, f)
  BY <1>8, <1>9, Zenon
<1> QED BY <1>1, <1>2, <1>10 DEF q, f

LEMMA FillTwo ==
  ASSUME filePos \in Frames, NEW h, NEW D0, NEW L, NEW W, MemOK(h, D0, L, W),
         File[filePos].to = {Audio, Video}
  PROVE  \E M : Filled(h, D0, L, DemuxFillBuffer([heap |-> h, ds |-> D0]), M, W, {Audio, Video}, filePos)
<1> DEFINE f == filePos  q == [heap |-> h, ds |-> D0]  m == NewAddress(q.heap)
           a == [q EXCEPT !.heap = NewPacket(q.heap, f, None)]  c == NewAddress(a.heap)
           b == [a EXCEPT !.heap = NewPacket(a.heap, f, m)]
           e == AddPacket(b, Audio, c)  r == AddPacket(e, Video, m)
<1>1. q.heap = h /\ q.ds = D0 /\ q = [heap |-> q.heap, ds |-> q.ds] /\ f \in Frames
      /\ a = [heap |-> a.heap, ds |-> a.ds] /\ Audio \in Streams /\ Video \in Streams
  BY DEF Streams
<1>2. DemuxFillBuffer(q) = r
  <2>1. Video \in {Audio, Video}
    OBVIOUS
  <2> QED BY <2>1 DEF DemuxFillBuffer, AddNew
<1> HIDE DEF q, a, b, f, m, c, e, r
<1>3. PICK Y : Y = W
  OBVIOUS
<1>4. PICK X : X = Y \cup {m}
  OBVIOUS
<1>5. PICK Z : Z = X \cup {c}
  OBVIOUS
<1>6. Filled(q.heap, q.ds, L, a, L, X, {}, f) /\ a.heap[m].frame = f /\ a.heap[m].master = None /\ m \notin Y
  <2>1. MemOK(q.heap, q.ds, L, Y) /\ (None = None \/ (None \in Y /\ q.heap[None].master = None /\ q.heap[None].frame = f))
    BY <1>1, <1>3
  <2>2. NewIn(q, L, Y, f, None, m, a)
    BY <1>1, <2>1, FilledByNew DEF a, m
  <2> QED BY <1>4, <2>2 DEF NewIn
<1>7. Filled(a.heap, a.ds, L, b, L, Z, {}, f) /\ b.heap[c].frame = f /\ c \notin X /\ b.heap[m].frame = f
  <2>1. MemOK(a.heap, a.ds, L, X)
        /\ (m = None \/ (m \in X /\ a.heap[m].master = None /\ a.heap[m].frame = f))
    BY <1>4, <1>6 DEF Filled
  <2>2. NewIn(a, L, X, f, m, c, b)
    BY <1>1, <2>1, FilledByNew DEF b, c
  <2> QED BY <1>4, <1>5, <1>6, <2>2 DEF NewIn, Left
<1>8. PICK M : Filled(b.heap, b.ds, L, e, M, Z \ {c}, {Audio}, f) /\ e.heap[m].frame = f
  <2>1. MemOK(b.heap, b.ds, L, Z) /\ c \in Z /\ b.heap[c].frame = f /\ Audio \in File[f].to
    BY <1>5, <1>7 DEF Filled, f
  <2>2. /\ Filled(b.heap, b.ds, L, e, [L EXCEPT ![Audio] = Append(L[Audio], c)], Z \ {c}, {Audio}, f)
        /\ Left(Z, b.heap, e.heap)
    BY <1>1, <2>1, FilledByAdd DEF e
  <2> QED BY <1>4, <1>5, <1>7, <2>2 DEF Left
<1>9. Z \ {c} = X /\ m \in X /\ X \ {m} = W
  BY <1>3, <1>4, <1>5, <1>6, <1>7
<1>10. PICK N : Filled(e.heap, e.ds, M, r, N, X \ {m}, {Video}, f)
  <2>1. MemOK(e.heap, e.ds, M, X) /\ m \in X /\ e.heap[m].frame = f /\ Video \in File[f].to
    BY <1>8, <1>9 DEF Filled, f
  <2> QED BY <1>1, <2>1, FilledByAdd DEF r
<1> DEFINE no == {}  au == {Audio}  vi == {Video}
<1>11. no \cap no = {} /\ no \cap au = {} /\ au \cap vi = {} /\ no \cup no = no /\ no \cup au = au
       /\ au \cup vi = {Audio, Video}
  BY Three
<1>12. /\ Filled(q.heap, q.ds, L, a, L, X, no, f) /\ Filled(a.heap, a.ds, L, b, L, Z, no, f)
       /\ Filled(b.heap, b.ds, L, e, M, X, au, f) /\ Filled(e.heap, e.ds, M, r, N, X \ {m}, vi, f)
       /\ MemOK(q.heap, q.ds, L, Y)
  BY <1>1, <1>3, <1>6, <1>7, <1>8, <1>9, <1>10
<1> HIDE DEF no, au, vi
<1>13. Filled(q.heap, q.ds, L, b, L, Z, no \cup no, f)
  BY <1>1, <1>11, <1>12, FilledTwice
<1>14. Filled(q.heap, q.ds, L, e, M, X, no \cup au, f)
  <2>1. Filled(q.heap, q.ds, L, b, L, Z, no, f)
    BY <1>11, <1>13, Zenon
  <2> QED BY <1>1, <1>11, <1>12, <2>1, FilledTwice
<1>15. Filled(q.heap, q.ds, L, r, N, X \ {m}, au \cup vi, f)
  <2>1. Filled(q.heap, q.ds, L, e, M, X, au, f)
    BY <1>11, <1>14, Zenon
  <2> QED BY <1>1, <1>11, <1>12, <2>1, FilledTwice
<1>16. Filled(q.heap, q.ds, L, r, N, W, {Audio, Video}, f)
  BY <1>9, <1>11, <1>15, Zenon
<1> QED BY <1>1, <1>2, <1>16 DEF q, f

LEMMA DemuxFillBufferOK ==
  ASSUME filePos \in Frames, NEW h, NEW D0, NEW L, NEW W, MemOK(h, D0, L, W)
  PROVE  \E M : Filled(h, D0, L, DemuxFillBuffer([heap |-> h, ds |-> D0]), M, W, File[filePos].to, filePos)
<1>1. (\E s \in Streams : File[filePos].to = {s}) \/ File[filePos].to = {Audio, Video}
  BY DemuxAssumption
<1>2. ASSUME NEW s \in Streams, File[filePos].to = {s}
      PROVE  \E M : Filled(h, D0, L, DemuxFillBuffer([heap |-> h, ds |-> D0]), M, W, File[filePos].to, filePos)
  <2>1. PICK M : Filled(h, D0, L, DemuxFillBuffer([heap |-> h, ds |-> D0]), M, W, {s}, filePos)
    BY <1>2, FillOne
  <2> QED BY <1>2, <2>1, Zenon
<1>3. ASSUME File[filePos].to = {Audio, Video}
      PROVE  \E M : Filled(h, D0, L, DemuxFillBuffer([heap |-> h, ds |-> D0]), M, W, File[filePos].to, filePos)
  <2>1. PICK M : Filled(h, D0, L, DemuxFillBuffer([heap |-> h, ds |-> D0]), M, W, {Audio, Video}, filePos)
    BY <1>3, FillTwo
  <2> QED BY <1>3, <2>1, Zenon
<1> QED BY <1>1, <1>2, <1>3

\* A stream that changes, and holds what it held.
LEMMA SameUses ==
  ASSUME NEW h, NEW D0, NEW L, NEW W, MemOK(h, D0, L, W), NEW s \in Streams,
         NEW d \in StreamRecords, NEW l \in Seq(Addresses),
         Uses(d, l) = Uses(D0[s], L[s]), StreamOK(h, s, d, l),
         AheadIn(h, d, l) = AheadIn(h, D0[s], L[s])
  PROVE  Still(h, D0, L, h, W, [D0 EXCEPT ![s] = d])
<1> DEFINE M == [L EXCEPT ![s] = l]  E == [D0 EXCEPT ![s] = d]
<1>1. MemOK(h, E, M, W)
  BY SameHeap
<1>2. E[s] = d /\ M[s] = l /\ \A t \in Streams \ {s} : E[t] = D0[t] /\ M[t] = L[t]
  BY DEF MemOK
<1> HIDE DEF M, E
<1>3. \A t \in Streams : AheadIn(h, E[t], M[t]) = AheadIn(h, D0[t], L[t])
  BY <1>2
<1> QED BY <1>1, <1>3 DEF E, Still

\* The first packet becomes the current one: the bytes ahead are the same.
LEMMA UnlinkOK ==
  ASSUME NEW h, NEW D0, NEW L, NEW W, MemOK(h, D0, L, W), NEW s \in Streams,
         D0[s].current = None, D0[s].packs > 0, NEW p, p = D0[s].first,
         NEW d, d = [D0[s] EXCEPT !.eof = FALSE, !.buffer = MasterOf(h, p), !.pos = 0,
                                  !.size = SizeOf(h, p), !.bytes = @ - SizeOf(h, p),
                                  !.current = p, !.first = h[p].next,
                                  !.last = IF h[p].next = None THEN None ELSE @, !.packs = @ - 1]
  PROVE  Still(h, D0, L, h, W, [D0 EXCEPT ![s] = d])
<1> DEFINE c == D0[s]  k == L[s]  l == Tail(k)  U == Away(D0, L, s, W) \cup Uses(c, k)
           f == h[p].frame
<1>1. HeapOK(h, U) /\ StreamOK(h, s, c, k) /\ c \in StreamRecords /\ k \in Seq(Addresses)
  BY HeldAlone
<1>2. /\ Len(k) \in Nat /\ Len(k) > 0 /\ k # <<>> /\ p = k[1] /\ 1 \in 1 .. Len(k)
      /\ c.packs = Len(k) /\ c.last = k[Len(k)] /\ c.bytes = Len(Content(h, k))
      /\ \A i \in 1 .. Len(k) : k[i] \in DOMAIN h /\ k[i] \in Uses(c, k)
      /\ \A i \in 1 .. Len(k) : h[k[i]].next = IF i = Len(k) THEN None ELSE k[i + 1]
      /\ \A i, j \in 1 .. Len(k) : k[i] = k[j] => i = j
  BY <1>1 DEF StreamOK, IsList, Uses
<1>3. /\ p \in DOMAIN h /\ p \in Addresses /\ p # None /\ h[p] \in Packets /\ f \in Frames
      /\ File[f].size \in Nat
  <2>1. p \in DOMAIN h /\ f \in Frames
    BY <1>1, <1>2 DEF StreamOK
  <2>2. h[p] \in Packets /\ p \in Addresses
    BY <1>1, <2>1 DEF HeapOK, HeapTyped
  <2> QED BY <2>1, <2>2, FileType DEF Packets, Addresses
<1>4. MasterOf(h, p) \in Pointers /\ h[p].next \in Pointers /\ h[MasterOf(h, p)].frame = f
  BY <1>1, <1>3 DEF MasterOf, Packets, Pointers, HeapOK, Counted
<1>5. /\ l \in Seq(Addresses) /\ Len(l) = Len(k) - 1 /\ \A i \in 1 .. Len(l) : l[i] = k[i + 1] /\ i + 1 \in 1 .. Len(k)
      /\ (l = <<>> <=> Len(k) = 1)
  <2>1. l \in Seq(Addresses) /\ Len(l) = Len(k) - 1 /\ \A i \in 1 .. Len(l) : l[i] = k[i + 1]
    BY <1>1, <1>2
  <2>2. \A i \in 1 .. Len(l) : i + 1 \in 1 .. Len(k)
    BY <1>2, <2>1
  <2> HIDE DEF l
  <2>3. l = <<>> <=> Len(l) = 0
    BY <2>1, EmptySeq
  <2> QED BY <1>2, <2>1, <2>2, <2>3
<1>6. FramesKnown(h, k) /\ FramesKnown(h, l) /\ Content(h, k) = BytesOf(f, 0) \o Content(h, l)
  BY <1>1, <1>2, AheadType, ContentTail
<1>7. Content(h, l) \in Seq(Bytes) /\ BytesOf(f, 0) \in Seq(Bytes) /\ Len(BytesOf(f, 0)) = File[f].size
  BY <1>3, <1>6, ContentType, WholeFrame
<1>8. Len(Content(h, k)) = File[f].size + Len(Content(h, l)) /\ Len(Content(h, l)) \in Nat
  BY <1>6, <1>7, ConcatProperties, LenProperties
<1> DEFINE last == IF h[p].next = None THEN None ELSE c.last
           bytes == c.bytes - SizeOf(h, p)
           packs == c.packs - 1
<1>9. /\ last \in Pointers /\ bytes \in Nat /\ packs \in Nat /\ SizeOf(h, p) = File[f].size
      /\ packs = Len(l) /\ bytes = Len(Content(h, l)) /\ p \in Pointers
  BY <1>1, <1>2, <1>3, <1>5, <1>8 DEF StreamRecords, SizeOf, Pointers
<1>10. /\ d.pos = 0 /\ d.size = File[f].size /\ d.bytes = bytes /\ d.packs = packs /\ d.current = p
       /\ d.buffer = MasterOf(h, p) /\ d.first = h[p].next /\ d.last = last
  BY <1>1, <1>9 DEF StreamRecords
<1>11. d \in StreamRecords
  <2> DEFINE size == SizeOf(h, p)  buffer == MasterOf(h, p)  first == h[p].next
             e == [c EXCEPT !.eof = FALSE, !.buffer = buffer, !.pos = 0, !.size = size]
  <2>1. size \in Nat /\ buffer \in Pointers /\ first \in Pointers /\ d = [e EXCEPT !.bytes = bytes,
                         !.current = p, !.first = first, !.last = last, !.packs = packs]
    BY <1>1, <1>3, <1>4, <1>9
  <2> HIDE DEF size, buffer, first, last, bytes, packs, c
  <2>2. e \in StreamRecords
    BY <1>1, <2>1, Zenon DEF StreamRecords
  <2> HIDE DEF e
  <2>3. [e EXCEPT !.bytes = bytes, !.current = p, !.first = first, !.last = last, !.packs = packs] \in StreamRecords
    BY <1>9, <2>1, <2>2, Zenon DEF StreamRecords
  <2> QED BY <2>1, <2>3
<1> HIDE DEF l, last, bytes, packs
<1>12. IsList(h, d, l)
  <2>1. \A i \in 1 .. Len(l) : l[i] \in DOMAIN h
    BY <1>2, <1>5
  <2>2. d.first = IF l = <<>> THEN None ELSE l[1]
    <3>1. CASE Len(k) = 1
      BY <3>1, <1>2, <1>5, <1>10
    <3>2. CASE Len(k) # 1
      <4>1. 1 \in 1 .. Len(l)
        BY <3>2, <1>2, <1>5
      <4> QED BY <3>2, <4>1, <1>2, <1>5, <1>10
    <3> QED BY <3>1, <3>2
  <2>3. d.last = IF l = <<>> THEN None ELSE l[Len(l)]
    <3>1. CASE Len(k) = 1
      BY <3>1, <1>2, <1>5, <1>10 DEF last
    <3>2. CASE Len(k) # 1
      <4>1. Len(l) \in 1 .. Len(l) /\ h[p].next = k[2] /\ k[2] # None
        BY <3>2, <1>1, <1>2, <1>5, SMTT(30) DEF HeapOK, HeapTyped, Addresses
      <4> QED BY <3>2, <4>1, <1>2, <1>5, <1>10, SMTT(30) DEF last
    <3> QED BY <3>1, <3>2
  <2>4. ASSUME NEW i \in 1 .. Len(l) PROVE h[l[i]].next = IF i = Len(l) THEN None ELSE l[i + 1]
    <3>1. i + 1 \in 1 .. Len(k) /\ l[i] = k[i + 1] /\ (i = Len(l) <=> i + 1 = Len(k))
      BY <1>2, <1>5
    <3>2. i # Len(l) => i + 1 \in 1 .. Len(l)
      BY <1>2, <1>5
    <3> QED BY <3>1, <3>2, <1>2, <1>5
  <2>5. ASSUME NEW i \in 1 .. Len(l), NEW j \in 1 .. Len(l), l[i] = l[j] PROVE i = j
    <3>1. i + 1 \in 1 .. Len(k) /\ j + 1 \in 1 .. Len(k) /\ k[i + 1] = k[j + 1]
      BY <2>5, <1>5
    <3>2. i + 1 = j + 1
      BY <3>1, <1>2
    <3> QED BY <3>2
  <2> QED BY <2>1, <2>2, <2>3, <2>4, <2>5, <1>5, <1>9, <1>10 DEF IsList
<1>13. {k[i] : i \in 1 .. Len(k)} = {l[i] : i \in 1 .. Len(l)} \cup {p}
  <2>1. \A i \in 1 .. Len(k) : i = 1 \/ (i - 1 \in 1 .. Len(l) /\ k[i] = l[i - 1])
    <3> SUFFICES ASSUME NEW i \in 1 .. Len(k), i # 1 PROVE i - 1 \in 1 .. Len(l) /\ k[i] = l[i - 1]
      OBVIOUS
    <3> DEFINE j == i - 1
    <3>1. j \in 1 .. Len(l) /\ i = j + 1
      BY <1>2, <1>5
    <3> HIDE DEF j
    <3> QED BY <3>1, <1>5 DEF j
  <2>2. ASSUME NEW i \in 1 .. Len(k) PROVE k[i] \in {l[j] : j \in 1 .. Len(l)} \cup {p}
    BY <2>1, <1>2
  <2>3. ASSUME NEW i \in 1 .. Len(l) PROVE l[i] \in {k[j] : j \in 1 .. Len(k)}
    BY <1>5
  <2> QED BY <2>2, <2>3, <1>2, SMTT(30)
<1>14. Uses(d, l) = Uses(c, k)
  BY <1>3, <1>10, <1>13 DEF Uses
<1>15. \A i \in 1 .. Len(l) : d.current # l[i]
  <2> SUFFICES ASSUME NEW i \in 1 .. Len(l), p = l[i] PROVE FALSE
    BY <1>10
  <2>1. i + 1 \in 1 .. Len(k) /\ k[i + 1] = k[1]
    BY <1>2, <1>5
  <2> QED BY <2>1, <1>2
<1>16. StreamOK(h, s, d, l)
  <2>1. IsReading(h, d)
    BY <1>3, <1>9, <1>10 DEF IsReading
  <2> QED BY <2>1, <1>1, <1>11, <1>12, <1>14, <1>15 DEF StreamOK
<1>17. AheadIn(h, d, l) = AheadIn(h, c, k)
  <2>1. Rest(h, c) = <<>>
    BY <1>1 DEF Rest, StreamOK, IsReading, StreamRecords
  <2>2. Rest(h, d) = BytesOf(f, 0)
    <3>1. CASE File[f].size = 0
      BY <3>1, <1>10 DEF Rest, BytesOf
    <3>2. CASE File[f].size # 0
      BY <3>2, <1>3, <1>4, <1>10 DEF Rest
    <3> QED BY <3>1, <3>2
  <2>3. <<>> \o Content(h, k) = Content(h, k)
    <3>1. Content(h, k) \in Seq(Bytes)
      BY <1>6, ContentType
    <3> QED BY <3>1, ConcatEmptySeq
  <2> QED BY <2>1, <2>2, <2>3, <1>6, Zenon DEF AheadIn
<1> HIDE DEF c, k, f, U
<1>18. Uses(d, l) = Uses(D0[s], L[s]) /\ AheadIn(h, d, l) = AheadIn(h, D0[s], L[s])
  BY <1>14, <1>17 DEF c, k
<1> QED BY <1>5, <1>11, <1>16, <1>18, SameUses

\* ds_fill_buffer fails: the stream has no buffer, and had none.
LEMMA FailsOK ==
  ASSUME NEW h, NEW D0, NEW L, NEW W, MemOK(h, D0, L, W), NEW s \in Streams, D0[s].current = None,
         NEW d, d = [D0[s] EXCEPT !.buffer = None, !.pos = 0, !.size = 0, !.eof = TRUE]
  PROVE  Still(h, D0, L, h, W, [D0 EXCEPT ![s] = d])
<1> DEFINE c == D0[s]  l == L[s]
<1>1. StreamOK(h, s, c, l) /\ c \in StreamRecords /\ l \in Seq(Addresses) /\ c.current = None
  BY HeldAlone
<1>2. /\ d \in StreamRecords /\ d.current = None /\ d.pos = 0 /\ d.size = 0 /\ d.first = c.first
      /\ d.last = c.last /\ d.packs = c.packs /\ d.bytes = c.bytes
  BY <1>1 DEF StreamRecords, Pointers
<1> HIDE DEF c, l
<1>3. Uses(d, l) = Uses(c, l)
  BY <1>1, <1>2 DEF Uses
<1>4. \A i \in 1 .. Len(l) : d.current # l[i]
  BY <1>1, <1>2 DEF StreamOK
<1>5. StreamOK(h, s, d, l)
  BY <1>1, <1>2, <1>3, <1>4 DEF StreamOK, IsList, IsReading
<1>6. AheadIn(h, d, l) = AheadIn(h, c, l)
  <2>1. Rest(h, c) = <<>> /\ Rest(h, d) = <<>>
    BY <1>1, <1>2 DEF Rest, StreamOK, IsReading, StreamRecords
  <2> QED BY <2>1 DEF AheadIn
<1>7. Uses(d, l) = Uses(D0[s], L[s]) /\ AheadIn(h, d, l) = AheadIn(h, D0[s], L[s])
  BY <1>3, <1>6 DEF c, l
<1> QED BY <1>1, <1>2, <1>5, <1>7, SameUses

\* The next n bytes of the current packet.
Taken(h, d, n) == [i \in 1 .. n |-> <<h[d.buffer].frame, d.pos + i>>]

\* What is given is taken from the bytes ahead: d is the stream after it.
Gives(h, D0, L, W, s, n, d) ==
  /\ MemOK(h, [D0 EXCEPT ![s] = d], L, W)
  /\ Taken(h, D0[s], n) \in Seq(Bytes) /\ Len(Taken(h, D0[s], n)) = n
  /\ AheadIn(h, D0[s], L[s]) = Taken(h, D0[s], n) \o AheadIn(h, d, L[s])

LEMMA GiveOK ==
  ASSUME NEW h, NEW D0, NEW L, NEW W, MemOK(h, D0, L, W), NEW s \in Streams,
         NEW n \in Nat, D0[s].pos + n <= D0[s].size, NEW d, d = [D0[s] EXCEPT !.pos = @ + n]
  PROVE  Gives(h, D0, L, W, s, n, d)
<1> DEFINE c == D0[s]  l == L[s]  U == Away(D0, L, s, W) \cup Uses(c, l)  f == h[c.buffer].frame
           taken == Taken(h, c, n)
<1>1. HeapOK(h, U) /\ StreamOK(h, s, c, l) /\ c \in StreamRecords /\ l \in Seq(Addresses) /\ c.pos + n <= c.size
  BY HeldAlone
<1>2. /\ d \in StreamRecords /\ d.current = c.current /\ d.pos = c.pos + n /\ d.size = c.size
      /\ d.buffer = c.buffer /\ d.first = c.first
      /\ d.last = c.last /\ d.packs = c.packs /\ d.bytes = c.bytes
      /\ c.pos \in Nat /\ c.size \in Nat /\ d.pos \in Nat
  BY <1>1 DEF StreamRecords
<1> HIDE DEF c, l, U
<1>3. Uses(d, l) = Uses(c, l)
  BY <1>2 DEF Uses
<1>4. StreamOK(h, s, d, l)
  <2>1. IsReading(h, d)
    BY <1>1, <1>2 DEF StreamOK, IsReading
  <2> QED BY <2>1, <1>1, <1>2, <1>3 DEF StreamOK, IsList
<1>5. MemOK(h, [D0 EXCEPT ![s] = d], L, W)
  <2>1. Uses(d, l) = Uses(D0[s], L[s])
    BY <1>3 DEF c, l
  <2>2. MemOK(h, [D0 EXCEPT ![s] = d], [L EXCEPT ![s] = l], W)
    BY <1>1, <1>2, <1>4, <2>1, SameHeap
  <2>3. [L EXCEPT ![s] = l] = L
    BY DEF MemOK, l
  <2> QED BY <2>2, <2>3, Zenon
<1>6. c.pos < c.size => /\ f \in Frames /\ c.size = File[f].size
                        /\ Rest(h, c) = BytesOf(f, c.pos)
  BY <1>1, AheadType
<1>7. taken \in Seq(Bytes) /\ Len(taken) = n /\ \A i \in 1 .. n : taken[i] = <<f, c.pos + i>>
  <2>1. ASSUME NEW i \in 1 .. n PROVE <<f, c.pos + i>> \in Bytes
    BY <1>1, <1>2, <1>6 DEF Bytes
  <2> HIDE DEF f
  <2>2. taken = [i \in 1 .. n |-> <<f, c.pos + i>>]
    BY DEF Taken, f
  <2> HIDE DEF taken
  <2>3. \A i \in 1 .. n : taken[i] = <<f, c.pos + i>>
    BY <2>2, Zenon
  <2>4. taken \in [1 .. n -> Bytes]
    BY <2>1, <2>2, Zenon
  <2>5. taken \in Seq(Bytes) /\ Len(taken) = n
    BY <2>4
  <2> QED BY <2>3, <2>5
<1> HIDE DEF taken
<1>a. c.pos \in Nat /\ c.size \in Nat /\ c.pos + n <= c.size
  BY <1>1, <1>2
<1>8. Rest(h, c) = taken \o Rest(h, d)
  <2>0. Rest(h, c) \in Seq(Bytes) /\ Rest(h, d) \in Seq(Bytes)
    BY <1>1, <1>4, AheadType
  <2>1. CASE c.pos < c.size
    <3>1. Rest(h, c) = BytesOf(f, c.pos) /\ f \in Frames /\ c.pos <= File[f].size
      BY <2>1, <1>2, <1>6
    <3>2. /\ Len(Rest(h, c)) = c.size - c.pos
          /\ \A i \in 1 .. c.size - c.pos : Rest(h, c)[i] = <<f, c.pos + i>>
      BY <2>1, <3>1, <1>2, <1>6, BytesOfType, SMTT(30)
    <3>3. /\ Len(Rest(h, d)) = c.size - (c.pos + n)
          /\ \A i \in 1 .. c.size - (c.pos + n) : Rest(h, d)[i] = <<f, (c.pos + n) + i>>
      <4>1. CASE d.pos < d.size
        <5> DEFINE m == c.pos + n
        <5>1. Rest(h, d) = BytesOf(f, m) /\ m \in Nat /\ m <= File[f].size
          BY <4>1, <2>1, <1>a, <1>2, <1>6 DEF Rest
        <5> HIDE DEF m
        <5>2. /\ Len(BytesOf(f, m)) = File[f].size - m
              /\ \A i \in 1 .. File[f].size - m : BytesOf(f, m)[i] = <<f, m + i>>
          BY <5>1, <3>1, BytesOfType
        <5>3. Rest(h, d) = BytesOf(f, m) /\ c.size = File[f].size
          BY <5>1, <2>1, <1>6
        <5> QED BY <5>2, <5>3, Zenon DEF m
      <4>2. CASE ~ (d.pos < d.size)
        <5>1. Rest(h, d) = <<>> /\ c.size - (c.pos + n) = 0
          BY <4>2, <1>1, <1>2 DEF Rest
        <5> QED BY <5>1
      <4> QED BY <4>1, <4>2
    <3>4. /\ taken \o Rest(h, d) \in Seq(Bytes) /\ Len(taken \o Rest(h, d)) = Len(taken) + Len(Rest(h, d))
          /\ \A i \in 1 .. Len(taken) + Len(Rest(h, d)) :
               (taken \o Rest(h, d))[i] = IF i <= Len(taken) THEN taken[i] ELSE Rest(h, d)[i - Len(taken)]
      BY <2>0, <1>7, ConcatProperties
    <3>5. Len(taken \o Rest(h, d)) = Len(Rest(h, c))
      BY <3>2, <3>3, <3>4, <1>1, <1>2, <1>7
    <3>6. ASSUME NEW i \in 1 .. Len(Rest(h, c)) PROVE Rest(h, c)[i] = (taken \o Rest(h, d))[i]
      <4>0. i \in 1 .. c.size - c.pos /\ i \in 1 .. Len(taken) + Len(Rest(h, d)) /\ Rest(h, c)[i] = <<f, c.pos + i>>
        BY <3>2, <3>4, <3>5
      <4>1. CASE i <= n
        BY <4>0, <4>1, <3>4, <1>7
      <4>2. CASE ~ (i <= n)
        <5> DEFINE j == i - n
        <5>1. j \in 1 .. c.size - (c.pos + n) /\ (c.pos + n) + j = c.pos + i
          <6>1. i \in 1 .. c.size - c.pos
            BY <4>0
          <6> HIDE DEF f
          <6> QED BY <6>1, <4>2, <1>a
        <5>2. (taken \o Rest(h, d))[i] = Rest(h, d)[j]
          BY <4>0, <4>2, <3>4, <1>7
        <5> HIDE DEF j
        <5> QED BY <4>0, <5>1, <5>2, <3>3
      <4> QED BY <4>1, <4>2
    <3> QED BY <2>0, <3>4, <3>5, <3>6, SeqEqual
  <2>2. CASE ~ (c.pos < c.size)
    <3>1. n = 0 /\ Rest(h, c) = <<>> /\ Rest(h, d) = <<>>
      BY <2>2, <1>1, <1>2 DEF Rest
    <3>2. taken = <<>>
      BY <3>1, <1>7, EmptySeq
    <3> QED BY <3>1, <3>2, EmptySeq, ConcatEmptySeq
  <2> QED BY <2>1, <2>2
<1>9. AheadIn(h, c, l) = taken \o AheadIn(h, d, l)
  <2> DEFINE y == Rest(h, d)  z == Content(h, l)
  <2>1. y \in Seq(Bytes) /\ z \in Seq(Bytes)
    BY <1>1, <1>4, AheadType
  <2> HIDE DEF y, z
  <2>2. (taken \o y) \o z = taken \o (y \o z)
    BY <1>7, <2>1
  <2> QED BY <1>8, <2>2, Zenon DEF AheadIn, y, z
<1> QED BY <1>5, <1>7, <1>9 DEF Gives, taken, c, l

\* The end of the file is forgotten, and nothing else.
LEMMA EofOK ==
  ASSUME NEW h, NEW D0, NEW L, NEW W, MemOK(h, D0, L, W),
         NEW E, E = [s \in Streams |-> [D0[s] EXCEPT !.eof = FALSE]]
  PROVE  Still(h, D0, L, h, W, E)
<1>1. ASSUME NEW t \in Streams
      PROVE  /\ E[t] \in StreamRecords /\ E[t].first = D0[t].first /\ E[t].last = D0[t].last
             /\ E[t].packs = D0[t].packs /\ E[t].bytes = D0[t].bytes /\ E[t].current = D0[t].current
             /\ E[t].buffer = D0[t].buffer /\ E[t].pos = D0[t].pos /\ E[t].size = D0[t].size
  <2>1. E[t] = [D0[t] EXCEPT !.eof = FALSE] /\ D0[t] \in StreamRecords
    BY DEF MemOK
  <2> QED BY <2>1 DEF StreamRecords
<1>2. E \in [Streams -> StreamRecords]
  BY <1>1
<1>3. \A t \in Streams : Uses(E[t], L[t]) = Uses(D0[t], L[t])
  BY <1>1 DEF Uses
<1>4. Held(E, L) = Held(D0, L)
  BY <1>3 DEF Held
<1>5. ASSUME NEW t \in Streams PROVE StreamOK(h, t, E[t], L[t])
  <2>1. StreamOK(h, t, D0[t], L[t])
    BY DEF MemOK
  <2> DEFINE e == E[t]  d == D0[t]  l == L[t]
  <2>2. IsList(h, e, l) /\ IsReading(h, e)
    BY <2>1, <1>1 DEF StreamOK, IsList, IsReading
  <2> QED BY <2>1, <2>2, <1>1, <1>3 DEF StreamOK
<1>6. MemOK(h, E, L, W)
  BY <1>2, <1>3, <1>4, <1>5 DEF MemOK
<1>7. ASSUME NEW t \in Streams PROVE AheadIn(h, E[t], L[t]) = AheadIn(h, D0[t], L[t])
  <2>1. E[t].buffer = D0[t].buffer /\ E[t].pos = D0[t].pos /\ E[t].size = D0[t].size
    BY <1>1
  <2>2. Rest(h, E[t]) = Rest(h, D0[t])
    BY <2>1 DEF Rest
  <2> QED BY <2>2, Zenon DEF AheadIn
<1> QED BY <1>6, <1>7 DEF Still

------------------------------------------------------------------------------
(* The state machine.                                                       *)

\* The lists of the streams are those the links make.
Lists(h, D0) == [s \in Streams |-> Chain(h, D0[s].first)]
AheadOf(h, D0, s) == AheadIn(h, D0[s], Lists(h, D0)[s])
MemoryTrue(h, D0, W) == MemOK(h, D0, Lists(h, D0), W)

LEMMA ListsOf ==
  ASSUME NEW h, NEW D0, NEW L, NEW X, MemOK(h, D0, L, X) PROVE L = Lists(h, D0)
<1>1. ASSUME NEW s \in Streams PROVE L[s] = Chain(h, D0[s].first)
  BY ChainOfList DEF MemOK, HeapOK, StreamOK
<1>2. L = [s \in Streams |-> L[s]]
  BY DEF MemOK
<1> QED BY <1>1, <1>2 DEF Lists

LEMMA Unmoved ==
  ASSUME NEW h, NEW D0, NEW g, NEW E, NEW W, Still(h, D0, Lists(h, D0), g, W, E)
  PROVE  MemoryTrue(g, E, W) /\ \A t \in Streams : AheadOf(g, E, t) = AheadOf(h, D0, t)
<1>1. PICK M : /\ MemOK(g, E, M, W)
               /\ \A t \in Streams : AheadIn(g, E[t], M[t]) = AheadIn(h, D0[t], Lists(h, D0)[t])
  BY DEF Still
<1>2. M = Lists(g, E)
  BY <1>1, ListsOf
<1>3. MemoryTrue(g, E, W)
  BY <1>1, <1>2, Zenon DEF MemoryTrue
<1>4. \A t \in Streams : AheadOf(g, E, t) = AheadOf(h, D0, t)
  BY <1>1, <1>2, Zenon DEF AheadOf
<1> QED BY <1>3, <1>4

\* What is read for a stream of the frames from one to before another.
Part(s, f) == IF s \in File[f].to THEN BytesOf(f, 0) ELSE <<>>
Parts(s, from, to) == [i \in 1 .. to - from |-> Part(s, from + i - 1)]
Between(s, from, to) == FlattenSeq(Parts(s, from, to))

LEMMA PartType == ASSUME NEW s, NEW f \in Frames PROVE Part(s, f) \in Seq(Bytes)
BY WholeFrame, EmptySeq DEF Part

LEMMA BetweenNone == \A s, n : n \in Nat => Between(s, n, n) = <<>>
<1> SUFFICES ASSUME NEW s, NEW n \in Nat PROVE Between(s, n, n) = <<>>
  OBVIOUS
<1>1. Parts(s, n, n) = <<>>
  <2>1. n - n = 0
    OBVIOUS
  <2> QED BY <2>1 DEF Parts
<1> QED BY <1>1, FlatEmpty, Zenon DEF Between

LEMMA PartsAre ==
  ASSUME NEW s, NEW from \in Nat \ {0}, NEW to \in 1 .. Len(File) + 1, from <= to
  PROVE  Parts(s, from, to) \in Seq(Seq(Bytes)) /\ Len(Parts(s, from, to)) = to - from
         /\ \A i \in 1 .. to - from : Parts(s, from, to)[i] = Part(s, from + i - 1)
<1>1. Len(File) \in Nat
  BY FileType
<1>2. \A i \in 1 .. to - from : from + i - 1 \in Frames
  BY <1>1 DEF Frames
<1>3. \A i \in 1 .. to - from : Part(s, from + i - 1) \in Seq(Bytes)
  BY <1>2, PartType
<1>4. to - from \in Nat
  OBVIOUS
<1>5. Parts(s, from, to) \in [1 .. to - from -> Seq(Bytes)]
  BY <1>3, Zenon DEF Parts
<1>6. \A i \in 1 .. to - from : Parts(s, from, to)[i] = Part(s, from + i - 1)
  BY Zenon DEF Parts
<1>7. Parts(s, from, to) \in Seq(Seq(Bytes)) /\ Len(Parts(s, from, to)) = to - from
  <2> DEFINE n == to - from  ps == Parts(s, from, to)
  <2>1. n \in Nat /\ ps \in [1 .. n -> Seq(Bytes)]
    BY <1>4, <1>5
  <2> HIDE DEF n, ps
  <2>2. ps \in Seq(Seq(Bytes)) /\ Len(ps) = n
    BY <2>1
  <2> QED BY <2>2 DEF n, ps
<1> QED BY <1>6, <1>7

LEMMA BetweenNext ==
  ASSUME NEW s, NEW from \in Nat \ {0}, NEW to \in Frames, from <= to
  PROVE  Between(s, from, to + 1) = Between(s, from, to) \o Part(s, to)
<1> DEFINE ps == Parts(s, from, to)  qs == Parts(s, from, to + 1)  x == Part(s, to)  n == to - from
<1>1. Len(File) \in Nat /\ to \in 1 .. Len(File) + 1 /\ to + 1 \in 1 .. Len(File) + 1 /\ n \in Nat
      /\ (to + 1) - from = n + 1 /\ from <= to + 1 /\ from + (n + 1) - 1 = to
  BY FileType DEF Frames
<1>2. ps \in Seq(Seq(Bytes)) /\ Len(ps) = n /\ \A i \in 1 .. n : ps[i] = Part(s, from + i - 1)
  BY <1>1, PartsAre
<1>3. /\ qs \in Seq(Seq(Bytes)) /\ Len(qs) = (to + 1) - from
      /\ \A i \in 1 .. (to + 1) - from : qs[i] = Part(s, from + i - 1)
  <2> DEFINE next == to + 1
  <2>1. next \in 1 .. Len(File) + 1 /\ from <= next
    BY <1>1
  <2> HIDE DEF next
  <2>2. /\ Parts(s, from, next) \in Seq(Seq(Bytes)) /\ Len(Parts(s, from, next)) = next - from
        /\ \A i \in 1 .. next - from : Parts(s, from, next)[i] = Part(s, from + i - 1)
    BY <2>1, PartsAre
  <2> QED BY <2>2, Zenon DEF next
<1>4. x \in Seq(Bytes)
  BY PartType
<1> HIDE DEF ps, qs, n
<1>5. qs = Append(ps, x)
  <2>1. /\ Append(ps, x) \in Seq(Seq(Bytes)) /\ Len(Append(ps, x)) = n + 1
        /\ Append(ps, x)[n + 1] = x /\ \A i \in 1 .. n : Append(ps, x)[i] = ps[i]
    BY <1>2, <1>4, AppendProperties
  <2>2. Len(qs) = n + 1 /\ qs[n + 1] = x /\ \A i \in 1 .. n : qs[i] = Part(s, from + i - 1)
    <3>1. \A i \in 1 .. n + 1 : qs[i] = Part(s, from + i - 1)
      BY <1>1, <1>3
    <3>2. n + 1 \in 1 .. n + 1 /\ \A i \in 1 .. n : i \in 1 .. n + 1
      BY <1>1
    <3>3. qs[n + 1] = Part(s, from + (n + 1) - 1)
      BY <3>1, <3>2, Zenon
    <3> QED BY <3>1, <3>2, <3>3, <1>1, <1>3
  <2>3. \A i \in 1 .. n + 1 : qs[i] = Append(ps, x)[i]
    BY <1>1, <1>2, <2>1, <2>2
  <2> QED BY <1>3, <2>1, <2>2, <2>3, SeqEqual
<1>6. FlattenSeq(Append(ps, x)) = FlattenSeq(ps) \o x
  BY <1>2, <1>4, FlatAppend
<1> QED BY <1>5, <1>6 DEF Between, ps, qs, x

LEMMA BetweenType ==
  ASSUME NEW s, NEW from \in Nat \ {0}, NEW to \in 1 .. Len(File) + 1, from <= to
  PROVE  Between(s, from, to) \in Seq(Bytes)
BY PartsAre, FlatType DEF Between

\* The inductive invariant.  What the variables hold, and what is in memory:
CallRecords == [op : {"packet", "sub", "read", "pattern", "pts"}, s : Streams, left : Nat, total : Nat]

Typed ==
  /\ filePos \in 1 .. Len(File) + 1 /\ seeks \in 0 .. MaxSeeks
  /\ pc \in {"idle", "loop", "fill", "give"} /\ call \in CallRecords
  /\ given \in [Streams -> Seq(Bytes)] /\ since \in [Streams -> 1 .. Len(File) + 1]
  /\ \A s \in Streams : since[s] <= filePos

\* what ds_fill_buffer fills has no current packet,
Filling == pc = "fill" => ds[call.s].current = None

\* the bytes given and those ahead are those read from the file,
GivenTrue == \A s \in Streams : given[s] \o AheadOf(heap, ds, s) = Between(s, since[s], filePos)

MemInv == Typed /\ MemoryTrue(heap, ds, lost) /\ Filling /\ GivenTrue

\* Of the last n bytes of g the one at i; and that none of them ends a start code.
LastOf(g, n, i) == g[Len(g) - n + i]
NoCode(g, n) == \A i \in 3 .. n : ~ IsCode(LastOf(g, n, i))

\* demux_pattern_3 has read less than it may, and passed over no start code,
Scanning ==
  call.op = "pattern" =>
    /\ call.s = Video
    /\ pc # "idle" => call.total < call.left /\ call.total <= Len(given[Video]) /\ NoCode(given[Video], call.total)

\* and no call which runs has answered yet.
Unanswered == pc # "idle" => answer = NoAnswer

Inv == MemInv /\ Scanning /\ Unanswered

LEMMA InitMemory ==
  ASSUME NEW D0, D0 = [s \in Streams |-> EmptyStream]
  PROVE  MemoryTrue(<<>>, D0, {}) /\ \A s \in Streams : AheadOf(<<>>, D0, s) = <<>>
<1> DEFINE h == <<>>  none == <<>>  L == [s \in Streams |-> none]  e == EmptyStream
<1>1. /\ e \in StreamRecords /\ e.first = None /\ e.last = None /\ e.packs = 0 /\ e.bytes = 0
      /\ e.current = None /\ e.pos = 0 /\ e.size = 0
  BY DEF EmptyStream, StreamRecords, Pointers, None
<1>2. DOMAIN h = {} /\ none \in Seq(Addresses) /\ Len(none) = 0
  BY EmptySeq
<1>3. HeapOK(h, {})
  <2>1. IsFiniteSet(DOMAIN h)
    BY <1>2, FS_EmptySet
  <2> QED BY <1>2, <2>1 DEF HeapOK, HeapTyped, Counted
<1> HIDE DEF h, e
<1>4. Uses(e, none) = {}
  BY <1>1, <1>2 DEF Uses
<1>5. Content(h, none) = <<>>
  BY ContentEmpty
<1>6. IsList(h, e, none) /\ IsReading(h, e)
  BY <1>1, <1>2, <1>5 DEF IsList, IsReading
<1> HIDE DEF none
<1>7. D0 \in [Streams -> StreamRecords] /\ L \in [Streams -> Seq(Addresses)]
      /\ \A s \in Streams : D0[s] = e /\ L[s] = none
  BY <1>1, <1>2 DEF e
<1> HIDE DEF L
<1>8. \A s \in Streams : StreamOK(h, s, D0[s], L[s]) /\ Uses(D0[s], L[s]) = {}
  BY <1>1, <1>2, <1>4, <1>6, <1>7 DEF StreamOK
<1>9. Held(D0, L) \cup {} = {}
  BY <1>8 DEF Held
<1>10. HeapOK(h, Held(D0, L) \cup {})
  BY <1>3, <1>9, Zenon
<1>11. MemOK(h, D0, L, {})
  BY <1>7, <1>8, <1>9, <1>10 DEF MemOK
<1>12. ASSUME NEW s \in Streams PROVE AheadIn(h, D0[s], L[s]) = <<>>
  <2>1. Rest(h, e) = <<>> /\ <<>> \o <<>> = <<>>
    BY <1>1, ConcatEmptySeq, EmptySeq DEF Rest
  <2> QED BY <1>5, <1>7, <2>1 DEF AheadIn, none
<1>13. L = Lists(h, D0)
  BY <1>11, ListsOf
<1> QED BY <1>11, <1>12, <1>13 DEF MemoryTrue, AheadOf, h

LEMMA InitInv == ASSUME Init PROVE Inv
<1> USE DEF Init
<1>1. Len(File) \in Nat /\ MaxSeeks \in Nat
  BY FileType, DemuxAssumption
<1>2. MemoryTrue(heap, ds, lost) /\ \A s \in Streams : AheadOf(heap, ds, s) = <<>>
  <2>1. heap = <<>> /\ lost = {} /\ ds = [s \in Streams |-> EmptyStream]
    OBVIOUS
  <2> QED BY <2>1, InitMemory, Zenon
<1>3. Typed
  <2>1. call \in CallRecords
    BY DEF CallRecords, Streams
  <2>2. given \in [Streams -> Seq(Bytes)]
    BY EmptySeq
  <2> QED BY <1>1, <2>1, <2>2 DEF Typed
<1>4. GivenTrue
  <2> SUFFICES ASSUME NEW s \in Streams PROVE given[s] \o AheadOf(heap, ds, s) = Between(s, since[s], filePos)
    BY DEF GivenTrue
  <2>1. given[s] = <<>> /\ AheadOf(heap, ds, s) = <<>> /\ since[s] = 1 /\ filePos = 1
    BY <1>2
  <2>2. Between(s, 1, 1) = <<>> /\ <<>> \o <<>> = <<>>
    BY BetweenNone, ConcatEmptySeq, EmptySeq
  <2> QED BY <2>1, <2>2
<1> QED BY <1>2, <1>3, <1>4 DEF Inv, MemInv, Filling, Scanning, Unanswered

\* A step which moves nothing of what is ahead.
LEMMA StillStep ==
  ASSUME MemInv, MemoryTrue(heap', ds', lost'), \A t \in Streams : AheadOf(heap', ds', t) = AheadOf(heap, ds, t),
         UNCHANGED <<filePos, given, since, seeks>>,
         pc' \in {"idle", "loop", "fill", "give"}, call' \in CallRecords,
         pc' = "fill" => ds'[call'.s].current = None
  PROVE  MemInv'
<1>1. Typed'
  BY DEF MemInv, Typed
<1>2. GivenTrue'
  BY DEF MemInv, GivenTrue
<1> QED BY <1>1, <1>2 DEF MemInv, Filling

\* One which leaves the memory alone.
LEMMA IdleStep ==
  ASSUME MemInv, UNCHANGED <<memory, filePos, history>>,
         pc' \in {"idle", "loop", "fill", "give"}, call' \in CallRecords,
         pc' = "fill" => ds[call'.s].current = None
  PROVE  MemInv'
<1>1. heap' = heap /\ ds' = ds /\ lost' = lost /\ UNCHANGED <<filePos, given, since, seeks>>
  BY DEF memory, history
<1>2. MemoryTrue(heap', ds', lost') /\ \A t \in Streams : AheadOf(heap', ds', t) = AheadOf(heap, ds, t)
  BY <1>1 DEF MemInv
<1>3. pc' = "fill" => ds'[call'.s].current = None
  BY <1>1
<1> QED BY <1>1, <1>2, <1>3, StillStep

LEMMA FillStep == ASSUME MemInv, Drained, Fill PROVE MemInv'
<1> DEFINE s == call.s  L == Lists(heap, ds)  d == [ds[s] EXCEPT !.current = None]
<1>1. MemOK(heap, ds, L, lost) /\ s \in Streams /\ call \in CallRecords /\ ds \in [Streams -> StreamRecords]
  BY DEF MemInv, MemoryTrue, Typed, CallRecords, MemOK
<1>2. /\ pc' = "fill" /\ UNCHANGED <<filePos, call, given, since, seeks, lost>> /\ ds[s].pos >= ds[s].size
      /\ heap' = IF ds[s].current = None THEN heap ELSE FreePacket(heap, ds[s].current)
  BY DEF Fill, Drained, D, S, history
<1>3. ds' = [ds EXCEPT ![s] = d]
  BY <1>1 DEF Fill, D, S
<1>4. d.current = None /\ d = [ds[s] EXCEPT !.current = None]
  BY <1>1 DEF StreamRecords
<1> HIDE DEF s, L, d
<1>5. Still(heap, ds, L, heap', lost, [ds EXCEPT ![s] = d])
  BY <1>1, <1>2, <1>4, FreeCurrent
<1>6. MemoryTrue(heap', ds', lost') /\ \A t \in Streams : AheadOf(heap', ds', t) = AheadOf(heap, ds, t)
  <2>1. Still(heap, ds, Lists(heap, ds), heap', lost', ds')
    BY <1>2, <1>3, <1>5 DEF L
  <2> QED BY <2>1, Unmoved
<1>7. ds'[call'.s].current = None
  BY <1>1, <1>2, <1>3, <1>4 DEF s
<1> QED BY <1>1, <1>2, <1>6, <1>7, StillStep

LEMMA FillFromQueueStep == ASSUME MemInv, FillFromQueue PROVE MemInv'
<1> DEFINE s == call.s  L == Lists(heap, ds)  p == ds[s].first
           d == [ds[s] EXCEPT !.eof = FALSE, !.buffer = MasterOf(heap, p), !.pos = 0,
                              !.size = SizeOf(heap, p), !.bytes = @ - SizeOf(heap, p),
                              !.current = p, !.first = heap[p].next,
                              !.last = IF heap[p].next = None THEN None ELSE @, !.packs = @ - 1]
<1>1. MemOK(heap, ds, L, lost) /\ s \in Streams /\ call \in CallRecords /\ ds \in [Streams -> StreamRecords]
  BY DEF MemInv, MemoryTrue, Typed, CallRecords, MemOK
<1>2. ds' = [ds EXCEPT ![s] = d]
  BY <1>1, ZenonT(30) DEF FillFromQueue, D, S
<1>3. /\ heap' = heap /\ pc' \in {"give", "loop"} /\ UNCHANGED <<filePos, call, given, since, seeks, lost>>
      /\ ds[s].packs > 0 /\ ds[s].current = None
  BY DEF FillFromQueue, D, S, history, MemInv, Filling
<1>4. d = [ds[s] EXCEPT !.eof = FALSE, !.buffer = MasterOf(heap, p), !.pos = 0,
                              !.size = SizeOf(heap, p), !.bytes = @ - SizeOf(heap, p),
                              !.current = p, !.first = heap[p].next,
                              !.last = IF heap[p].next = None THEN None ELSE @, !.packs = @ - 1]
      /\ p = ds[s].first
  OBVIOUS
<1> HIDE DEF s, L, d, p
<1>5. Still(heap, ds, L, heap, lost, [ds EXCEPT ![s] = d])
  BY <1>1, <1>3, <1>4, UnlinkOK
<1>6. MemoryTrue(heap', ds', lost') /\ \A t \in Streams : AheadOf(heap', ds', t) = AheadOf(heap, ds, t)
  <2>1. Still(heap, ds, Lists(heap, ds), heap', lost', ds')
    BY <1>2, <1>3, <1>5 DEF L
  <2> QED BY <2>1, Unmoved
<1> QED BY <1>1, <1>3, <1>6, StillStep

\* The demuxer asked for a frame at the end of the file: the packet it may leave behind is one
\* nobody holds, and the streams do not see it.
LeftBehind(h, g, W) ==
  /\ MemoryTrue(g, ds, W) /\ Lists(g, ds) = Lists(h, ds)
  /\ \A t \in Streams : AheadOf(g, ds, t) = AheadOf(h, ds, t)

LEMMA DemuxAtEndLeaves ==
  ASSUME MemInv, UNCHANGED <<heap, lost>> \/ (AtEnd /\ DemuxAtEnd)
  PROVE  LeftBehind(heap, heap', lost')
<1> DEFINE L == Lists(heap, ds)  p == NewAddress(heap)  U == Held(ds, L) \cup lost
<1>1. MemOK(heap, ds, L, lost) /\ HeapOK(heap, U) /\ filePos \in 1 .. Len(File) + 1
  BY DEF MemInv, MemoryTrue, MemOK, Typed
<1>2. CASE UNCHANGED <<heap, lost>>
  BY <1>2 DEF LeftBehind, MemInv
<1>3. CASE heap' = NewPacket(heap, filePos, None) /\ lost' = lost \cup {p}
  <2> DEFINE g == NewPacket(heap, filePos, None)
  <2>1. HeapOK(g, U \cup {p}) /\ Added(heap, g, p, filePos)
    BY <1>1, NewMaster
  <2> HIDE DEF g, p, L
  <2>2. MemOK(g, ds, L, lost \cup {p}) /\ SameAhead(heap, ds, L, g)
    BY <1>1, <2>1, AddedOK DEF U
  <2>3. L = Lists(g, ds)
    BY <2>2, ListsOf
  <2>4. heap' = g /\ lost' = lost \cup {p}
    BY <1>3 DEF g
  <2>5. MemoryTrue(heap', ds, lost')
    BY <2>2, <2>3, <2>4, Zenon DEF MemoryTrue
  <2>6. \A t \in Streams : AheadOf(heap', ds, t) = AheadOf(heap, ds, t)
    BY <2>2, <2>3, <2>4, Zenon DEF SameAhead, AheadOf, L
  <2> QED BY <2>3, <2>4, <2>5, <2>6 DEF LeftBehind, L
<1> QED BY <1>2, <1>3 DEF DemuxAtEnd

LEMMA FillFailsStep == ASSUME MemInv, FillFails PROVE MemInv'
<1> DEFINE s == call.s  L == Lists(heap', ds)
           d == [ds[s] EXCEPT !.buffer = None, !.pos = 0, !.size = 0, !.eof = TRUE]
<1>0. LeftBehind(heap, heap', lost')
  BY DemuxAtEndLeaves DEF FillFails
<1>1. MemOK(heap', ds, L, lost') /\ s \in Streams /\ call \in CallRecords /\ ds \in [Streams -> StreamRecords]
  BY <1>0 DEF LeftBehind, MemInv, MemoryTrue, Typed, CallRecords, MemOK
<1>2. ds' = [ds EXCEPT ![s] = d]
  BY <1>1 DEF FillFails, D, S
<1>3. /\ pc' = "idle" /\ UNCHANGED <<filePos, call, given, since, seeks>>
      /\ ds[s].current = None
  BY DEF FillFails, D, S, MemInv, Filling
<1>4. d = [ds[s] EXCEPT !.buffer = None, !.pos = 0, !.size = 0, !.eof = TRUE]
  OBVIOUS
<1> HIDE DEF s, L, d
<1>5. Still(heap', ds, L, heap', lost', [ds EXCEPT ![s] = d])
  BY <1>1, <1>3, <1>4, FailsOK
<1>6. MemoryTrue(heap', ds', lost') /\ \A t \in Streams : AheadOf(heap', ds', t) = AheadOf(heap, ds, t)
  <2>1. Still(heap', ds, Lists(heap', ds), heap', lost', ds')
    BY <1>2, <1>5 DEF L
  <2>2. MemoryTrue(heap', ds', lost') /\ \A t \in Streams : AheadOf(heap', ds', t) = AheadOf(heap', ds, t)
    BY <2>1, Unmoved
  <2> QED BY <1>0, <2>2 DEF LeftBehind
<1> QED BY <1>1, <1>3, <1>6, StillStep

LEMMA NoPtsStep == ASSUME MemInv, NoPts PROVE MemInv'
<1>0. LeftBehind(heap, heap', lost')
  BY DemuxAtEndLeaves DEF NoPts
<1>1. ds' = ds /\ pc' = "idle" /\ UNCHANGED <<filePos, call, given, since, seeks>>
  BY DEF NoPts
<1>2. MemoryTrue(heap', ds', lost') /\ \A t \in Streams : AheadOf(heap', ds', t) = AheadOf(heap, ds, t)
  BY <1>0, <1>1 DEF LeftBehind
<1>3. call' \in CallRecords
  BY <1>1 DEF MemInv, Typed
<1> QED BY <1>1, <1>2, <1>3, StillStep

\* The next frame is read: each stream has its part of it ahead.
LEMMA DemuxStep ==
  ASSUME MemInv, ~ AtEnd, Become(DemuxFillBuffer(Queues)), filePos' = filePos + 1,
         UNCHANGED <<pc, call, given, since, seeks, lost>>
  PROVE  MemInv'
<1> DEFINE L == Lists(heap, ds)  r == DemuxFillBuffer(Queues)
<1>1. MemOK(heap, ds, L, lost) /\ Typed
  BY DEF MemInv, MemoryTrue
<1>2. Len(File) \in Nat /\ filePos \in Frames /\ filePos \in Nat \ {0} /\ filePos + 1 \in 1 .. Len(File) + 1
  BY <1>1, FileType DEF AtEnd, Frames, Typed
<1>3. heap' = r.heap /\ ds' = r.ds /\ r = DemuxFillBuffer([heap |-> heap, ds |-> ds])
  BY DEF Become, Queues
<1> HIDE DEF r
<1>4. PICK M : Filled(heap, ds, L, r, M, lost, File[filePos].to, filePos)
  BY <1>1, <1>2, <1>3, DemuxFillBufferOK
<1>5. MemOK(heap', ds', M, lost')
  BY <1>3, <1>4 DEF Filled
<1>6. M = Lists(heap', ds')
  BY <1>5, ListsOf
<1>7. ASSUME NEW t \in Streams
      PROVE  /\ AheadOf(heap', ds', t) = AheadOf(heap, ds, t) \o Part(t, filePos)
             /\ ds'[t].current = ds[t].current
  <2>1. /\ AheadIn(r.heap, r.ds[t], M[t]) =
             AheadIn(heap, ds[t], L[t]) \o (IF t \in File[filePos].to THEN BytesOf(filePos, 0) ELSE <<>>)
        /\ r.ds[t].current = ds[t].current
    BY <1>4 DEF Filled
  <2> QED BY <2>1, <1>3, <1>6, Zenon DEF AheadOf, Part
<1>8. MemoryTrue(heap', ds', lost')
  BY <1>5, <1>6, Zenon DEF MemoryTrue
<1>9. Typed'
  BY <1>1, <1>2 DEF Typed
<1>10. GivenTrue'
  <2> SUFFICES ASSUME NEW t \in Streams
               PROVE  given'[t] \o AheadOf(heap', ds', t) = Between(t, since'[t], filePos')
    BY DEF GivenTrue
  <2> DEFINE x == given[t]  y == AheadOf(heap, ds, t)  z == Part(t, filePos)
  <2>1. given'[t] \o AheadOf(heap', ds', t) = x \o (y \o z)
    BY <1>7
  <2>2. x \in Seq(Bytes) /\ y \in Seq(Bytes) /\ z \in Seq(Bytes)
    BY <1>1, <1>2, AheadBytes, PartType DEF Typed, AheadOf
  <2>3. since[t] \in Nat \ {0} /\ since[t] <= filePos
    BY <1>1, <1>2 DEF Typed
  <2>4. Between(t, since[t], filePos + 1) = Between(t, since[t], filePos) \o z
    BY <1>2, <2>3, BetweenNext
  <2>5. x \o y = Between(t, since[t], filePos)
    BY DEF MemInv, GivenTrue
  <2> HIDE DEF x, y, z
  <2>6. x \o (y \o z) = (x \o y) \o z
    BY <2>2
  <2>7. given'[t] \o AheadOf(heap', ds', t) = Between(t, since[t], filePos + 1)
    BY <2>1, <2>4, <2>5, <2>6, Zenon
  <2> QED BY <2>7
<1>11. Filling'
  <2>1. call'.s = call.s /\ call.s \in Streams /\ pc' = pc
    BY <1>1 DEF Typed, CallRecords
  <2> QED BY <2>1, <1>7 DEF Filling, MemInv
<1> QED BY <1>8, <1>9, <1>10, <1>11 DEF MemInv

\* The next n bytes are given.
LEMMA GiveStep ==
  ASSUME MemInv, NEW n \in Nat, D.pos + n <= D.size, Give(n),
         pc' \in {"idle", "loop", "give"}, call' \in CallRecords
  PROVE  /\ MemInv'
         /\ Taken(heap, ds[call.s], n) \in Seq(Bytes) /\ Len(Taken(heap, ds[call.s], n)) = n
         /\ given' = [given EXCEPT ![call.s] = @ \o Taken(heap, ds[call.s], n)]
<1> DEFINE s == call.s  L == Lists(heap, ds)  d == [ds[s] EXCEPT !.pos = @ + n]  taken == Taken(heap, ds[s], n)
<1>1. MemOK(heap, ds, L, lost) /\ s \in Streams /\ Typed /\ ds \in [Streams -> StreamRecords]
  BY DEF MemInv, MemoryTrue, Typed, CallRecords, MemOK
<1>2. ds' = [ds EXCEPT ![s] = d] /\ given' = [given EXCEPT ![s] = @ \o taken]
  BY <1>1 DEF Give, D, S, Taken
<1>3. heap' = heap /\ UNCHANGED <<filePos, since, seeks, lost>> /\ ds[s].pos + n <= ds[s].size
  BY DEF Give, D, S
<1>4. d = [ds[s] EXCEPT !.pos = @ + n]
  OBVIOUS
<1> HIDE DEF s, L, d
<1>5. /\ MemOK(heap, [ds EXCEPT ![s] = d], L, lost) /\ taken \in Seq(Bytes) /\ Len(taken) = n
      /\ AheadIn(heap, ds[s], L[s]) = taken \o AheadIn(heap, d, L[s])
  <2>1. Gives(heap, ds, L, lost, s, n, d)
    BY <1>1, <1>3, <1>4, GiveOK
  <2> QED BY <2>1 DEF Gives
<1>6. MemOK(heap', ds', L, lost') /\ L = Lists(heap', ds')
  <2>1. MemOK(heap', ds', L, lost')
    BY <1>2, <1>3, <1>5
  <2> QED BY <2>1, ListsOf
<1>7. MemoryTrue(heap', ds', lost')
  BY <1>6, Zenon DEF MemoryTrue
<1>8. ds'[s] = d /\ \A t \in Streams \ {s} : ds'[t] = ds[t]
  BY <1>1, <1>2
<1> HIDE DEF taken
<1>9. given'[s] = given[s] \o taken /\ given[s] \in Seq(Bytes) /\ \A t \in Streams \ {s} : given'[t] = given[t]
  BY <1>1, <1>2 DEF Typed
<1>10. Typed'
  <2>1. given[s] \o taken \in Seq(Bytes)
    BY <1>5, <1>9, ConcatProperties
  <2>2. given' \in [Streams -> Seq(Bytes)]
    BY <1>1, <1>2, <2>1 DEF Typed
  <2> QED BY <1>1, <1>3, <2>2 DEF Typed
<1>11. GivenTrue'
  <2> SUFFICES ASSUME NEW t \in Streams
               PROVE  given'[t] \o AheadOf(heap', ds', t) = Between(t, since'[t], filePos')
    BY DEF GivenTrue
  <2>1. given[t] \o AheadOf(heap, ds, t) = Between(t, since[t], filePos)
    BY DEF MemInv, GivenTrue
  <2>2. AheadOf(heap, ds, t) = AheadIn(heap, ds[t], L[t]) /\ AheadOf(heap', ds', t) = AheadIn(heap, ds'[t], L[t])
    BY <1>3, <1>6, Zenon DEF AheadOf, L
  <2>3. given'[t] \o AheadOf(heap', ds', t) = given[t] \o AheadOf(heap, ds, t)
    <3>1. CASE t = s
      <4> DEFINE x == given[s]  y == AheadIn(heap, d, L[s])
      <4>1. x \in Seq(Bytes) /\ y \in Seq(Bytes)
        <5>1. AheadIn(heap', ds'[s], L[s]) \in Seq(Bytes)
          BY <1>1, <1>6, AheadBytes
        <5> QED BY <5>1, <1>3, <1>8, <1>9
      <4> HIDE DEF x, y
      <4>2. (x \o taken) \o y = x \o (taken \o y)
        BY <4>1, <1>5
      <4> QED BY <3>1, <4>2, <2>2, <1>5, <1>8, <1>9, Zenon DEF x, y
    <3>2. CASE t # s
      BY <3>2, <2>2, <1>8, <1>9
    <3> QED BY <3>1, <3>2
  <2> QED BY <2>1, <2>3, <1>3
<1>12. Filling'
  BY DEF Filling
<1> QED BY <1>2, <1>5, <1>7, <1>10, <1>11, <1>12 DEF MemInv, taken, s

\* ds_free_packs, of the three streams q.
Emptied(q, s, r, W) ==
  /\ MemoryTrue(r.heap, r.ds, W) /\ AheadOf(r.heap, r.ds, s) = <<>>
  /\ \A t \in Streams \ {s} : AheadOf(r.heap, r.ds, t) = AheadOf(q.heap, q.ds, t)

LEMMA FreePacksEmpties ==
  ASSUME NEW q, NEW W, MemoryTrue(q.heap, q.ds, W), NEW s \in Streams
  PROVE  Emptied(q, s, FreePacks(q, s), W)
<1> DEFINE h == q.heap  D0 == q.ds  L == Lists(h, D0)  r == FreePacks([heap |-> h, ds |-> D0], s)
           none == <<>>  M == [L EXCEPT ![s] = none]
<1>1. FreePacks(q, s) = r
  BY DEF FreePacks
<1>2. MemOK(h, D0, L, W)
  BY DEF MemoryTrue
<1> HIDE DEF h, D0, L
<1>3. Freed(h, D0, L, W, s, r)
  BY <1>2, FreePacksOK
<1> HIDE DEF r
<1>4. MemOK(r.heap, r.ds, M, W)
  BY <1>3 DEF Freed
<1>5. M = Lists(r.heap, r.ds)
  BY <1>4, ListsOf
<1>6. M[s] = none /\ \A t \in Streams \ {s} : M[t] = L[t]
  BY <1>2 DEF MemOK
<1> HIDE DEF M
<1>7. AheadOf(r.heap, r.ds, s) = <<>>
  BY <1>3, <1>5, <1>6, Zenon DEF Freed, AheadOf, none
<1>8. \A t \in Streams \ {s} : AheadOf(r.heap, r.ds, t) = AheadOf(h, D0, t)
  BY <1>3, <1>5, <1>6, Zenon DEF Freed, AheadOf, L
<1>9. MemoryTrue(r.heap, r.ds, W)
  BY <1>4, <1>5, Zenon DEF MemoryTrue
<1> QED BY <1>1, <1>7, <1>8, <1>9 DEF Emptied, h, D0

LEMMA SeekStep == ASSUME MemInv, Seek PROVE MemInv'
<1> DEFINE q == Queues  a == FreePacks(q, Video)  b == FreePacks(a, Audio)  c == FreePacks(b, Sub)
<1>0. Video \in Streams /\ Audio \in Streams /\ Sub \in Streams
  BY DEF Streams
<1>1. q.heap = heap /\ q.ds = ds /\ MemoryTrue(q.heap, q.ds, lost)
  BY DEF Queues, MemInv
<1>2. /\ heap' = c.heap /\ ds' = [s \in Streams |-> [c.ds[s] EXCEPT !.eof = FALSE]]
      /\ filePos' \in Frames /\ given' = [s \in Streams |-> <<>>] /\ since' = [s \in Streams |-> filePos']
      /\ seeks < MaxSeeks /\ seeks' = seeks + 1 /\ UNCHANGED <<pc, call, lost>> /\ pc = "idle"
  BY DEF Seek
<1> HIDE DEF q, a, b, c
<1>3. Emptied(q, Video, a, lost)
  BY <1>0, <1>1, FreePacksEmpties DEF a
<1>4. Emptied(a, Audio, b, lost)
  BY <1>0, <1>3, FreePacksEmpties DEF b, Emptied
<1>5. Emptied(b, Sub, c, lost)
  BY <1>0, <1>4, FreePacksEmpties DEF c, Emptied
<1>6. MemoryTrue(c.heap, c.ds, lost) /\ \A t \in Streams : AheadOf(c.heap, c.ds, t) = <<>>
  BY <1>3, <1>4, <1>5 DEF Emptied, Streams
<1>7. MemoryTrue(heap', ds', lost') /\ \A t \in Streams : AheadOf(heap', ds', t) = <<>>
  <2> DEFINE g == c.heap  E == c.ds  L == Lists(g, E)
  <2>1. MemOK(g, E, L, lost) /\ ds' = [s \in Streams |-> [E[s] EXCEPT !.eof = FALSE]] /\ heap' = g
    BY <1>2, <1>6 DEF MemoryTrue
  <2> HIDE DEF g, E, L
  <2>2. Still(g, E, L, g, lost, ds')
    BY <2>1, EofOK
  <2>3. MemoryTrue(heap', ds', lost') /\ \A t \in Streams : AheadOf(heap', ds', t) = AheadOf(g, E, t)
    <3>1. Still(g, E, Lists(g, E), heap', lost', ds')
      BY <1>2, <2>1, <2>2 DEF L
    <3> QED BY <3>1, Unmoved
  <2> QED BY <2>3, <1>6 DEF g, E
<1>8. Typed'
  <2>1. given' \in [Streams -> Seq(Bytes)]
    BY <1>2, EmptySeq
  <2>2. Len(File) \in Nat /\ filePos' \in 1 .. Len(File) + 1 /\ filePos' <= filePos'
    BY <1>2, FileType DEF Frames
  <2>3. seeks' \in 0 .. MaxSeeks
    BY <1>2, DemuxAssumption DEF MemInv, Typed
  <2> QED BY <1>2, <2>1, <2>2, <2>3 DEF MemInv, Typed
<1>9. GivenTrue'
  <2> SUFFICES ASSUME NEW t \in Streams
               PROVE  given'[t] \o AheadOf(heap', ds', t) = Between(t, since'[t], filePos')
    BY DEF GivenTrue
  <2>1. filePos' \in Nat /\ <<>> \o <<>> = <<>>
    BY <1>2, FileType, ConcatEmptySeq, EmptySeq DEF Frames
  <2>2. Between(t, filePos', filePos') = <<>>
    BY <2>1, BetweenNone
  <2> QED BY <1>2, <1>7, <2>1, <2>2
<1> QED BY <1>2, <1>7, <1>8, <1>9 DEF MemInv, Filling

LEMMA SwitchSubStep == ASSUME MemInv, SwitchSub PROVE MemInv'
<1> DEFINE q == Queues  a == FreePacks(q, Sub)
<1>0. Sub \in Streams
  BY DEF Streams
<1>1. q.heap = heap /\ q.ds = ds /\ MemoryTrue(q.heap, q.ds, lost)
  BY DEF Queues, MemInv
<1>2. /\ heap' = a.heap /\ ds' = a.ds
      /\ filePos' = filePos /\ given' = [given EXCEPT ![Sub] = <<>>] /\ since' = [since EXCEPT ![Sub] = filePos]
      /\ seeks < MaxSeeks /\ seeks' = seeks + 1 /\ UNCHANGED <<pc, call, lost>> /\ pc = "idle"
  BY DEF SwitchSub, Become
<1> HIDE DEF q, a
<1>3. Emptied(q, Sub, a, lost)
  BY <1>0, <1>1, FreePacksEmpties DEF a
<1>4. /\ MemoryTrue(heap', ds', lost') /\ AheadOf(heap', ds', Sub) = <<>>
      /\ \A t \in Streams \ {Sub} : AheadOf(heap', ds', t) = AheadOf(heap, ds, t)
  BY <1>1, <1>2, <1>3 DEF Emptied
<1>5. Typed
  BY DEF MemInv
<1>6. /\ given'[Sub] = <<>> /\ since'[Sub] = filePos
      /\ \A t \in Streams \ {Sub} : given'[t] = given[t] /\ since'[t] = since[t]
  BY <1>0, <1>2, <1>5 DEF Typed
<1>7. Typed'
  <2>1. given' \in [Streams -> Seq(Bytes)]
    BY <1>2, <1>5, EmptySeq DEF Typed
  <2>2. Len(File) \in Nat /\ filePos' \in 1 .. Len(File) + 1 /\ filePos <= filePos
    BY <1>2, <1>5, FileType DEF Typed
  <2>3. since' \in [Streams -> 1 .. Len(File) + 1] /\ \A t \in Streams : since'[t] <= filePos
    BY <1>2, <1>5, <1>6, <2>2 DEF Typed
  <2>4. seeks' \in 0 .. MaxSeeks
    BY <1>2, <1>5, DemuxAssumption DEF Typed
  <2> QED BY <1>2, <1>5, <2>1, <2>2, <2>3, <2>4 DEF Typed
<1>8. GivenTrue'
  <2> SUFFICES ASSUME NEW t \in Streams
               PROVE  given'[t] \o AheadOf(heap', ds', t) = Between(t, since'[t], filePos')
    BY DEF GivenTrue
  <2>1. CASE t = Sub
    <3>1. filePos \in Nat /\ <<>> \o <<>> = <<>>
      BY <1>5, FileType, ConcatEmptySeq, EmptySeq DEF Typed
    <3>2. Between(t, filePos, filePos) = <<>>
      BY <3>1, BetweenNone
    <3> QED BY <2>1, <3>1, <3>2, <1>2, <1>4, <1>6
  <2>2. CASE t # Sub
    BY <2>2, <1>2, <1>4, <1>6 DEF MemInv, GivenTrue
  <2> QED BY <2>1, <2>2
<1> QED BY <1>2, <1>4, <1>7, <1>8 DEF MemInv, Filling

\* Of a sequence which has become longer.
LEMMA LastExtended ==
  ASSUME NEW A, NEW g \in Seq(A), NEW x \in Seq(A), NEW m \in Nat, m <= Len(g), NEW n, n = Len(x)
  PROVE  /\ m + n <= Len(g \o x) /\ m + n \in Nat
         /\ \A i \in 1 .. m : LastOf(g \o x, m + n, i) = LastOf(g, m, i)
         /\ \A i \in m + 1 .. m + n : LastOf(g \o x, m + n, i) = x[i - m]
<1> DEFINE k == g \o x
<1>1. /\ Len(g) \in Nat /\ n \in Nat /\ Len(k) = Len(g) + n
      /\ \A i \in 1 .. Len(g) + n : k[i] = IF i <= Len(g) THEN g[i] ELSE x[i - Len(g)]
  BY ConcatProperties
<1> HIDE DEF k
<1>2. ASSUME NEW i \in 1 .. m PROVE LastOf(k, m + n, i) = LastOf(g, m, i)
  <2> DEFINE j == Len(g) - m + i
  <2>1. j \in 1 .. Len(g) + n /\ j <= Len(g) /\ j = Len(k) - (m + n) + i
    BY <1>1
  <2>2. k[j] = g[j]
    BY <1>1, <2>1
  <2> QED BY <2>1, <2>2 DEF LastOf
<1>3. ASSUME NEW i \in m + 1 .. m + n PROVE LastOf(k, m + n, i) = x[i - m]
  <2> DEFINE j == Len(g) - m + i
  <2>1. j \in 1 .. Len(g) + n /\ ~ (j <= Len(g)) /\ j = Len(k) - (m + n) + i /\ j - Len(g) = i - m
    BY <1>1
  <2>2. k[j] = x[j - Len(g)]
    BY <1>1, <2>1, Zenon
  <2> QED BY <2>1, <2>2 DEF LastOf
<1> QED BY <1>1, <1>2, <1>3 DEF k

\* What StopsAtStartCode says of the bytes g given, and of an answer.
Stops(g, a, most) ==
  /\ \A i \in 3 .. a.n : IsCode(LastOf(g, a.n, i)) => i = a.n /\ a.found
  /\ a.found => a.n >= 3 /\ (IsCode(LastOf(g, a.n, a.n)) \/ a.n = most)

Stopped(g, a, most) ==
  LET read == SubSeq(g, Len(g) - a.n + 1, Len(g)) IN
  /\ \A i \in 3 .. a.n : IsCode(read[i]) => i = a.n /\ a.found
  /\ a.found => a.n >= 3 /\ (IsCode(read[a.n]) \/ a.n = most)

LEMMA StopsIs ==
  ASSUME NEW g \in Seq(Bytes), NEW a, NEW most, a.n \in 0 .. Len(g), Stops(g, a, most)
  PROVE  Stopped(g, a, most)
<1> DEFINE m == a.n  read == SubSeq(g, Len(g) - m + 1, Len(g))
<1> SUFFICES /\ \A i \in 3 .. m : IsCode(read[i]) => i = m /\ a.found
             /\ a.found => m >= 3 /\ (IsCode(read[m]) \/ m = most)
  BY DEF Stopped
<1>1. m \in 0 .. Len(g) /\ Stops(g, a, most) /\ Len(g) \in Nat
  OBVIOUS
<1>2. \A i \in 1 .. m : read[i] = LastOf(g, m, i)
  <2> HIDE DEF m
  <2>1. \A i \in 1 .. m : read[i] = g[(Len(g) - m + 1) + i - 1]
    BY <1>1, SMTT(30)
  <2>2. \A i \in 1 .. m : (Len(g) - m + 1) + i - 1 = Len(g) - m + i
    BY <1>1
  <2> QED BY <2>1, <2>2 DEF LastOf
<1> HIDE DEF m, read
<1>3. \A i \in 3 .. m : i \in 1 .. m
  BY <1>1
<1>4. m >= 3 => m \in 1 .. m
  BY <1>1
<1> QED BY <1>1, <1>2, <1>3, <1>4 DEF Stops, m

\* One pass of demux_pattern_3: how much it reads, and whether that ends a start code.
ScanLength ==
  LET scanned == ScanStop - D.pos
  IN IF call.total + scanned > call.left THEN call.left - call.total ELSE scanned
ScanFound == CodesAhead # {} /\ call.total + ScanLength >= 3

LEMMA ScanIs ==
  ASSUME Scan
  PROVE  /\ Give(ScanLength) /\ call' = [call EXCEPT !.total = @ + ScanLength]
         /\ IF ScanFound \/ call.total + ScanLength >= call.left
            THEN /\ pc' = "idle"
                 /\ answer' = [op |-> "pattern", found |-> ScanFound, n |-> call.total + ScanLength]
            ELSE UNCHANGED <<pc, answer>>
BY Zenon DEF Scan, ScanLength, ScanFound

LEMMA ScanStopIs ==
  ASSUME MemInv, ~ Drained
  PROVE  /\ D.pos \in Nat /\ D.size \in Nat /\ ScanStop \in D.pos + 1 .. D.size
         /\ IF CodesAhead = {} THEN ScanStop = D.size
            ELSE ScanStop \in CodesAhead /\ \A j \in CodesAhead : ScanStop <= j
<1>1. call.s \in Streams /\ ds[call.s] \in StreamRecords
  BY DEF MemInv, MemoryTrue, MemOK, Typed, CallRecords
<1>2. D.pos \in Nat /\ D.size \in Nat /\ D.pos < D.size
  BY <1>1 DEF StreamRecords, D, S, Drained
<1>3. CodesAhead \subseteq D.pos + 1 .. D.size
  BY DEF CodesAhead
<1>4. CASE CodesAhead = {}
  BY <1>2, <1>4 DEF ScanStop
<1>5. CASE CodesAhead # {}
  <2>1. CodesAhead \in SUBSET Nat
    BY <1>2, <1>3
  <2>2. \E i \in CodesAhead : \A j \in CodesAhead : i <= j
    BY <1>5, <2>1, Least
  <2>3. ScanStop \in CodesAhead /\ \A j \in CodesAhead : ScanStop <= j
    BY <1>5, <2>2 DEF ScanStop
  <2> QED BY <1>2, <1>3, <1>5, <2>3
<1> QED BY <1>4, <1>5

\* The bytes one pass reads: the codes among them which count end it, and are found.
LEMMA ScanReads ==
  ASSUME Inv, Scan
  PROVE  LET n == ScanLength  m == call.total + n  t == call.total IN
         /\ MemInv' /\ call.s = Video /\ call'.total = m /\ call'.left = call.left
         /\ call'.op = "pattern" /\ call'.s = Video
         /\ m \in Nat /\ m <= Len(given'[Video]) /\ given'[Video] \in Seq(Bytes)
         /\ \A i \in 3 .. m : IsCode(LastOf(given'[Video], m, i)) => i = m /\ ScanFound
         /\ ScanFound => IsCode(LastOf(given'[Video], m, m)) \/ m = call.left
<1> DEFINE n == ScanLength  m == call.total + n  t == call.total  f == heap[D.buffer].frame
           x == Taken(heap, ds[call.s], n)  g == given[Video]
<1>1. /\ MemInv /\ ~ Drained /\ call.op = "pattern" /\ pc = "loop"
  BY DEF Inv, Scan, Looping
<1>2. /\ call.s = Video /\ t < call.left /\ t <= Len(g) /\ NoCode(g, t)
      /\ t \in Nat /\ call.left \in Nat /\ g \in Seq(Bytes) /\ Video \in Streams /\ call \in CallRecords
      /\ given \in [Streams -> Seq(Bytes)]
  BY <1>1 DEF Inv, Scanning, MemInv, Typed, CallRecords, Streams
<1>3. /\ D.pos \in Nat /\ D.size \in Nat /\ ScanStop \in D.pos + 1 .. D.size
      /\ IF CodesAhead = {} THEN ScanStop = D.size
         ELSE ScanStop \in CodesAhead /\ \A j \in CodesAhead : ScanStop <= j
  BY <1>1, ScanStopIs
<1>4. /\ n \in Nat /\ D.pos + n <= ScanStop /\ (D.pos + n = ScanStop \/ t + n = call.left)
      /\ D.pos + n <= D.size /\ m \in Nat /\ m <= call.left
  <2> HIDE DEF f, x, g
  <2>1. PICK pos, size, stop, left, total : pos = D.pos /\ size = D.size /\ stop = ScanStop
                                           /\ left = call.left /\ total = call.total
    OBVIOUS
  <2>2. /\ pos \in Nat /\ size \in Nat /\ stop \in pos + 1 .. size
        /\ total \in Nat /\ left \in Nat /\ total < left
    BY <2>1, <1>2, <1>3
  <2>3. n = IF total + (stop - pos) > left THEN left - total ELSE stop - pos
    BY <2>1 DEF ScanLength
  <2> HIDE DEF n
  <2>4. /\ n \in Nat /\ pos + n <= stop /\ (pos + n = stop \/ total + n = left)
        /\ pos + n <= size /\ total + n \in Nat /\ total + n <= left
    BY <2>2, <2>3
  <2> QED BY <2>1, <2>4
<1> HIDE DEF n
<1>5. /\ Give(n) /\ call' = [call EXCEPT !.total = @ + n]
      /\ pc' \in {"idle", "loop"}
  BY <1>1, ScanIs DEF n
<1>6. call' \in CallRecords /\ call'.total = m /\ call'.left = call.left /\ call'.op = "pattern" /\ call'.s = Video
  BY <1>1, <1>2, <1>4, <1>5 DEF CallRecords
<1>7. MemInv' /\ x \in Seq(Bytes) /\ Len(x) = n /\ given' = [given EXCEPT ![call.s] = @ \o x]
  <2>1. pc' \in {"idle", "loop", "give"}
    BY <1>5
  <2> QED BY <2>1, <1>1, <1>4, <1>5, <1>6, GiveStep
<1> HIDE DEF x
<1>8. given'[Video] = g \o x
  BY <1>2, <1>7
<1>9. /\ m <= Len(g \o x)
      /\ \A i \in 1 .. t : LastOf(g \o x, m, i) = LastOf(g, t, i)
      /\ \A i \in t + 1 .. m : LastOf(g \o x, m, i) = x[i - t]
  <2> HIDE DEF g, t
  <2>1. g \in Seq(Bytes) /\ t \in Nat /\ t <= Len(g) /\ Len(x) = n /\ x \in Seq(Bytes)
    BY <1>2, <1>7 DEF g, t
  <2>2. m = t + n
    BY DEF t
  <2> HIDE DEF m
  <2> QED BY <2>1, <2>2, LastExtended, SMTT(30)
<1>10. g \o x \in Seq(Bytes)
  BY <1>2, <1>7, ConcatProperties
<1> HIDE DEF g
<1>11. ASSUME NEW i \in t + 1 .. m PROVE LastOf(g \o x, m, i) = <<f, D.pos + (i - t)>>
  <2>1. i - t \in 1 .. n
    BY <1>2, <1>4
  <2>2. x[i - t] = <<f, D.pos + (i - t)>>
    BY <2>1 DEF x, Taken, D, S
  <2> QED BY <1>9, <2>2
<1>12. \A i \in t + 1 .. m : i >= 3 /\ IsCode(LastOf(g \o x, m, i)) => D.pos + (i - t) \in CodesAhead
  <2> SUFFICES ASSUME NEW i \in t + 1 .. m, i >= 3, IsCode(LastOf(g \o x, m, i))
               PROVE  D.pos + (i - t) \in CodesAhead
    OBVIOUS
  <2> DEFINE j == D.pos + (i - t)
  <2>1. j \in File[f].codes
    BY <1>11 DEF IsCode
  <2>2. j \in D.pos + 1 .. D.size /\ t + j - D.pos >= 3
    <3> HIDE DEF f, x, g
    <3>1. /\ D.pos \in Nat /\ D.size \in Nat /\ n \in Nat /\ t \in Nat /\ D.pos + n <= D.size
          /\ m = t + n /\ i \in t + 1 .. m /\ i >= 3
      BY <1>2, <1>3, <1>4
    <3> HIDE DEF t, m
    <3> QED BY <3>1
  <2> QED BY <2>1, <2>2 DEF CodesAhead
<1>13. ASSUME NEW i \in 3 .. m, IsCode(LastOf(g \o x, m, i)) PROVE i = m /\ ScanFound
  <2>1. CASE i <= t
    <3>1. i \in 1 .. t /\ i \in 3 .. t
      BY <2>1, <1>2
    <3>2. LastOf(g \o x, m, i) = LastOf(g, t, i) /\ ~ IsCode(LastOf(g, t, i))
      BY <3>1, <1>2, <1>9 DEF NoCode
    <3> QED BY <1>13, <3>2
  <2>2. CASE ~ (i <= t)
    <3> DEFINE j == D.pos + (i - t)
    <3>1. i \in t + 1 .. m
      BY <2>2, <1>2, <1>4
    <3>2. j \in CodesAhead
      BY <1>12, <1>13, <3>1
    <3>3. ScanStop <= j
      BY <1>3, <3>2
    <3>4. j <= D.pos + n /\ (j = D.pos + n => i = m)
      <4> HIDE DEF f, x, g
      <4>1. /\ D.pos \in Nat /\ n \in Nat /\ t \in Nat /\ m = t + n /\ i \in t + 1 .. m
        BY <1>2, <1>3, <1>4, <3>1
      <4> HIDE DEF t, m
      <4> QED BY <4>1
    <3>5. i = m
      <4> HIDE DEF f, x, g
      <4>1. /\ D.pos \in Nat /\ n \in Nat /\ ScanStop \in Nat /\ j \in Int
        <5>1. ScanStop \in D.pos + 1 .. D.size /\ D.pos \in Nat /\ D.size \in Nat
          BY <1>3
        <5>2. i \in Nat /\ t \in Nat
          BY <1>2, <1>4, <3>1
        <5> HIDE DEF t
        <5> QED BY <5>1, <5>2, <1>4
      <4> HIDE DEF j
      <4>2. D.pos + n <= ScanStop /\ ScanStop <= j /\ j <= D.pos + n /\ (j = D.pos + n => i = m)
        BY <1>4, <3>3, <3>4
      <4> QED BY <4>1, <4>2
    <3> QED BY <3>2, <3>5 DEF ScanFound, n
  <2> QED BY <2>1, <2>2
<1>14. ASSUME ScanFound PROVE IsCode(LastOf(g \o x, m, m)) \/ m = call.left
  <2> SUFFICES ASSUME m # call.left PROVE IsCode(LastOf(g \o x, m, m))
    OBVIOUS
  <2>1. D.pos + n = ScanStop /\ ScanStop \in CodesAhead /\ n >= 1
    BY <1>3, <1>4, <1>14 DEF ScanFound
  <2>2. m \in t + 1 .. m /\ D.pos + (m - t) = ScanStop
    BY <2>1, <1>2, <1>3, <1>4
  <2>3. LastOf(g \o x, m, m) = <<f, ScanStop>>
    BY <1>11, <2>2
  <2>4. ScanStop \in File[f].codes
    BY <2>1 DEF CodesAhead
  <2> QED BY <2>3, <2>4 DEF IsCode
<1> QED BY <1>2, <1>4, <1>6, <1>7, <1>8, <1>9, <1>10, <1>13, <1>14 DEF n

LEMMA ScanStep ==
  ASSUME Inv, Scan
  PROVE  Inv' /\ StopsAtStartCode' /\ answer'.op # "pts"
<1> DEFINE n == ScanLength  m == call.total + n
<1>1. /\ MemInv' /\ call.s = Video /\ call'.total = m /\ call'.left = call.left
      /\ call'.op = "pattern" /\ call'.s = Video
      /\ m \in Nat /\ m <= Len(given'[Video]) /\ given'[Video] \in Seq(Bytes)
      /\ \A i \in 3 .. m : IsCode(LastOf(given'[Video], m, i)) => i = m /\ ScanFound
      /\ ScanFound => IsCode(LastOf(given'[Video], m, m)) \/ m = call.left
  BY ScanReads
<1>2. IF ScanFound \/ m >= call.left
      THEN pc' = "idle" /\ answer' = [op |-> "pattern", found |-> ScanFound, n |-> m]
      ELSE UNCHANGED <<pc, answer>>
  BY ScanIs
<1>3. answer = NoAnswer /\ call.left \in Nat /\ pc = "loop" /\ (ScanFound => m >= 3)
  BY DEF Inv, Unanswered, Scan, Looping, MemInv, Typed, CallRecords, ScanFound
<1> HIDE DEF n, m
<1>4. CASE ScanFound \/ m >= call.left
  <2>1. pc' = "idle" /\ answer'.op = "pattern" /\ answer'.n = m /\ answer'.found = ScanFound
    BY <1>2, <1>4
  <2>2. StopsAtStartCode'
    <3>1. answer'.n \in 0 .. Len(given'[Video]) /\ Stops(given'[Video], answer', call'.left)
      BY <1>1, <1>3, <2>1 DEF Stops, n, m
    <3>2. Stopped(given'[Video], answer', call'.left)
      BY <3>1, <1>1, StopsIs
    <3> QED BY <3>2 DEF StopsAtStartCode, Stopped
  <2> QED BY <2>1, <2>2, <1>1 DEF Inv, Scanning, Unanswered
<1>5. CASE ~ (ScanFound \/ m >= call.left)
  <2>1. pc' = pc /\ answer' = answer /\ m < call.left
    BY <1>1, <1>2, <1>3, <1>5
  <2>2. NoCode(given'[Video], m)
    BY <1>1, <1>5 DEF NoCode
  <2>3. answer' = NoAnswer /\ answer'.op = "none"
    BY <1>3, <2>1 DEF NoAnswer
  <2> QED BY <1>1, <2>1, <2>2, <2>3 DEF Inv, Scanning, Unanswered, StopsAtStartCode
<1> QED BY <1>4, <1>5

\* A step which ends the call, and one of a call which goes on.
LEMMA EndStep == ASSUME Inv, MemInv', call' = call, pc' = "idle" PROVE Inv'
BY DEF Inv, Scanning, Unanswered

LEMMA RunStep ==
  ASSUME Inv, MemInv', UNCHANGED <<call, given, answer>>, pc # "idle"
  PROVE  Inv' /\ answer' = NoAnswer
BY DEF Inv, Scanning, Unanswered, NoCode, LastOf, IsCode

LEMMA CallStep == ASSUME Inv, Calls PROVE Inv' /\ answer' = NoAnswer
<1>1. PICK op, s, n : Call(op, s, n) /\ op \in {"packet", "sub", "read", "pattern", "pts"} /\ s \in Streams
                      /\ n \in Nat /\ (op = "pattern" => s = Video /\ n > 0)
  <2>1. ReadLengths \subseteq Nat \ {0} /\ MaxLengths \subseteq Nat \ {0}
    BY DemuxAssumption
  <2> QED BY <2>1 DEF Calls, Streams
<1>2. /\ call' = [op |-> op, s |-> s, left |-> n, total |-> 0] /\ pc' = "loop" /\ answer' = NoAnswer
      /\ UNCHANGED <<memory, filePos, history>>
  BY <1>1 DEF Call
<1>3. call' \in CallRecords
  BY <1>1, <1>2 DEF CallRecords
<1>4. MemInv'
  BY <1>2, <1>3, IdleStep DEF Inv
<1>5. given' = given /\ given[Video] \in Seq(Bytes)
  BY <1>2 DEF history, Inv, MemInv, Typed, Streams
<1>6. Scanning'
  BY <1>1, <1>2, <1>5 DEF Scanning, NoCode
<1> QED BY <1>2, <1>4, <1>6 DEF Inv, Unanswered

\* A step which leaves the memory and the call alone.
LEMMA NothingStep ==
  ASSUME Inv, UNCHANGED <<memory, filePos, call, history>>, pc' = "idle"
  PROVE  Inv'
<1>1. call' \in CallRecords
  BY DEF Inv, MemInv, Typed
<1>2. MemInv'
  BY <1>1, IdleStep DEF Inv
<1> QED BY <1>2, EndStep

LEMMA FillsStep == ASSUME Inv, Drained, Fill, pc = "loop" PROVE Inv' /\ answer' = NoAnswer
<1>1. MemInv'
  BY FillStep DEF Inv
<1> QED BY <1>1, RunStep DEF Fill, history

LEMMA ReadsFileStep ==
  ASSUME Inv, FillFromFile \/ PtsFills
  PROVE  Inv' /\ answer' = NoAnswer
<1>1. /\ ~ AtEnd /\ Become(DemuxFillBuffer(Queues)) /\ filePos' = filePos + 1
      /\ UNCHANGED <<pc, call, answer, given, since, seeks, lost>> /\ pc # "idle"
  BY DEF FillFromFile, PtsFills, Looping, history
<1>2. MemInv'
  BY <1>1, DemuxStep DEF Inv
<1> QED BY <1>1, <1>2, RunStep

LEMMA GivesStep ==
  ASSUME Inv, GivePacket \/ ReadSome
  PROVE  Inv' /\ answer' = NoAnswer
<1>1. MemInv /\ D.pos \in Nat /\ D.size \in Nat /\ D.pos <= D.size /\ call \in CallRecords /\ call.left \in Nat
  <2>1. call.s \in Streams /\ call \in CallRecords /\ call.left \in Nat /\ MemInv
    BY DEF Inv, MemInv, Typed, CallRecords
  <2>2. ds[call.s] \in StreamRecords /\ ds[call.s].pos <= ds[call.s].size
    BY <2>1 DEF MemInv, MemoryTrue, MemOK, StreamOK, IsReading
  <2> QED BY <2>1, <2>2 DEF StreamRecords, D, S
<1>2. CASE GivePacket
  <2>1. Give(D.size - D.pos) /\ pc' = "idle" /\ call' = call /\ answer' = answer /\ pc # "idle"
    BY <1>2 DEF GivePacket, Looping
  <2>2. D.size - D.pos \in Nat /\ D.pos + (D.size - D.pos) <= D.size
    BY <1>1
  <2>3. MemInv'
    <3>1. pc' \in {"idle", "loop", "give"} /\ call' \in CallRecords
      BY <1>1, <2>1
    <3> QED BY <1>1, <2>1, <2>2, <3>1, GiveStep
  <2> QED BY <2>1, <2>3, EndStep DEF Inv, Unanswered
<1>3. CASE ReadSome
  <2> DEFINE x == IF D.size - D.pos > call.left THEN call.left ELSE D.size - D.pos
  <2>1. /\ Give(x) /\ call' = [call EXCEPT !.left = @ - x] /\ pc' = pc /\ answer' = answer
        /\ pc = "loop" /\ call.op = "read"
    BY <1>3 DEF ReadSome, Looping
  <2>2. x \in Nat /\ D.pos + x <= D.size /\ call.left - x \in Nat
    BY <1>1
  <2> HIDE DEF x
  <2>3. call' \in CallRecords /\ call'.op = "read"
    BY <1>1, <2>1, <2>2 DEF CallRecords
  <2>4. MemInv'
    <3>1. pc' \in {"idle", "loop", "give"}
      BY <2>1
    <3> QED BY <1>1, <2>1, <2>2, <2>3, <3>1, GiveStep
  <2> QED BY <2>1, <2>3, <2>4 DEF Inv, Scanning, Unanswered
<1> QED BY <1>2, <1>3

\* Only demux_pattern_3 and ds_get_next_pts answer.
LEMMA NextInv ==
  ASSUME Inv, Next
  PROVE  Inv' /\ (answer' = NoAnswer \/ Scan \/ FillFails \/ GivePts)
<1>1. CASE Calls
  BY <1>1, CallStep
<1>2. CASE FillFromQueue
  <2>1. MemInv'
    BY <1>2, FillFromQueueStep DEF Inv
  <2> QED BY <1>2, <2>1, RunStep DEF FillFromQueue, history
<1>3. CASE FillFromFile \/ PtsFills
  BY <1>3, ReadsFileStep
<1>4. CASE FillFails
  <2>1. MemInv'
    BY <1>4, FillFailsStep DEF Inv
  <2> QED BY <1>4, <2>1, EndStep DEF FillFails
<1>5. CASE PacketFills \/ SubFills \/ ReadFills \/ PatternFills
  BY <1>5, FillsStep DEF PacketFills, SubFills, ReadFills, PatternFills, Looping
<1>12. CASE NoPts
  <2>1. MemInv'
    BY <1>12, NoPtsStep DEF Inv
  <2> QED BY <1>12, <2>1, EndStep DEF NoPts, Looping, Inv, Unanswered
<1>6. CASE NoSub \/ SubTooEarly \/ ReadEnds
  <2>1. /\ UNCHANGED <<memory, filePos, call, history>> /\ pc' = "idle"
        /\ answer' = answer /\ pc # "idle"
    BY <1>6 DEF NoSub, SubTooEarly, ReadEnds, Looping
  <2> QED BY <2>1, NothingStep DEF Inv, Unanswered
<1>7. CASE GivePacket \/ ReadSome
  BY <1>7, GivesStep
<1>8. CASE Scan
  BY <1>8, ScanStep
<1>9. CASE GivePts
  BY <1>9, NothingStep DEF GivePts
<1>10. CASE Seek
  <2>1. MemInv'
    BY <1>10, SeekStep DEF Inv
  <2> QED BY <1>10, <2>1, EndStep DEF Seek
<1>11. CASE SwitchSub
  <2>1. MemInv'
    BY <1>11, SwitchSubStep DEF Inv
  <2> QED BY <1>11, <2>1, EndStep DEF SwitchSub
<1> QED BY <1>1, <1>2, <1>3, <1>4, <1>5, <1>6, <1>7, <1>8, <1>9, <1>10, <1>11, <1>12 DEF Next, Step

LEMMA StutterInv == ASSUME Inv, UNCHANGED vars PROVE Inv'
<1>1. UNCHANGED <<memory, filePos, history, pc, call, answer, given>>
  BY DEF vars, history
<1>2. MemInv'
  BY <1>1, IdleStep DEF Inv, MemInv, Typed, Filling
<1> QED BY <1>1, <1>2 DEF Inv, Scanning, Unanswered, NoCode, LastOf, IsCode

------------------------------------------------------------------------------
(* What the answers say.                                                    *)

\* The first of the bytes a which begins a packet is of the frame f.
Begins(a, f) ==
  LET begins == {i \in DOMAIN a : a[i][2] = 1} IN
  \E i \in begins : a[i][1] = f /\ \A j \in begins : i <= j

LEMMA BeginsAfter ==
  ASSUME NEW r \in Seq(Bytes), NEW c \in Seq(Bytes), NEW f,
         \A j \in 1 .. Len(r) : r[j][2] # 1, Len(c) > 0, c[1] = <<f, 1>>
  PROVE  Begins(r \o c, f)
<1> DEFINE a == r \o c  n == Len(r) + 1
<1>1. /\ Len(r) \in Nat /\ Len(c) \in Nat /\ Len(a) = Len(r) + Len(c) /\ a \in Seq(Bytes)
      /\ \A i \in 1 .. Len(r) + Len(c) : a[i] = IF i <= Len(r) THEN r[i] ELSE c[i - Len(r)]
  BY ConcatProperties
<1>2. DOMAIN a = 1 .. Len(a)
  BY <1>1
<1> HIDE DEF a
<1>3. n \in DOMAIN a /\ ~ (n <= Len(r)) /\ n - Len(r) = 1
  BY <1>1, <1>2
<1>4. a[n] = <<f, 1>>
  BY <1>1, <1>2, <1>3
<1>5. ASSUME NEW j \in DOMAIN a, a[j][2] = 1 PROVE n <= j
  <2>1. j \in 1 .. Len(r) + Len(c)
    BY <1>1, <1>2
  <2>2. ~ (j <= Len(r))
    <3> SUFFICES ASSUME j <= Len(r) PROVE FALSE
      OBVIOUS
    <3>1. j \in 1 .. Len(r) /\ a[j] = r[j]
      BY <1>1, <2>1
    <3> QED BY <3>1, <1>5
  <2> QED BY <1>1, <2>1, <2>2
<1>6. n \in {i \in DOMAIN a : a[i][2] = 1} /\ a[n][1] = f
  BY <1>3, <1>4
<1> HIDE DEF n
<1> QED BY <1>5, <1>6 DEF Begins, a

\* ds_get_next_pts: the unread packet, or the first of the list.
LEMMA NextBegins ==
  ASSUME NEW h, NEW U, HeapOK(h, U), NEW s, NEW d, NEW l, StreamOK(h, s, d, l),
         NEW p, p = IF d.current # None /\ d.pos = 0 THEN d.current ELSE d.first,
         d.first # None \/ (d.current # None /\ d.pos = 0)
  PROVE  /\ s \in File[h[p].frame].to
         /\ File[h[p].frame].size > 0 => Begins(AheadIn(h, d, l), h[p].frame)
<1> DEFINE r == Rest(h, d)  c == Content(h, l)
<1>1. d \in StreamRecords /\ IsList(h, d, l) /\ IsReading(h, d)
  BY DEF StreamOK
<1>2. d.pos \in Nat /\ d.size \in Nat /\ l \in Seq(Addresses) /\ Len(l) \in Nat
  BY <1>1 DEF StreamRecords, IsList
<1>3. /\ FramesKnown(h, l) /\ c \in Seq(Bytes) /\ r \in Seq(Bytes)
      /\ d.pos < d.size => /\ h[d.buffer].frame \in Frames /\ d.size = File[h[d.buffer].frame].size
                           /\ r = BytesOf(h[d.buffer].frame, d.pos)
  BY AheadType
<1>4. AheadIn(h, d, l) = r \o c
  BY DEF AheadIn
<1>5. ASSUME d.pos < d.size
      PROVE  /\ h[d.buffer].frame = h[d.current].frame /\ d.current # None
             /\ Len(r) = d.size - d.pos /\ \A i \in 1 .. d.size - d.pos : r[i] = <<h[d.buffer].frame, d.pos + i>>
  <2>1. h[d.buffer].frame = h[d.current].frame /\ d.current # None
    BY <1>1, <1>2, <1>5, BufferFrame
  <2> HIDE DEF r
  <2>2. d.pos <= File[h[d.buffer].frame].size
    BY <1>2, <1>3, <1>5
  <2>3. /\ Len(r) = d.size - d.pos
        /\ \A i \in 1 .. d.size - d.pos : r[i] = <<h[d.buffer].frame, d.pos + i>>
    <3>1. PICK f, n : f = h[d.buffer].frame /\ n = d.pos
      OBVIOUS
    <3>2. f \in Frames /\ n \in Nat /\ n <= File[f].size /\ r = BytesOf(f, n) /\ d.size = File[f].size
      BY <3>1, <1>2, <1>3, <1>5, <2>2
    <3>3. Len(r) = File[f].size - n /\ \A i \in 1 .. File[f].size - n : r[i] = <<f, n + i>>
      BY <3>2, BytesOfType
    <3> QED BY <3>1, <3>2, <3>3
  <2> QED BY <2>1, <2>3
<1> HIDE DEF r, c
<1>6. CASE d.current # None /\ d.pos = 0
  <2>1. p = d.current /\ p \in Uses(d, l) /\ h[p].frame \in Frames /\ d.size = File[h[p].frame].size
    BY <1>1, <1>6 DEF Uses, IsReading, SizeOf
  <2>2. s \in File[h[p].frame].to
    BY <2>1 DEF StreamOK
  <2>3. ASSUME File[h[p].frame].size > 0 PROVE Begins(r \o c, h[p].frame)
    <3>1. d.pos < d.size /\ 1 \in 1 .. d.size - d.pos
      BY <1>2, <1>6, <2>1, <2>3
    <3>2. r[1] = <<h[p].frame, 1>> /\ Len(r) > 0
      BY <1>2, <1>5, <1>6, <2>1, <3>1
    <3>3. Begins(<<>> \o (r \o c), h[p].frame)
      <4>1. /\ r \o c \in Seq(Bytes) /\ Len(r \o c) > 0 /\ (r \o c)[1] = r[1]
        BY <1>3, <3>2, ConcatProperties
      <4>2. <<>> \in Seq(Bytes) /\ \A j \in 1 .. Len(<<>>) : <<>>[j][2] # 1
        BY EmptySeq
      <4>3. (r \o c)[1] = <<h[p].frame, 1>>
        BY <3>2, <4>1
      <4> QED BY <4>1, <4>2, <4>3, BeginsAfter
    <3>4. <<>> \o (r \o c) = r \o c
      <4>1. r \o c \in Seq(Bytes)
        BY <1>3, ConcatProperties
      <4> QED BY <4>1, ConcatEmptySeq
    <3> QED BY <3>3, <3>4
  <2> QED BY <1>4, <2>2, <2>3
<1>7. CASE ~ (d.current # None /\ d.pos = 0)
  <2>1. p = d.first /\ d.first # None
    BY <1>7
  <2>2. l # <<>> /\ p = l[1] /\ 1 \in 1 .. Len(l)
    BY <1>1, <1>2, <2>1, EmptySeq DEF IsList
  <2>3. p \in Uses(d, l) /\ s \in File[h[p].frame].to /\ h[p].frame \in Frames
    BY <1>3, <2>2 DEF Uses, StreamOK, FramesKnown
  <2>4. ASSUME File[h[p].frame].size > 0 PROVE Begins(r \o c, h[p].frame)
    <3> DEFINE b == BytesOf(h[p].frame, 0)  e == Content(h, Tail(l))
    <3>1. c = b \o e /\ e \in Seq(Bytes)
      BY <1>3, <2>2, ContentTail, ContentType DEF c
    <3>2. b \in Seq(Bytes) /\ Len(b) > 0 /\ b[1] = <<h[p].frame, 1>>
      <4>1. 1 \in 1 .. File[h[p].frame].size
        BY <2>3, <2>4, FileType
      <4> QED BY <2>3, <2>4, <4>1, WholeFrame
    <3> HIDE DEF b, e
    <3>3. Len(c) > 0 /\ c[1] = <<h[p].frame, 1>>
      BY <3>1, <3>2, ConcatProperties
    <3>4. \A j \in 1 .. Len(r) : r[j][2] # 1
      <4>1. CASE d.pos < d.size
        <5>1. d.pos >= 1
          BY <1>2, <1>5, <1>7, <4>1
        <5>2. ASSUME NEW j \in 1 .. Len(r) PROVE r[j][2] # 1
          <6>1. r[j] = <<h[d.buffer].frame, d.pos + j>>
            BY <1>5, <4>1
          <6>2. d.pos + j # 1
            BY <1>2, <5>1
          <6> QED BY <6>1, <6>2
        <5> QED BY <5>2
      <4>2. CASE ~ (d.pos < d.size)
        BY <4>2, EmptySeq DEF r, Rest
      <4> QED BY <4>1, <4>2
    <3> QED BY <1>3, <3>3, <3>4, BeginsAfter
  <2> QED BY <1>4, <2>3, <2>4
<1> QED BY <1>6, <1>7

\* What the last call answered is true.
Told ==
  /\ answer.op = "pattern" => Stopped(given[Video], answer, call.left)
  /\ answer.op = "pts" => /\ call.s \in File[answer.frame].to
                          /\ File[answer.frame].size > 0 => Begins(AheadOf(heap, ds, call.s), answer.frame)

LEMMA FailsTells == ASSUME Inv, FillFails PROVE Told'
<1>1. /\ pc = "fill" /\ given' = given /\ call' = call
      /\ answer' = IF call.op = "pattern" THEN [op |-> "pattern", found |-> FALSE, n |-> call.total] ELSE NoAnswer
  BY DEF FillFails, history
<1>2. CASE call.op = "pattern"
  <2> DEFINE g == given[Video]
  <2>1. /\ g \in Seq(Bytes) /\ Len(g) \in Nat /\ call.total \in Nat /\ call.total <= Len(g)
        /\ NoCode(g, call.total)
    BY <1>1, <1>2 DEF Inv, Scanning, MemInv, Typed, CallRecords, Streams
  <2>2. answer'.op = "pattern" /\ answer'.n = call.total /\ answer'.found = FALSE
    BY <1>1, <1>2
  <2> HIDE DEF g
  <2>3. answer'.n \in 0 .. Len(g) /\ Stops(g, answer', call.left)
    BY <2>1, <2>2 DEF Stops, NoCode
  <2>4. Stopped(g, answer', call.left)
    BY <2>1, <2>3, StopsIs
  <2> QED BY <1>1, <2>2, <2>4 DEF Told, g
<1>3. CASE call.op # "pattern"
  BY <1>1, <1>3 DEF Told, NoAnswer
<1> QED BY <1>2, <1>3

LEMMA PtsTells == ASSUME Inv, GivePts PROVE Told'
<1> DEFINE s == call.s  d == ds[s]  L == Lists(heap, ds)
           p == IF d.current # None /\ d.pos = 0 THEN d.current ELSE d.first
<1>1. /\ heap' = heap /\ ds' = ds /\ call' = call /\ answer' = [op |-> "pts", frame |-> heap[p].frame]
      /\ d.first # None \/ (d.current # None /\ d.pos = 0)
  BY DEF GivePts, Unread, D, S, memory
<1>2. s \in Streams /\ MemOK(heap, ds, L, lost)
  BY DEF Inv, MemInv, MemoryTrue, Typed, CallRecords
<1>3. HeapOK(heap, Held(ds, L) \cup lost) /\ StreamOK(heap, s, d, L[s])
  BY <1>2 DEF MemOK
<1>4. answer'.op = "pts" /\ answer'.frame = heap[p].frame
  BY <1>1
<1>5. p = IF d.current # None /\ d.pos = 0 THEN d.current ELSE d.first
  OBVIOUS
<1> HIDE DEF p, d, L
<1>6. /\ s \in File[heap[p].frame].to
      /\ File[heap[p].frame].size > 0 => Begins(AheadIn(heap, d, L[s]), heap[p].frame)
  BY <1>1, <1>3, <1>5, NextBegins
<1>7. AheadOf(heap', ds', s) = AheadIn(heap, d, L[s])
  BY <1>1 DEF AheadOf, d, L
<1> QED BY <1>1, <1>4, <1>6, <1>7 DEF Told

LEMMA NextTells == ASSUME Inv, Told, [Next]_vars PROVE Told'
<1>1. CASE answer' = NoAnswer
  BY <1>1 DEF Told, NoAnswer
<1>2. CASE Scan
  <2>1. StopsAtStartCode' /\ answer'.op # "pts"
    BY <1>2, ScanStep
  <2> QED BY <2>1 DEF StopsAtStartCode, Stopped, Told
<1>3. CASE UNCHANGED vars
  <2>1. answer' = answer /\ given' = given /\ call' = call /\ heap' = heap /\ ds' = ds
    BY <1>3 DEF vars, memory, history
  <2> QED BY <2>1 DEF Told
<1> QED BY <1>1, <1>2, <1>3, FailsTells, PtsTells, NextInv

------------------------------------------------------------------------------
(* The properties of the runs, of every instance.                           *)

\* The inductive invariant holds, and what it says of the memory.
LEMMA Always == Spec => [](Inv /\ Told)
<1>1. Init => Told
  BY DEF Init, Told, NoAnswer
<1>2. Inv /\ Told /\ [Next]_vars => Inv' /\ Told'
  <2>1. Inv /\ UNCHANGED vars => Inv'
    <3> SUFFICES ASSUME Inv, UNCHANGED vars PROVE Inv'
      OBVIOUS
    <3>1. UNCHANGED <<memory, filePos, history, pc, call, answer, given>>
      BY DEF vars, history
    <3>2. MemInv'
      BY <3>1, IdleStep DEF Inv, MemInv, Typed, Filling
    <3> QED BY <3>1, <3>2 DEF Inv, Scanning, Unanswered, NoCode, LastOf, IsCode
  <2> QED BY <2>1, NextInv, NextTells
<1> QED BY <1>1, <1>2, InitInv, PTL DEF Spec

LEMMA QueuesAre ==
  ASSUME Inv, NEW s \in Streams
  PROVE  /\ Queue(s) = Lists(heap, ds)[s] /\ Queued(s) = Content(heap, Queue(s))
         /\ Queue(s) \in Seq(Addresses) /\ Range(Queue(s)) = {Queue(s)[i] : i \in 1 .. Len(Queue(s))}
         /\ StreamOK(heap, s, ds[s], Queue(s)) /\ HeapOK(heap, Held(ds, Lists(heap, ds)) \cup lost)
<1> DEFINE L == Lists(heap, ds)
<1>1. MemOK(heap, ds, L, lost)
  BY DEF Inv, MemInv, MemoryTrue
<1>2. Queue(s) = L[s]
  BY DEF Queue, Lists
<1> HIDE DEF L
<1>3. Queue(s) \in Seq(Addresses) /\ StreamOK(heap, s, ds[s], Queue(s))
  BY <1>1, <1>2 DEF MemOK
<1>4. HeapOK(heap, Held(ds, L) \cup lost)
  BY <1>1 DEF MemOK
<1>5. Queued(s) = Content(heap, Queue(s))
  BY Zenon DEF Queued, Content
<1>6. Range(Queue(s)) = {Queue(s)[i] : i \in 1 .. Len(Queue(s))}
  BY <1>3 DEF Range
<1> QED BY <1>2, <1>3, <1>4, <1>5, <1>6 DEF L

LEMMA TypesFollow == ASSUME Inv PROVE TypeOK
<1>1. Typed /\ MemOK(heap, ds, Lists(heap, ds), lost)
  BY DEF Inv, MemInv, MemoryTrue
<1>2. DOMAIN heap \subseteq Addresses /\ \A p \in DOMAIN heap : heap[p] \in Packets
  BY <1>1 DEF MemOK, HeapOK, HeapTyped
<1>3. ASSUME NEW s \in Streams
      PROVE  /\ {ds[s].first, ds[s].last, ds[s].current, ds[s].buffer} \subseteq Pointers
             /\ {ds[s].packs, ds[s].bytes} \subseteq Nat
             /\ ds[s].pos \in 0 .. ds[s].size /\ ds[s].eof \in BOOLEAN
  BY <1>1 DEF MemOK, StreamOK, IsReading, StreamRecords
<1>4. lost \subseteq DOMAIN heap
  BY <1>1 DEF MemOK, HeapOK, Counted
<1> QED BY <1>1, <1>2, <1>3, <1>4 DEF TypeOK, Typed, CallRecords

LEMMA ListsFollow == ASSUME Inv PROVE ListsAreTrue
<1> DEFINE L == Lists(heap, ds)
<1>1. MemOK(heap, ds, L, lost)
  BY DEF Inv, MemInv, MemoryTrue
<1>2. ASSUME NEW s \in Streams
      PROVE  /\ ds[s].packs = Len(Queue(s)) /\ ds[s].bytes = Len(Queued(s))
             /\ ds[s].last = IF Queue(s) = <<>> THEN None ELSE Queue(s)[Len(Queue(s))]
             /\ \A i, j \in DOMAIN Queue(s) : Queue(s)[i] = Queue(s)[j] => i = j
  <2> DEFINE q == Queue(s)
  <2>1. IsList(heap, ds[s], q) /\ Queued(s) = Content(heap, q) /\ q \in Seq(Addresses)
    BY QueuesAre DEF StreamOK
  <2>2. DOMAIN q = 1 .. Len(q)
    BY <2>1
  <2> HIDE DEF q
  <2> QED BY <2>1, <2>2 DEF IsList, q
<1>3. ASSUME NEW s \in Streams
      PROVE  Uses(ds[s], L[s]) = Range(Queue(s)) \cup ({ds[s].current} \ {None}) /\ None \notin Range(Queue(s))
             /\ ds[s].current \notin Range(Queue(s))
  <2>1. /\ Queue(s) = L[s] /\ Range(Queue(s)) = {Queue(s)[i] : i \in 1 .. Len(Queue(s))}
        /\ Queue(s) \in Seq(Addresses) /\ \A i \in 1 .. Len(Queue(s)) : ds[s].current # Queue(s)[i]
    BY QueuesAre DEF StreamOK
  <2> HIDE DEF L
  <2>2. \A i \in 1 .. Len(Queue(s)) : Queue(s)[i] # None
    BY <2>1 DEF Addresses
  <2> QED BY <2>1, <2>2 DEF Uses
<1>4. ASSUME NEW s \in Streams, NEW t \in Streams
      PROVE  ds[t].current \notin Range(Queue(s)) /\ (s # t => Range(Queue(t)) \cap Range(Queue(s)) = {})
  <2>1. CASE s = t
    BY <2>1, <1>3
  <2>2. CASE s # t
    <3>1. Uses(ds[s], L[s]) \cap Uses(ds[t], L[t]) = {}
      BY <1>1, <2>2 DEF MemOK
    <3> HIDE DEF L
    <3> QED BY <3>1, <1>3
  <2> QED BY <2>1, <2>2
<1> QED BY <1>2, <1>4 DEF ListsAreTrue

LEMMA MemoryFollows == ASSUME Inv PROVE MemoryIsHeld
<1> DEFINE L == Lists(heap, ds)
<1>1. HeapOK(heap, Held(ds, L) \cup lost)
  <2>1. PICK s : s \in Streams
    BY DEF Streams
  <2> QED BY <2>1, QueuesAre
<1>2. InUse = Held(ds, L)
  <2>1. \A s \in Streams : Range(Queue(s)) \cup ({ds[s].current} \ {None}) = Uses(ds[s], L[s])
    <3> SUFFICES ASSUME NEW s \in Streams PROVE Range(Queue(s)) \cup ({ds[s].current} \ {None}) = Uses(ds[s], L[s])
      OBVIOUS
    <3>1. Queue(s) = L[s] /\ Range(Queue(s)) = {Queue(s)[i] : i \in 1 .. Len(Queue(s))}
      BY QueuesAre
    <3> HIDE DEF L
    <3> QED BY <3>1 DEF Uses
  <2> HIDE DEF L
  <2> QED BY <2>1 DEF InUse, Held
<1>3. ASSUME NEW s \in Streams, ~ (ds[s].pos >= ds[s].size)
      PROVE  ds[s].current # None /\ ds[s].buffer = MasterOf(heap, ds[s].current)
  <2>1. IsReading(heap, ds[s]) /\ ds[s] \in StreamRecords
    BY QueuesAre DEF StreamOK
  <2> QED BY <1>3, <2>1 DEF IsReading, StreamRecords
<1> HIDE DEF L
<1>4. lost \cap InUse = {}
  BY <1>2 DEF Inv, MemInv, MemoryTrue, MemOK, L
<1> DEFINE held == InUse \cup lost
<1>5. ASSUME NEW p \in DOMAIN heap
      PROVE  IF heap[p].master = None
             THEN heap[p].refs = Cardinality(ClonesOf(p)) + Cardinality({p} \cap held) /\ heap[p].refs > 0
             ELSE p \in held /\ heap[p].master \in DOMAIN heap
  <2>1. Cardinality({p} \cap held) = IF p \in held THEN 1 ELSE 0
    <3>1. CASE p \in held
      <4>1. {p} \cap held = {p}
        BY <3>1
      <4> QED BY <3>1, <4>1, FS_Singleton
    <3>2. CASE p \notin held
      <4>1. {p} \cap held = {}
        BY <3>2
      <4> QED BY <3>2, <4>1, FS_EmptySet
    <3> QED BY <3>1, <3>2
  <2>2. ClonesOf(p) = Clones(heap, p)
    BY Zenon DEF ClonesOf, Clones
  <2>3. held = Held(ds, L) \cup lost
    BY <1>2
  <2> HIDE DEF held
  <2> QED BY <1>1, <2>1, <2>2, <2>3 DEF HeapOK, Counted
<1>6. held \subseteq DOMAIN heap
  BY <1>1, <1>2 DEF HeapOK, Counted
<1> QED BY <1>3, <1>4, <1>5, <1>6 DEF MemoryIsHeld

LEMMA AheadFollows == ASSUME Inv, NEW s \in Streams PROVE Ahead(s) = AheadOf(heap, ds, s)
<1>1. Queue(s) = Lists(heap, ds)[s] /\ Queued(s) = Content(heap, Queue(s))
  BY QueuesAre
<1> QED BY <1>1, Zenon DEF Ahead, AheadOf, AheadIn, Rest

LEMMA GivenFollows == ASSUME Inv PROVE NothingLostOrTwice
<1>1. ASSUME NEW s \in Streams PROVE Demuxed(s) = Between(s, since[s], filePos)
  <2>1. [i \in 1 .. filePos - since[s] |->
            IF s \in File[since[s] + i - 1].to THEN BytesOf(since[s] + i - 1, 0) ELSE <<>>]
        = Parts(s, since[s], filePos)
    BY Zenon DEF Parts, Part
  <2> QED BY <2>1, Zenon DEF Demuxed, Between
<1>2. \A s \in Streams : given[s] \o AheadOf(heap, ds, s) = Between(s, since[s], filePos)
  BY DEF Inv, MemInv, GivenTrue
<1> QED BY <1>1, <1>2, AheadFollows, Zenon DEF NothingLostOrTwice

LEMMA AnswersFollow == ASSUME Inv, Told PROVE StopsAtStartCode /\ PtsIsNext
<1>1. StopsAtStartCode
  BY DEF Told, Stopped, StopsAtStartCode
<1>2. PtsIsNext
  <2> SUFFICES ASSUME answer.op = "pts"
               PROVE  /\ call.s \in File[answer.frame].to
                      /\ File[answer.frame].size > 0 => Begins(Ahead(call.s), answer.frame)
    BY Zenon DEF PtsIsNext, Begins
  <2>1. call.s \in Streams
    BY DEF Inv, MemInv, Typed, CallRecords
  <2> QED BY <2>1, AheadFollows DEF Told
<1> QED BY <1>1, <1>2

\* Whatever is read, packets, streams and calls are what the code declares, and no stream reads past
\* the end of its packet.
THEOREM QueueTypes == Spec => []TypeOK
BY Always, TypesFollow, PTL

\* ds_add_packet and ds_fill_buffer: packs, bytes and last of each stream agree with the packets
\* linked from first, and no packet is queued twice or read while it is queued, however long the
\* queues are.
THEOREM QueueLists == Spec => []ListsAreTrue
BY Always, ListsFollow, PTL

\* free_demux_packet, clone_demux_packet: the reference counts are right after any calls, so nothing
\* that is in use is freed, and nothing leaks but the packets demux_rawdv leaves behind at the end
\* of the file.
THEOREM QueueMemory == Spec => []MemoryIsHeld
BY Always, MemoryFollows, PTL

\* The readers of each stream are given the bytes the demuxer read for it, each once and in order,
\* over packets of any sizes and calls in any mixture.
THEOREM QueueBytes == Spec => []NothingLostOrTwice
BY Always, GivenFollows, PTL

\* demux_pattern_3 passes over no start code, and ends at the one it says it found.
THEOREM PatternStops == Spec => []StopsAtStartCode
BY Always, AnswersFollow, PTL

\* ds_get_next_pts tells the time of the packet the reader begins next.
THEOREM PtsOfNext == Spec => []PtsIsNext
BY Always, AnswersFollow, PTL
=============================================================================
