-------------------------- MODULE FlatteningTheorems --------------------------
(***************************************************************************)
(* Induction over the numbers, and sequences joined by FlattenSeq.         *)
(***************************************************************************)
EXTENDS Integers, SequencesExt, TLAPS, WellFoundedInduction, FiniteSetTheorems, SequenceTheorems

------------------------------------------------------------------------------
(* Numbers.                                                                 *)

\* Of some numbers one is the least: the intervals up to them are ordered by inclusion, which is
\* well founded on finite sets.
LEMMA Least == ASSUME NEW T \in SUBSET Nat, T # {} PROVE \E m \in T : \A k \in T : m <= k
<1> DEFINE U == {V \in FiniteSubsetsOf(Nat) : \E k \in T : V = 0 .. k}
<1>0. \A k \in T : 0 .. k \in U
  BY FS_Interval DEF FiniteSubsetsOf
<1>1. U \subseteq FiniteSubsetsOf(Nat) /\ U # {}
  BY <1>0
<1> HIDE DEF U
<1>2. PICK V \in U : \A W \in U : ~ (<<W, V>> \in StrictSubsetOrdering(Nat))
  BY <1>1, FS_StrictSubsetOrderingWellFounded, WFMin
<1>3. PICK m \in T : V = 0 .. m
  BY DEF U
<1>4. ASSUME NEW k \in T, k < m PROVE FALSE
  <2>1. 0 .. k \in SUBSET Nat /\ 0 .. m \in SUBSET Nat /\ 0 .. k \subseteq 0 .. m
        /\ m \in 0 .. m /\ m \notin 0 .. k
    BY <1>4
  <2>2. <<0 .. k, V>> \in StrictSubsetOrdering(Nat)
    BY <2>1, <1>3, <1>0 DEF StrictSubsetOrdering
  <2> QED BY <1>0, <1>2, <2>2
<1> QED BY <1>4

\* Induction up to n, as a fact about the set of the numbers a property holds of.
LEMMA Induction ==
  ASSUME NEW n \in Nat, NEW T, 0 \in T, \A i \in 0 .. n - 1 : i \in T => i + 1 \in T
  PROVE  \A i \in 0 .. n : i \in T
<1> DEFINE Bad == {i \in 0 .. n : i \notin T}
<1> SUFFICES ASSUME Bad # {} PROVE FALSE
  OBVIOUS
<1>1. PICK m \in Bad : \A k \in Bad : m <= k
  <2>1. Bad \in SUBSET Nat
    OBVIOUS
  <2> QED BY <2>1, Least
<1>2. m \in 0 .. n /\ m \notin T /\ m # 0 /\ m - 1 \in 0 .. n - 1 /\ m - 1 \in 0 .. n /\ m = (m - 1) + 1
  OBVIOUS
<1>3. m - 1 \in T
  <2>1. ~ (m <= m - 1)
    BY <1>2
  <2> QED BY <1>1, <1>2, <2>1
<1> QED BY <1>2, <1>3

------------------------------------------------------------------------------
(* Sequences of sequences, joined.                                          *)

IsJoining(ss, upTo) ==
  upTo = [n \in 0 .. Len(ss) |-> IF n = 0 THEN <<>> ELSE upTo[n - 1] \o ss[n]]

\* The recursion of Joined has a solution.
LEMMA JoiningExists == ASSUME NEW ss, Len(ss) \in Nat PROVE \E upTo : IsJoining(ss, upTo)
<1> DEFINE T == {k \in Nat : \E g : g = [n \in 0 .. k |-> IF n = 0 THEN <<>> ELSE g[n - 1] \o ss[n]]}
<1>1. 0 \in T
  <2> DEFINE g == [n \in 0 .. 0 |-> <<>>]
  <2>1. g = [n \in 0 .. 0 |-> IF n = 0 THEN <<>> ELSE g[n - 1] \o ss[n]]
    OBVIOUS
  <2> QED BY <2>1
<1>2. ASSUME NEW k \in 0 .. Len(ss) - 1, k \in T PROVE k + 1 \in T
  <2>1. PICK g : g = [n \in 0 .. k |-> IF n = 0 THEN <<>> ELSE g[n - 1] \o ss[n]]
    BY <1>2
  <2> DEFINE f == [n \in 0 .. k + 1 |-> IF n <= k THEN g[n] ELSE g[k] \o ss[k + 1]]
  <2>2. ASSUME NEW n \in 0 .. k + 1 PROVE f[n] = IF n = 0 THEN <<>> ELSE f[n - 1] \o ss[n]
    <3>1. CASE n <= k
      BY <3>1, <2>1
    <3>2. CASE ~ (n <= k)
      BY <3>2
    <3> QED BY <3>1, <3>2
  <2>3. f = [n \in 0 .. k + 1 |-> IF n = 0 THEN <<>> ELSE f[n - 1] \o ss[n]]
    BY <2>2
  <2> HIDE DEF f
  <2> QED BY <2>3
<1>3. Len(ss) \in T
  <2> HIDE DEF T
  <2>1. \A k \in 0 .. Len(ss) - 1 : k \in T => k + 1 \in T
    BY <1>2
  <2>2. \A k \in 0 .. Len(ss) : k \in T
    BY <1>1, <2>1, Induction
  <2> QED BY <2>2
<1> QED BY <1>3 DEF IsJoining

LEMMA JoiningStep ==
  ASSUME NEW ss, Len(ss) \in Nat, NEW a, IsJoining(ss, a)
  PROVE  a[0] = <<>> /\ \A n \in 0 .. Len(ss) - 1 : a[n + 1] = a[n] \o ss[n + 1]
<1>1. a[0] = <<>>
  BY DEF IsJoining
<1>2. ASSUME NEW n \in 0 .. Len(ss) - 1 PROVE a[n + 1] = a[n] \o ss[n + 1]
  <2>1. n + 1 \in 0 .. Len(ss) /\ n + 1 # 0 /\ (n + 1) - 1 = n
    OBVIOUS
  <2> DEFINE m == n + 1
  <2>2. m \in 0 .. Len(ss) /\ m # 0
    BY <2>1
  <2> HIDE DEF m
  <2>3. a[m] = a[m - 1] \o ss[m]
    BY <2>2 DEF IsJoining
  <2> QED BY <2>1, <2>3 DEF m
<1> QED BY <1>1, <1>2

\* So what FlattenSeq has joined before each n is known, and it returns the last of it.
LEMMA FlatDef ==
  ASSUME NEW A, NEW ss \in Seq(Seq(A))
  PROVE  \E upTo : IsJoining(ss, upTo) /\ FlattenSeq(ss) = upTo[Len(ss)]
<1>1. Len(ss) \in Nat /\ \A i \in 1 .. Len(ss) : ss[i] \in Seq(A)
  OBVIOUS
<1>2. CASE Len(ss) = 0
  <2> DEFINE u == [n \in 0 .. 0 |-> <<>>]
  <2>1. ss = <<>> /\ FlattenSeq(ss) = <<>>
    BY <1>2 DEF FlattenSeq
  <2>2. IsJoining(ss, u) /\ u[Len(ss)] = <<>>
    BY <1>2 DEF IsJoining
  <2> QED BY <2>1, <2>2
<1>3. CASE Len(ss) # 0
  <2> DEFINE Is(f) == f = [i \in 1 .. Len(ss) |-> IF i = 1 THEN ss[i] ELSE f[i - 1] \o ss[i]]
             flatten == CHOOSE f : Is(f)
             upTo == [n \in 0 .. Len(ss) |-> IF n = 0 THEN <<>> ELSE flatten[n]]
  <2>1. FlattenSeq(ss) = flatten[Len(ss)]
    BY <1>3 DEF FlattenSeq
  <2>2. Is(flatten)
    <3>1. PICK u : IsJoining(ss, u)
      BY <1>1, JoiningExists
    <3>2. u[0] = <<>> /\ \A n \in 0 .. Len(ss) - 1 : u[n + 1] = u[n] \o ss[n + 1]
      BY <1>1, <3>1, JoiningStep
    <3> DEFINE f == [i \in 1 .. Len(ss) |-> u[i]]
    <3>3. ASSUME NEW i \in 1 .. Len(ss) PROVE f[i] = IF i = 1 THEN ss[i] ELSE f[i - 1] \o ss[i]
      <4>1. i - 1 \in 0 .. Len(ss) - 1 /\ (i - 1) + 1 = i
        BY <1>1
      <4>2. u[i] = u[i - 1] \o ss[i]
        <5>1. u[(i - 1) + 1] = u[i - 1] \o ss[(i - 1) + 1]
          BY <3>2, <4>1, Zenon
        <5> QED BY <4>1, <5>1, Zenon
      <4>3. CASE i = 1
        <5>1. u[i - 1] = <<>>
          BY <3>2, <4>3
        <5>2. <<>> \o ss[i] = ss[i]
          BY <1>1, ConcatEmptySeq
        <5> QED BY <4>2, <4>3, <5>1, <5>2
      <4>4. CASE i # 1
        <5>1. i - 1 \in 1 .. Len(ss)
          BY <4>4
        <5> QED BY <4>2, <4>4, <5>1
      <4> QED BY <4>3, <4>4
    <3>4. Is(f)
      BY <3>3
    <3> QED BY <3>4
  <2> HIDE DEF flatten
  <2>3. \A i \in 1 .. Len(ss) : flatten[i] = IF i = 1 THEN ss[i] ELSE flatten[i - 1] \o ss[i]
    BY <2>2
  <2>4. ASSUME NEW n \in 0 .. Len(ss) PROVE upTo[n] = IF n = 0 THEN <<>> ELSE upTo[n - 1] \o ss[n]
    <3>1. CASE n = 1
      <4>1. <<>> \o ss[n] = ss[n]
        BY <1>1, <1>3, <3>1, ConcatEmptySeq
      <4>2. upTo[n] = ss[n] /\ upTo[n - 1] = <<>>
        BY <1>1, <1>3, <2>3, <3>1
      <4> QED BY <3>1, <4>1, <4>2
    <3>2. CASE n > 1
      <4>1. n \in 1 .. Len(ss) /\ n - 1 \in 1 .. Len(ss)
        BY <1>1, <3>2
      <4> QED BY <2>3, <3>2, <4>1
    <3>3. CASE n = 0
      BY <3>3
    <3> QED BY <3>1, <3>2, <3>3
  <2>5. IsJoining(ss, upTo)
    BY <2>4 DEF IsJoining
  <2>6. upTo[Len(ss)] = flatten[Len(ss)]
    BY <1>1, <1>3
  <2> QED BY <2>1, <2>5, <2>6
<1> QED BY <1>2, <1>3

\* Two solutions agree as far as both go, when they join the same.
LEMMA JoiningUnique ==
  ASSUME NEW ss, NEW tt, Len(ss) \in Nat, Len(tt) \in Nat, NEW a, NEW b, IsJoining(ss, a), IsJoining(tt, b),
         NEW k \in Nat, k <= Len(ss), k <= Len(tt), \A n \in 1 .. k : ss[n] = tt[n]
  PROVE  a[k] = b[k]
<1> DEFINE T == {n \in Nat : a[n] = b[n]}
<1>a. a[0] = <<>> /\ \A n \in 0 .. Len(ss) - 1 : a[n + 1] = a[n] \o ss[n + 1]
  BY JoiningStep
<1>b. b[0] = <<>> /\ \A n \in 0 .. Len(tt) - 1 : b[n + 1] = b[n] \o tt[n + 1]
  BY JoiningStep
<1>1. 0 \in T
  BY <1>a, <1>b
<1>2. ASSUME NEW n \in 0 .. k - 1, n \in T PROVE n + 1 \in T
  <2>0. n \in 0 .. Len(ss) - 1 /\ n \in 0 .. Len(tt) - 1
    OBVIOUS
  <2>1. a[n + 1] = a[n] \o ss[n + 1] /\ b[n + 1] = b[n] \o tt[n + 1]
    BY <1>a, <1>b, <2>0, Zenon
  <2>2. ss[n + 1] = tt[n + 1]
    OBVIOUS
  <2>3. a[n] = b[n] /\ n + 1 \in Nat
    BY <1>2
  <2>4. a[n + 1] = b[n + 1]
    BY <2>1, <2>2, <2>3, Zenon
  <2> QED BY <2>3, <2>4
<1> HIDE DEF T
<1>3. \A n \in 0 .. k - 1 : n \in T => n + 1 \in T
  BY <1>2
<1>4. \A n \in 0 .. k : n \in T
  BY <1>1, <1>3, Induction
<1> QED BY <1>4 DEF T

LEMMA FlatEmpty == FlattenSeq(<<>>) = <<>>
BY DEF FlattenSeq

LEMMA FlatAppend ==
  ASSUME NEW A, NEW ss \in Seq(Seq(A)), NEW x \in Seq(A)
  PROVE  FlattenSeq(Append(ss, x)) = FlattenSeq(ss) \o x
<1> DEFINE tt == Append(ss, x)  len == Len(ss)
<1>1. len \in Nat /\ Len(tt) \in Nat /\ len \in 0 .. Len(tt) - 1 /\ len <= Len(tt) /\ len <= len
      /\ Len(tt) = len + 1 /\ tt[len + 1] = x /\ \A n \in 1 .. len : tt[n] = ss[n]
  OBVIOUS
<1>0. tt \in Seq(Seq(A))
  BY AppendProperties
<1> HIDE DEF tt, len
<1>2. PICK a : IsJoining(ss, a) /\ FlattenSeq(ss) = a[len]
  BY <1>1, FlatDef, Zenon DEF len
<1>3. PICK b : IsJoining(tt, b) /\ FlattenSeq(tt) = b[Len(tt)]
  BY <1>0, FlatDef, Zenon
<1>4. b[len] = a[len]
  <2>1. Len(ss) \in Nat /\ Len(tt) \in Nat /\ len \in Nat /\ len <= Len(ss) /\ len <= Len(tt)
    BY <1>1 DEF len
  <2>2. \A n \in 1 .. len : tt[n] = ss[n]
    BY <1>1
  <2> QED BY <1>2, <1>3, <2>1, <2>2, JoiningUnique
<1>5. b[len + 1] = b[len] \o tt[len + 1]
  BY <1>1, <1>3, JoiningStep, Zenon
<1> QED BY <1>1, <1>2, <1>3, <1>4, <1>5, Zenon DEF tt

\* What is joined is a sequence of the members of the parts.
LEMMA FlatType ==
  ASSUME NEW A, NEW ss \in Seq(Seq(A))
  PROVE  FlattenSeq(ss) \in Seq(A)
<1>0. Len(ss) \in Nat
  OBVIOUS
<1>1. PICK a : IsJoining(ss, a) /\ FlattenSeq(ss) = a[Len(ss)]
  BY <1>0, FlatDef, Zenon
<1>2. a[0] = <<>> /\ \A n \in 0 .. Len(ss) - 1 : a[n + 1] = a[n] \o ss[n + 1]
  BY <1>0, <1>1, JoiningStep, Zenon
<1> DEFINE T == {n \in Nat : a[n] \in Seq(A)}
<1>3. 0 \in T
  BY <1>2, EmptySeq
<1>4. ASSUME NEW n \in 0 .. Len(ss) - 1, n \in T PROVE n + 1 \in T
  <2>1. ss[n + 1] \in Seq(A) /\ n + 1 \in Nat /\ a[n] \in Seq(A)
    BY <1>4
  <2>2. a[n + 1] = a[n] \o ss[n + 1]
    BY <1>2, Zenon
  <2>3. a[n + 1] \in Seq(A)
    BY <2>1, <2>2, ConcatProperties, Zenon
  <2> QED BY <2>1, <2>3
<1> HIDE DEF T
<1>5. \A n \in 0 .. Len(ss) - 1 : n \in T => n + 1 \in T
  BY <1>4
<1>6. \A n \in 0 .. Len(ss) : n \in T
  BY <1>0, <1>3, <1>5, Induction, Zenon
<1>7. a[Len(ss)] \in Seq(A)
  BY <1>0, <1>6 DEF T
<1> QED BY <1>1, <1>7

\* The first part comes first.
LEMMA FlatTail ==
  ASSUME NEW A, NEW ss \in Seq(Seq(A)), ss # <<>>
  PROVE  FlattenSeq(ss) = ss[1] \o FlattenSeq(Tail(ss))
<1> DEFINE tt == Tail(ss)  len == Len(tt)
<1>1. Len(ss) \in Nat /\ len \in Nat /\ Len(ss) = len + 1 /\ ss[1] \in Seq(A)
      /\ \A n \in 1 .. len : tt[n] = ss[n + 1] /\ tt[n] \in Seq(A)
  OBVIOUS
<1>0. tt \in Seq(Seq(A))
  OBVIOUS
<1> HIDE DEF tt, len
<1>2. PICK a : IsJoining(ss, a) /\ FlattenSeq(ss) = a[len + 1]
  BY <1>1, FlatDef, Zenon
<1>3. PICK b : IsJoining(tt, b) /\ FlattenSeq(tt) = b[len]
  BY <1>0, FlatDef, Zenon DEF len
<1>a. a[0] = <<>> /\ \A n \in 0 .. Len(ss) - 1 : a[n + 1] = a[n] \o ss[n + 1]
  BY <1>1, <1>2, JoiningStep, Zenon
<1>b. b[0] = <<>> /\ \A n \in 0 .. len - 1 : b[n + 1] = b[n] \o tt[n + 1]
  BY <1>1, <1>3, JoiningStep, Zenon DEF len
<1> DEFINE T == {n \in Nat : b[n] \in Seq(A) /\ a[n + 1] = ss[1] \o b[n]}
<1>5. 0 \in T
  <2>1. 0 \in 0 .. Len(ss) - 1 /\ 0 + 1 = 1
    BY <1>1
  <2>2. a[0 + 1] = <<>> \o ss[1]
    BY <1>a, <2>1, Zenon
  <2>3. <<>> \o ss[1] = ss[1] \o <<>> /\ <<>> \in Seq(A)
    BY <1>1, ConcatEmptySeq, EmptySeq
  <2> QED BY <2>2, <2>3, <1>b
<1>6. ASSUME NEW n \in 0 .. len - 1, n \in T PROVE n + 1 \in T
  <2>0. n + 1 \in 0 .. Len(ss) - 1 /\ n + 1 \in Nat /\ n + 1 \in 1 .. len
    BY <1>1
  <2>1. b[n] \in Seq(A) /\ a[n + 1] = ss[1] \o b[n]
    BY <1>6
  <2>2. b[n + 1] = b[n] \o tt[n + 1] /\ tt[n + 1] \in Seq(A) /\ tt[n + 1] = ss[(n + 1) + 1]
    BY <1>1, <1>b, <2>0, Zenon
  <2>3. a[(n + 1) + 1] = a[n + 1] \o ss[(n + 1) + 1]
    BY <1>a, <2>0, Zenon
  <2>4. (ss[1] \o b[n]) \o tt[n + 1] = ss[1] \o (b[n] \o tt[n + 1])
    <3> DEFINE x == ss[1]  y == b[n]  z == tt[n + 1]
    <3>1. x \in Seq(A) /\ y \in Seq(A) /\ z \in Seq(A)
      BY <1>1, <2>1, <2>2
    <3> HIDE DEF x, y, z
    <3>2. (x \o y) \o z = x \o (y \o z)
      BY <3>1, SMTT(30)
    <3> QED BY <3>2 DEF x, y, z
  <2>5. a[(n + 1) + 1] = ss[1] \o b[n + 1]
    BY <2>1, <2>2, <2>3, <2>4, Zenon
  <2>6. b[n + 1] \in Seq(A)
    BY <2>1, <2>2, ConcatProperties, Zenon
  <2> QED BY <2>0, <2>5, <2>6
<1> HIDE DEF T
<1>7. \A n \in 0 .. len - 1 : n \in T => n + 1 \in T
  BY <1>6
<1>8. \A n \in 0 .. len : n \in T
  BY <1>1, <1>5, <1>7, Induction, Zenon
<1>9. a[len + 1] = ss[1] \o b[len]
  <2>1. len \in 0 .. len
    BY <1>1
  <2>2. len \in T
    BY <1>8, <2>1, Zenon
  <2> QED BY <2>2, Zenon DEF T
<1> QED BY <1>2, <1>3, <1>9, Zenon DEF tt
=============================================================================
