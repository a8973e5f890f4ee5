---------------------------- MODULE PlayTree_proofs ----------------------------
(***************************************************************************)
(* Theorems about the stack of option values and about the iterator of the *)
(* play tree, for any tree, options and commands.                          *)
(***************************************************************************)
EXTENDS PlayTree, FlatteningTheorems

------------------------------------------------------------------------------
(* A level of options, from the push to the pop.                            *)

\* A configuration: slots for the default and the general level, and none above its level.
WellFormed(c) ==
  /\ c.lvl \in Nat \ {0}
  /\ \A o \in Options : 1 \in Levels(c, o) /\ Levels(c, o) \subseteq 0 .. c.lvl

\* c is a level begun on c0, whatever has been set in it by the options' own names or written
\* to the variables since: below it nothing has changed but that the slot that was in use
\* holds the value of the variable.
LevelOn(c0, c) ==
  /\ c.lvl = c0.lvl + 1
  /\ \A o \in Options \ OldOptions :
       /\ Levels(c, o) = Levels(c0, o) \cup {c.lvl}
       /\ \A l \in Levels(c0, o) : c.saved[o][l] = IF l = Top(c0, o) THEN c0.var[o] ELSE c0.saved[o][l]

\* The highest of some levels.
LEMMA HighestIs ==
  ASSUME NEW S \in SUBSET Int, NEW m \in S, \A k \in S : k <= m
  PROVE  Highest(S) = m
<1>1. \E l \in S : \A k \in S : k <= l
  OBVIOUS
<1>2. Highest(S) \in S /\ \A k \in S : k <= Highest(S)
  BY <1>1 DEF Highest
<1>3. Highest(S) \in Int /\ m \in Int /\ m <= Highest(S) /\ Highest(S) <= m
  BY <1>2
<1> QED
  BY <1>3

\* Levels are bounded, so there is a highest one.
LEMMA BoundedHasHighest ==
  ASSUME NEW n \in Nat, NEW S \in SUBSET (0 .. n), S # {}
  PROVE  Highest(S) \in S /\ \A k \in S : k <= Highest(S)
<1> DEFINE below == {n - l : l \in S}
<1>1. \A l \in S : n - l \in below /\ n - l \in Nat
  OBVIOUS
<1>2. \A x \in below : \E l \in S : x = n - l
  OBVIOUS
<1> HIDE DEF below
<1>3. below \subseteq Nat /\ below # {}
  BY <1>1, <1>2
<1>4. PICK x \in below : \A y \in below : ~(<<y, x>> \in OpToRel(<, Nat))
  BY <1>3, NatLessThanWellFounded, WFMin
<1>5. ASSUME NEW y \in below PROVE x <= y
  <2>1. x \in Nat /\ y \in Nat /\ ~(y < x)
    BY <1>3, <1>4 DEF OpToRel
  <2> QED
    BY <2>1
<1>6. PICK m \in S : x = n - m
  BY <1>2
<1>7. ASSUME NEW k \in S PROVE k <= m
  <2>1. n - m <= n - k /\ m \in Int /\ k \in Int
    BY <1>1, <1>5, <1>6
  <2> QED
    BY <2>1
<1> QED
  BY <1>7, HighestIs

LEMMA PushBegins ==
  ASSUME NEW c, WellFormed(c)
  PROVE  LevelOn(c, Push(c))
<1>1. Push(c).lvl = c.lvl + 1 /\ c.lvl \in Nat
  BY DEF Push, WellFormed
<1>2. ASSUME NEW o \in Options \ OldOptions
      PROVE  /\ Levels(Push(c), o) = Levels(c, o) \cup {c.lvl + 1}
             /\ \A l \in Levels(c, o) : Push(c).saved[o][l] = IF l = Top(c, o) THEN c.var[o] ELSE c.saved[o][l]
  <2>1. Push(c).saved[o] = [l \in Levels(c, o) \cup {c.lvl + 1} |->
                              IF l \in {Top(c, o), c.lvl + 1} THEN c.var[o] ELSE c.saved[o][l]]
    BY DEF Push
  <2>2. \A l \in Levels(c, o) : l # c.lvl + 1
    BY DEF WellFormed
  <2> QED
    BY <2>1, <2>2 DEF Levels
<1> QED
  BY <1>1, <1>2 DEF LevelOn

LEMMA WriteKeeps ==
  ASSUME NEW c0, NEW c, LevelOn(c0, c), NEW o, NEW value
  PROVE  LevelOn(c0, WriteVariable(c, o, value))
<1>1. WriteVariable(c, o, value).lvl = c.lvl /\ WriteVariable(c, o, value).saved = c.saved
  BY DEF WriteVariable
<1> QED
  BY <1>1 DEF LevelOn, Levels

\* The slot in use is that of the level.
LEMMA TopOfLevel ==
  ASSUME NEW c0, WellFormed(c0), NEW c, LevelOn(c0, c), NEW o \in Options \ OldOptions
  PROVE  Top(c, o) = c.lvl /\ c.lvl \notin Levels(c0, o)
<1>1. c.lvl = c0.lvl + 1 /\ c0.lvl \in Nat /\ Levels(c0, o) \subseteq 0 .. c0.lvl /\ Levels(c, o) = Levels(c0, o) \cup {c.lvl}
  BY DEF LevelOn, WellFormed
<1>2. Levels(c, o) \in SUBSET Int /\ c.lvl \in Levels(c, o) /\ \A k \in Levels(c, o) : k <= c.lvl
  BY <1>1
<1>3. c.lvl \notin Levels(c0, o)
  BY <1>1
<1> QED
  BY <1>2, <1>3, HighestIs DEF Top

\* Options set by their own names go into the slots of the level.
LEMMA SetKeeps ==
  ASSUME NEW c0, WellFormed(c0), NEW c, LevelOn(c0, c), NEW params, \A i \in 1 .. Len(params) : params[i][1] \notin Aliases
  PROVE  LevelOn(c0, SetOptions(c, params))
<1> DEFINE s == SetOptions(c, params)
<1>1. s.lvl = c.lvl
  BY DEF SetOptions
<1>2. ASSUME NEW o \in Options \ OldOptions
      PROVE  Levels(s, o) = Levels(c, o) /\ \A l \in Levels(c0, o) : s.saved[o][l] = c.saved[o][l]
  <2>1. Levels(s, o) = Levels(c, o)
    BY DEF SetOptions, Levels
  <2>2. Top(c, o) \notin Levels(c0, o) /\ Levels(c0, o) \subseteq Levels(c, o)
    BY TopOfLevel DEF LevelOn
  <2>3. ASSUME NEW l \in Levels(c0, o)
        PROVE  {i \in 1 .. Len(params) : Variable(params[i][1]) = o /\ Slot(c, params[i][1]) = l} = {}
    BY <2>2, <2>3 DEF Variable, Slot
  <2> QED
    BY <2>1, <2>2, <2>3 DEF SetOptions, Levels
<1> QED
  BY <1>1, <1>2 DEF LevelOn

\* What a level leaves when it is popped: the general options as they were, and the level below
\* as it was.  Old options and those set by an alias are the exceptions.
THEOREM PopRestores ==
  ASSUME NEW c0, WellFormed(c0), NEW c, LevelOn(c0, c)
  PROVE  /\ Pop(c).lvl = c0.lvl
         /\ \A o \in Options \ OldOptions :
              /\ Pop(c).var[o] = c0.var[o] /\ Levels(Pop(c), o) = Levels(c0, o)
              /\ \A l \in Levels(c0, o) : Pop(c).saved[o][l] = IF l = Top(c0, o) THEN c0.var[o] ELSE c0.saved[o][l]
<1>1. Pop(c).lvl = c0.lvl
  BY DEF Pop, LevelOn, WellFormed
<1>2. ASSUME NEW o \in Options \ OldOptions
      PROVE  /\ Pop(c).var[o] = c0.var[o] /\ Levels(Pop(c), o) = Levels(c0, o)
             /\ \A l \in Levels(c0, o) : Pop(c).saved[o][l] = c.saved[o][l]
  <2> DEFINE kept == {l \in Levels(c, o) : l < c.lvl}
  <2>1. c.lvl = c0.lvl + 1 /\ c0.lvl \in Nat /\ Levels(c0, o) \subseteq 0 .. c0.lvl /\ Levels(c, o) = Levels(c0, o) \cup {c.lvl}
        /\ 1 \in Levels(c0, o)
    BY DEF LevelOn, WellFormed
  <2>2. kept = Levels(c0, o) /\ kept # Levels(c, o)
    BY <2>1
  <2>3. Pop(c).saved[o] = [l \in kept |-> c.saved[o][l]] /\ Pop(c).var[o] = c.saved[o][Highest(kept)]
    BY <2>2 DEF Pop
  <2>4. Top(c0, o) \in Levels(c0, o)
    BY <2>1, BoundedHasHighest DEF Top
  <2> QED
    BY <2>2, <2>3, <2>4 DEF Levels, LevelOn, Top
<1> QED
  BY <1>1, <1>2 DEF LevelOn

\* So levels nest: a level stays one while levels on it come and go.
LEMMA LevelsNest ==
  ASSUME NEW c0, WellFormed(c0), NEW c, WellFormed(c), LevelOn(c0, c), NEW inner, LevelOn(c, inner)
  PROVE  LevelOn(c0, Pop(inner))
<1>1. Pop(inner).lvl = c.lvl
  BY PopRestores
<1>2. ASSUME NEW o \in Options \ OldOptions
      PROVE  /\ Levels(Pop(inner), o) = Levels(c, o)
             /\ \A l \in Levels(c0, o) : Pop(inner).saved[o][l] = c.saved[o][l]
  <2>1. /\ Levels(Pop(inner), o) = Levels(c, o)
        /\ \A l \in Levels(c, o) : Pop(inner).saved[o][l] = IF l = Top(c, o) THEN c.var[o] ELSE c.saved[o][l]
    BY PopRestores
  <2>2. Top(c, o) \notin Levels(c0, o) /\ Levels(c0, o) \subseteq Levels(c, o)
    BY TopOfLevel DEF LevelOn
  <2> QED
    BY <2>1, <2>2
<1> QED
  BY <1>1, <1>2 DEF LevelOn

------------------------------------------------------------------------------
(* The iterator and its levels.                                             *)

\* The iterator is as deep in the tree as its stack, and each group on the way, and the entry
\* that plays, has a level of the configuration.
Balanced ==
  /\ iter \in Iterators /\ who \in {"iter", "copy"}
  /\ cfg.lvl = 1 + Len(iter.stack) + (IF iter.pushed THEN 1 ELSE 0)
  /\ pc = "idle" => iter = NoIter
  /\ pc # "idle" => iter.tree \in Nodes /\ Len(iter.stack) = Depth[iter.tree]

\* An entry's options are popped before the root is left.
PoppedInTime ==
  /\ who = "iter" <=> after \in {"play", "up", "begin", "source", "stop", "load"}
  /\ pc = "next" => after = "play"
  /\ iter.pushed /\ iter.tree = Root => pc = "step" /\ who = "iter"
  /\ pc = "down" /\ who = "iter" => IsGroup(iter.tree)
  /\ pc = "returned" /\ who = "iter" =>
       /\ result # "entry" => ~iter.pushed
       /\ result = "end" => iter.tree = Root
       /\ after \in {"play", "up", "begin", "source"} => result \in {"entry", "end"}

LevelInv == Balanced /\ PoppedInTime

\* The nodes beside a node are as deep, and below it one deeper.
LEMMA Beside ==
  ASSUME NEW x \in Nodes, NEW i \in 1 .. Len(Siblings(x))
  PROVE  /\ Siblings(x)[i] \in Nodes /\ Depth[Siblings(x)[i]] = Depth[x]
         /\ x # Root => Siblings(x)[i] # Root
<1>1. CASE x = Root
  BY <1>1, TreeAssumption DEF Siblings
<1>2. CASE x # Root
  <2> DEFINE p == Tree[x].parent
  <2>1. p \in Nodes /\ p # None /\ Depth[x] = Depth[p] + 1
    BY <1>2, TreeAssumption, DepthAssumption
  <2>2. Siblings(x) = Tree[p].kids /\ Tree[p].kids \in Seq(Nodes) /\ \A k \in 1 .. Len(Tree[p].kids) : Tree[Tree[p].kids[k]].parent = p
    BY <2>1, TreeAssumption DEF Siblings
  <2>3. Siblings(x)[i] \in Nodes /\ Tree[Siblings(x)[i]].parent = p
    BY <2>2
  <2>4. Siblings(x)[i] # Root
    BY <2>1, <2>3, TreeAssumption
  <2> QED
    BY <2>1, <2>3, <2>4, DepthAssumption
<1> QED
  BY <1>1, <1>2

LEMMA HasSiblings == ASSUME NEW x \in Nodes PROVE Len(Siblings(x)) \in Nat \ {0}
<1>1. CASE x = Root
  BY <1>1, TreeAssumption DEF Siblings
<1>2. CASE x # Root
  <2>1. /\ Tree[x].parent \in Nodes /\ Tree[x].parent # None /\ Tree[Tree[x].parent].kids \in Seq(Nodes)
        /\ \E i \in 1 .. Len(Tree[Tree[x].parent].kids) : Tree[Tree[x].parent].kids[i] = x
    BY <1>2, TreeAssumption
  <2> QED
    BY <2>1 DEF Siblings
<1> QED
  BY <1>1, <1>2

LEMMA Below ==
  ASSUME NEW x \in Nodes, IsGroup(x)
  PROVE  /\ Len(Tree[x].kids) \in Nat \ {0}
         /\ \A i \in 1 .. Len(Tree[x].kids) : /\ Tree[x].kids[i] \in Nodes \ {Root}
                                              /\ Depth[Tree[x].kids[i]] = Depth[x] + 1
<1>1. Tree[x].kids # <<>> /\ Tree[x].kids \in Seq(Nodes) /\ \A i \in 1 .. Len(Tree[x].kids) : Tree[Tree[x].kids[i]].parent = x
  BY TreeAssumption DEF IsGroup
<1>2. \A i \in 1 .. Len(Tree[x].kids) : Tree[x].kids[i] \in Nodes \ {Root}
  BY <1>1, TreeAssumption
<1>3. \A i \in 1 .. Len(Tree[x].kids) : Depth[Tree[x].kids[i]] = Depth[x] + 1
  BY <1>1, <1>2, DepthAssumption
<1> QED
  BY <1>1, <1>2, <1>3

LEMMA LevelOf ==
  ASSUME NEW c
  PROVE  /\ Pop(c).lvl = c.lvl - 1 /\ Push(c).lvl = c.lvl + 1
         /\ \A params : SetOptions(c, params).lvl = c.lvl
         /\ \A x : PushParams(c, x).lvl = c.lvl + 1
BY DEF Pop, Push, SetOptions, PushParams

\* A copy walks without a configuration.
LEMMA CopyWalks == LevelInv /\ Walk /\ who = "copy" => LevelInv'
<1> SUFFICES ASSUME LevelInv, Walk, who = "copy" PROVE LevelInv'
  OBVIOUS
<1>1. cfg' = cfg /\ iter' = iter
  BY DEF Walk, Loop, StepUp, StepOnGroup, StepToEntry, UpAtTop, Up, Down, SetIt, EntryPopped, Configured
<1>2. who' = who /\ after' = after /\ pc # "idle" /\ pc' # "idle" /\ pc' # "next"
  BY DEF Walk, Loop, StepUp, StepOnGroup, StepToEntry, UpAtTop, Up, Down, Stepping, Moving
<1> QED
  BY <1>1, <1>2 DEF LevelInv, Balanced, PoppedInTime

\* Each step along the group first pops the entry that was playing.
LEMMA EntryIsPopped ==
  ASSUME LevelInv, who = "iter"
  PROVE  EntryPopped.lvl = 1 + Len(iter.stack)
BY LevelOf DEF LevelInv, Balanced, EntryPopped, It, Configured, Iterators

LEMMA PlayerSteps == LevelInv /\ (Loop \/ StepUp \/ StepOnGroup \/ StepToEntry) /\ who = "iter" => LevelInv'
<1> SUFFICES ASSUME LevelInv, Loop \/ StepUp \/ StepOnGroup \/ StepToEntry, who = "iter" PROVE LevelInv'
  OBVIOUS
<1>1. /\ It = iter /\ pc = "step" /\ iter \in Iterators /\ iter.tree \in Nodes /\ Len(iter.stack) = Depth[iter.tree]
      /\ who' = "iter" /\ after' = after /\ Unpushed \in Iterators /\ Unpushed.stack = iter.stack /\ ~Unpushed.pushed
      /\ Unpushed.tree = iter.tree
  BY DEF LevelInv, Balanced, It, Unpushed, Iterators, Loop, StepUp, StepOnGroup, StepToEntry, Stepping
<1>2. EntryPopped.lvl = 1 + Len(iter.stack)
  BY EntryIsPopped
<1>3. CASE Loop
  <2> DEFINE t == IF d > 0 THEN Siblings(iter.tree)[1] ELSE Siblings(iter.tree)[Len(Siblings(iter.tree))]
  <2>1. t \in Nodes /\ Depth[t] = Depth[iter.tree]
    BY <1>1, HasSiblings, Beside
  <2> DEFINE l == IF d > 0 THEN (IF Unpushed.loop > 0 THEN Unpushed.loop - 1 ELSE Unpushed.loop)
                  ELSE (IF Unpushed.loop >= 0 /\ Unpushed.loop < ParentLoop THEN Unpushed.loop + 1 ELSE Unpushed.loop)
  <2>2. l \in Int
    BY <1>1 DEF Iterators
  <2>3. iter' = [Unpushed EXCEPT !.tree = t, !.loop = l] /\ cfg' = EntryPopped /\ pc' = "step"
    BY <1>1, <1>3 DEF Loop, SetIt, Stepping
  <2> HIDE DEF t, l
  <2>4. iter' \in Iterators /\ iter'.tree = t /\ iter'.stack = iter.stack /\ ~iter'.pushed
    BY <1>1, <2>1, <2>2, <2>3 DEF Iterators
  <2> QED
    BY <1>1, <1>2, <2>1, <2>3, <2>4 DEF LevelInv, Balanced, PoppedInTime
<1>4. CASE StepUp
  <2>1. iter' = Unpushed /\ cfg' = EntryPopped /\ pc' = "up"
    BY <1>1, <1>4 DEF StepUp, SetIt
  <2> QED
    BY <1>1, <1>2, <2>1 DEF LevelInv, Balanced, PoppedInTime
<1>5. ASSUME Target # None PROVE Target \in Nodes /\ Depth[Target] = Depth[iter.tree]
  BY <1>1, <1>5, Beside DEF Target
<1>6. CASE StepOnGroup
  <2>1. /\ Target \in Nodes /\ Depth[Target] = Depth[iter.tree] /\ IsGroup(Target)
        /\ iter' = [Unpushed EXCEPT !.tree = Target] /\ cfg' = EntryPopped
    BY <1>1, <1>5, <1>6 DEF StepOnGroup, SetIt
  <2>2. iter' \in Iterators /\ iter'.tree = Target /\ iter'.stack = iter.stack /\ ~iter'.pushed
    BY <1>1, <2>1 DEF Iterators
  <2>3. \/ pc' = "returned" /\ result' = "node" /\ after \in {"stop", "load"}
        \/ pc' = "down"
    BY <1>6 DEF StepOnGroup
  <2> QED
    BY <1>1, <1>2, <2>1, <2>2, <2>3 DEF LevelInv, Balanced, PoppedInTime
<1>7. CASE StepToEntry
  <2>1. /\ Target \in Nodes /\ Depth[Target] = Depth[iter.tree] /\ Target # Root
        /\ cfg' = PushParams(EntryPopped, Target) /\ pc' = "returned" /\ result' = "entry"
    BY <1>1, <1>5, <1>7, TreeAssumption DEF StepToEntry, Configured, IsGroup
  <2>2. iter' = [Unpushed EXCEPT !.tree = Target, !.pushed = TRUE]
    BY <1>1, <1>7 DEF StepToEntry, SetIt, Iterators
  <2>3. iter' \in Iterators /\ iter'.tree = Target /\ iter'.stack = iter.stack /\ iter'.pushed
    BY <1>1, <2>1, <2>2 DEF Iterators
  <2>4. cfg'.lvl = 1 + Len(iter.stack) + 1
    BY <1>1, <1>2, <2>1, LevelOf
  <2> QED
    BY <1>1, <2>1, <2>3, <2>4 DEF LevelInv, Balanced, PoppedInTime
<1> QED
  BY <1>3, <1>4, <1>6, <1>7

\* Into a group and out of it.
LEMMA PlayerClimbs == LevelInv /\ (UpAtTop \/ Up \/ Down) /\ who = "iter" => LevelInv'
<1> SUFFICES ASSUME LevelInv, UpAtTop \/ Up \/ Down, who = "iter" PROVE LevelInv'
  OBVIOUS
<1>1. /\ It = iter /\ iter \in Iterators /\ iter.tree \in Nodes /\ Len(iter.stack) = Depth[iter.tree]
      /\ iter.stack \in Seq(Int) /\ iter.loop \in Int /\ who' = "iter" /\ after' = after
      /\ cfg.lvl = 1 + Len(iter.stack) + (IF iter.pushed THEN 1 ELSE 0)
  BY DEF LevelInv, Balanced, It, Iterators, UpAtTop, Up, Down, Moving
<1>2. CASE UpAtTop
  <2>1. iter.tree = Root
    BY <1>1, <1>2, TreeAssumption DEF UpAtTop
  <2>2. ~iter.pushed
    BY <1>2, <2>1 DEF UpAtTop, Moving, LevelInv, PoppedInTime
  <2>3. iter' = [iter EXCEPT !.file = -1] /\ cfg' = cfg /\ pc' = "returned" /\ result' = "end"
    BY <1>1, <1>2 DEF UpAtTop, SetIt
  <2>4. iter' \in Iterators /\ iter'.tree = Root /\ iter'.stack = iter.stack /\ ~iter'.pushed
    BY <1>1, <2>1, <2>2, <2>3 DEF Iterators
  <2> QED
    BY <1>1, <2>1, <2>2, <2>3, <2>4 DEF LevelInv, Balanced, PoppedInTime
<1>3. CASE Up
  <2> DEFINE p == Tree[iter.tree].parent
  <2>1. p \in Nodes /\ Depth[iter.tree] = Depth[p] + 1 /\ Depth[p] \in Nat
    BY <1>1, <1>3, TreeAssumption, DepthAssumption DEF Up
  <2>2. /\ Len(iter.stack) > 0 /\ iter.stack[Len(iter.stack)] \in Int /\ SubSeq(iter.stack, 1, Len(iter.stack) - 1) \in Seq(Int)
        /\ Len(SubSeq(iter.stack, 1, Len(iter.stack) - 1)) = Len(iter.stack) - 1
    BY <1>1, <2>1, SMTT(30)
  <2>3. /\ iter' = [iter EXCEPT !.tree = p, !.file = -1, !.loop = iter.stack[Len(iter.stack)],
                               !.stack = SubSeq(iter.stack, 1, Len(iter.stack) - 1)]
        /\ cfg' = Pop(cfg) /\ pc' = "step"
    BY <1>1, <1>3 DEF Up, SetIt, Configured, Iterators
  <2>4. /\ iter' \in Iterators /\ iter'.tree = p /\ iter'.pushed = iter.pushed
        /\ iter'.stack = SubSeq(iter.stack, 1, Len(iter.stack) - 1)
    BY <1>1, <2>1, <2>2, <2>3 DEF Iterators
  <2>5. cfg'.lvl = cfg.lvl - 1
    BY <2>3, LevelOf
  <2>6. cfg'.lvl = 1 + Len(iter'.stack) + (IF iter'.pushed THEN 1 ELSE 0) /\ Len(iter'.stack) = Depth[p]
    BY <1>1, <2>1, <2>2, <2>4, <2>5
  <2> HIDE DEF p
  <2> QED
    BY <1>1, <2>1, <2>3, <2>4, <2>6 DEF LevelInv, Balanced, PoppedInTime
<1>4. CASE Down
  <2> DEFINE kids == Tree[iter.tree].kids
             t == IF d >= 0 THEN kids[1] ELSE kids[Len(kids)]
  <2>1. pc = "down" /\ IsGroup(iter.tree)
    BY <1>4 DEF Down, Moving, LevelInv, PoppedInTime
  <2>2. t \in Nodes \ {Root} /\ Depth[t] = Depth[iter.tree] + 1
    BY <1>1, <2>1, Below
  <2>3. /\ iter' = [iter EXCEPT !.tree = t, !.file = -1, !.loop = Tree[iter.tree].loop - 1, !.stack = Append(iter.stack, iter.loop)]
        /\ cfg' = PushParams(cfg, iter.tree) /\ pc' = "step"
    BY <1>1, <1>4 DEF Down, SetIt, Configured, Iterators
  <2>4. Append(iter.stack, iter.loop) \in Seq(Int) /\ Len(Append(iter.stack, iter.loop)) = Len(iter.stack) + 1 /\ Tree[iter.tree].loop - 1 \in Int
    BY <1>1, TreeAssumption
  <2> HIDE DEF t
  <2>5. /\ iter' \in Iterators /\ iter'.tree = t /\ iter'.pushed = iter.pushed
        /\ iter'.stack = Append(iter.stack, iter.loop)
    BY <1>1, <2>2, <2>3, <2>4 DEF Iterators
  <2>6. Len(iter'.stack) = Len(iter.stack) + 1 /\ Len(iter.stack) \in Nat
    BY <1>1, <2>4, <2>5
  <2>7. cfg'.lvl = cfg.lvl + 1
    BY <2>3, LevelOf
  <2>8. cfg'.lvl = 1 + Len(iter'.stack) + (IF iter'.pushed THEN 1 ELSE 0) /\ Len(iter'.stack) = Depth[t]
    BY <1>1, <2>2, <2>5, <2>6, <2>7
  <2> QED
    BY <1>1, <2>2, <2>3, <2>5, <2>8 DEF LevelInv, Balanced, PoppedInTime
<1> QED
  BY <1>2, <1>3, <1>4

LEMMA WalkLevels == LevelInv /\ Walk => LevelInv'
BY CopyWalks, PlayerSteps, PlayerClimbs DEF Walk, LevelInv, Balanced

\* How a file is left for a step or an up step.
LEMMA LeftFor ==
  ASSUME NEW up, NEW n, Leave(up, n)
  PROVE  /\ eof' = Sign(n) /\ step' \in {step, n} /\ who' = "iter" /\ d' = n /\ result' = result
         /\ pc' \in {"up", "next", "step"} /\ after' \in {"up", "play"} /\ (pc' = "next" => after' = "play")
<1>1. CASE up
  BY <1>1 DEF Leave, Run
<1>2. CASE ~up
  BY <1>2 DEF Leave, Run
<1> QED
  BY <1>1, <1>2

\* A command starts the copy's walk or leaves the file.
LEMMA StepBegins ==
  ASSUME NEW n, NEW up \in BOOLEAN, NEW force \in BOOLEAN, CmdStep(n, up, force)
  PROVE  /\ pc = "playing" /\ played' = Disturbed /\ asked' = (IF up THEN Sign(n) ELSE n)
         /\ UNCHANGED <<cfg, iter, browse, base, touched, promised>>
         /\ \/ Leave(up, asked') /\ copy' = copy
            \/ /\ copy' = iter /\ pc' = (IF up THEN "up" ELSE "step") /\ who' = "copy" /\ d' = asked'
               /\ after' = (IF up THEN "probe up" ELSE "probe") /\ UNCHANGED <<eof, step, result>>
<1>1. /\ pc = "playing" /\ played' = Disturbed /\ asked' = (IF up THEN Sign(n) ELSE n)
      /\ UNCHANGED <<cfg, iter, browse, base, touched, promised>>
  BY DEF CmdStep, Commanded
<1>2. CASE force
  BY <1>1, <1>2, Zenon DEF CmdStep
<1>3. CASE ~force
  BY <1>1, <1>3, Zenon DEF CmdStep, Run, NewCopy
<1> QED
  BY <1>1, <1>2, <1>3

\* Where the iterator and the configuration stay, the call that begins or ends does not matter.
LEMMA OtherCalls ==
  LevelInv /\ (Probed \/ NextFile \/ StepOn \/ EndOfFile \/ OpenFails \/ (\E n \in 0 .. Following : Browse(n)) \/ (\E n \in Steps, up \in BOOLEAN, force \in BOOLEAN : CmdStep(n, up, force))
               \/ (\E v \in {1, -1} : CmdSource(v)) \/ \E purpose \in {"stop", "load"} : CmdUnwind(purpose)) => LevelInv'
<1> SUFFICES ASSUME LevelInv,
                    Probed \/ NextFile \/ StepOn \/ EndOfFile \/ OpenFails \/ (\E n \in 0 .. Following : Browse(n)) \/ (\E n \in Steps, up \in BOOLEAN, force \in BOOLEAN : CmdStep(n, up, force))
                    \/ (\E v \in {1, -1} : CmdSource(v)) \/ \E purpose \in {"stop", "load"} : CmdUnwind(purpose)
             PROVE  LevelInv'
  OBVIOUS
<1> DEFINE Same ==
      /\ iter' = iter /\ cfg' = cfg /\ (pc \in {"playing", "next"} \/ (pc = "returned" /\ who = "copy"))
      /\ pc' \in {"up", "step", "next", "playing", "source"} /\ who' \in {"iter", "copy"}
      /\ who' = "iter" <=> after' \in {"play", "up", "begin", "source", "stop", "load"}
      /\ pc' = "next" => after' = "play"
<1>1. ASSUME Probed PROVE Same
  <2>1. iter' = iter /\ cfg' = cfg /\ pc = "returned" /\ who = "copy"
    BY <1>1 DEF Probed
  <2>2. CASE Leave(after = "probe up", asked)
    BY <2>1, <2>2, LeftFor
  <2>3. CASE pc' = "playing" /\ UNCHANGED <<who, after>>
    BY <2>1, <2>3 DEF LevelInv, PoppedInTime
  <2>4. CASE Run("next", "iter", asked, "play")
    BY <2>1, <2>4 DEF Run
  <2> QED
    BY <1>1, <2>2, <2>3, <2>4 DEF Probed
<1>2. ASSUME EndOfFile \/ OpenFails \/ NextFile \/ StepOn PROVE Same
  BY <1>2 DEF EndOfFile, OpenFails, NextFile, StepOn, Run, LevelInv, PoppedInTime, Balanced
<1>3. ASSUME NEW n \in Steps, NEW up \in BOOLEAN, NEW force \in BOOLEAN, CmdStep(n, up, force) PROVE Same
  <2>1. iter' = iter /\ cfg' = cfg /\ pc = "playing"
    BY <1>3, StepBegins
  <2>2. CASE Leave(up, asked')
    BY <2>1, <2>2, LeftFor
  <2>3. CASE pc' = (IF up THEN "up" ELSE "step") /\ who' = "copy" /\ after' = (IF up THEN "probe up" ELSE "probe")
    BY <2>1, <2>3
  <2> QED
    BY <1>3, <2>2, <2>3, StepBegins
<1>4. ASSUME NEW v, CmdSource(v) PROVE Same
  <2>1. iter' = iter /\ cfg' = cfg /\ pc = "playing" /\ pc' = "source" /\ who' = who /\ after' = after
    BY <1>4 DEF CmdSource, Commanded
  <2> QED
    BY <2>1 DEF LevelInv, PoppedInTime, Balanced
<1>5. ASSUME NEW purpose \in {"stop", "load"}, CmdUnwind(purpose) PROVE Same
  <2>1. iter' = iter /\ cfg' = cfg /\ pc = "playing" /\ pc' = "up" /\ who' = "iter" /\ after' = purpose
    BY <1>5 DEF CmdUnwind, Commanded, Run
  <2> QED
    BY <2>1
<1>6. CASE Same
  BY <1>6 DEF LevelInv, Balanced, PoppedInTime
<1>7. CASE \E n \in 0 .. Following : Browse(n)
  BY <1>7 DEF Browse, call, LevelInv, Balanced, PoppedInTime
<1> QED
  BY <1>1, <1>2, <1>3, <1>4, <1>5, <1>6, <1>7

\* The call that ends ends at the root, with every level popped but the general one.
LEMMA EndsAtRoot ==
  ASSUME LevelInv, pc = "returned", who = "iter", result = "end"
  PROVE  iter.tree = Root /\ Len(iter.stack) = 0 /\ ~iter.pushed /\ cfg.lvl = 1
<1>1. iter.tree = Root /\ ~iter.pushed
  BY DEF LevelInv, PoppedInTime
<1>2. Depth[Root] = 0
  BY TreeAssumption, DepthAssumption
<1>3. Len(iter.stack) = Depth[iter.tree] /\ cfg.lvl = 1 + Len(iter.stack) + (IF iter.pushed THEN 1 ELSE 0)
  BY DEF LevelInv, Balanced
<1> QED
  BY <1>1, <1>2, <1>3

LEMMA FreshIterator ==
  /\ NoIter \in Iterators /\ NoIter.stack = <<>> /\ Len(NoIter.stack) = 0 /\ ~NoIter.pushed
  /\ LET i == [NoIter EXCEPT !.tree = Root] IN
       i \in Iterators /\ i.tree = Root /\ i.stack = <<>> /\ Len(i.stack) = 0 /\ ~i.pushed
<1>1. <<>> \in Seq(Int) /\ Len(<<>>) = 0 /\ -1 \in {-1} \cup Nat /\ 0 \in Int
  OBVIOUS
<1>2. Root \in Nodes \cup {None} /\ None \in Nodes \cup {None}
  BY TreeAssumption
<1>3. NoIter \in Iterators
  BY <1>1, <1>2 DEF NoIter, Iterators
<1>4. /\ [NoIter EXCEPT !.tree = Root] \in Iterators /\ [NoIter EXCEPT !.tree = Root].tree = Root
      /\ [NoIter EXCEPT !.tree = Root].stack = NoIter.stack /\ [NoIter EXCEPT !.tree = Root].pushed = NoIter.pushed
  BY <1>2, <1>3 DEF Iterators
<1>5. NoIter.stack = <<>> /\ ~NoIter.pushed
  BY DEF NoIter
<1> QED
  BY <1>1, <1>3, <1>4, <1>5

LEMMA OtherPlayer == LevelInv /\ (Begin \/ Stepped \/ Unwound \/ GetSource) => LevelInv'
<1> SUFFICES ASSUME LevelInv, Begin \/ Stepped \/ Unwound \/ GetSource PROVE LevelInv'
  OBVIOUS
<1>1. CASE Begin
  <2>1. pc = "idle" /\ iter = NoIter /\ cfg.lvl = 1 + Len(iter.stack) + (IF iter.pushed THEN 1 ELSE 0)
    BY <1>1 DEF Begin, LevelInv, Balanced
  <2>2. cfg.lvl = 1
    BY <2>1, FreshIterator
  <2>3. iter' = [NoIter EXCEPT !.tree = Root] /\ cfg' = cfg /\ pc' = "step" /\ who' = "iter" /\ after' = "begin"
    BY <1>1 DEF Begin, Run
  <2>4. iter' \in Iterators /\ iter'.tree = Root /\ Len(iter'.stack) = 0 /\ ~iter'.pushed
    BY <2>3, FreshIterator
  <2>5. Root \in Nodes /\ Depth[Root] = 0
    BY TreeAssumption, DepthAssumption
  <2> QED
    BY <2>2, <2>3, <2>4, <2>5 DEF LevelInv, Balanced, PoppedInTime
<1>2. CASE Stepped
  <2>1. /\ pc = "returned" /\ who = "iter" /\ after \in {"play", "up", "begin", "source"} /\ UNCHANGED <<cfg, who, after, result>>
        /\ result \in {"entry", "end"}
    BY <1>2 DEF Stepped, Loading, LevelInv, PoppedInTime
  <2>2. CASE result = "entry"
    <3>1. pc' = "source" /\ iter' = iter
      BY <1>2, <2>2 DEF Stepped
    <3> QED
      BY <2>1, <2>2, <3>1 DEF LevelInv, Balanced, PoppedInTime
  <2>3. CASE result = "end"
    <3>1. pc' = "idle" /\ iter' = NoIter
      BY <1>2, <2>3 DEF Stepped
    <3>2. cfg.lvl = 1
      BY <2>1, <2>3, EndsAtRoot
    <3>3. iter' \in Iterators /\ Len(iter'.stack) = 0 /\ ~iter'.pushed
      BY <3>1, FreshIterator
    <3>4. iter'.tree # Root
      BY <3>1 DEF NoIter, None, Root
    <3> QED
      BY <2>1, <3>1, <3>2, <3>3, <3>4 DEF LevelInv, Balanced, PoppedInTime
  <2> QED
    BY <2>1, <2>2, <2>3
<1>3. CASE Unwound
  <2>1. pc = "returned" /\ after \in {"stop", "load"} /\ cfg' = cfg /\ who = "iter" /\ iter.tree \in Nodes /\ iter \in Iterators
    BY <1>3 DEF Unwound, LevelInv, PoppedInTime, Balanced
  <2>2. CASE result # "end" /\ Run("up", "iter", 0, after) /\ UNCHANGED iter
    BY <2>1, <2>2 DEF Run, LevelInv, Balanced, PoppedInTime
  <2>3. ASSUME result = "end" PROVE iter.tree = Root /\ Len(iter.stack) = 0 /\ ~iter.pushed /\ cfg.lvl = 1
    BY <2>1, <2>3, EndsAtRoot
  <2>4. CASE result = "end" /\ pc' = "idle" /\ iter' = NoIter /\ UNCHANGED <<who, d, after, result>>
    <3>1. iter' \in Iterators /\ Len(iter'.stack) = 0 /\ ~iter'.pushed
      BY <2>4, FreshIterator
    <3>2. iter'.tree # Root
      BY <2>4 DEF NoIter, None, Root
    <3> QED
      BY <2>1, <2>3, <2>4, <3>1, <3>2 DEF LevelInv, Balanced, PoppedInTime
  <2>5. CASE result = "end" /\ iter' = [iter EXCEPT !.tree = Root] /\ Run("step", "iter", 0, "begin")
    <3>1. iter' = iter
      BY <2>1, <2>3, <2>5 DEF Iterators
    <3> QED
      BY <2>1, <2>3, <2>5, <3>1 DEF Run, LevelInv, Balanced, PoppedInTime
  <2> QED
    BY <1>3, <2>2, <2>4, <2>5 DEF Unwound
<1>4. CASE GetSource
  <2>1. pc = "source" /\ cfg' = cfg /\ iter.tree \in Nodes /\ iter \in Iterators
    BY <1>4 DEF GetSource, LevelInv, Balanced
  <2> DEFINE f == NextSource(iter, eof)
  <2>2. CASE f = -1
    BY <1>4, <2>1, <2>2 DEF GetSource, Run, LevelInv, Balanced, PoppedInTime
  <2>3. CASE f # -1
    <3>1. f \in Nat
      BY <2>1, <2>3, TreeAssumption DEF NextSource, Iterators, None
    <3>2. iter' = [iter EXCEPT !.file = f] /\ pc' = "playing" /\ UNCHANGED <<who, after>>
      BY <1>4, <2>3 DEF GetSource
    <3>3. iter' \in Iterators /\ iter'.tree = iter.tree /\ iter'.stack = iter.stack /\ iter'.pushed = iter.pushed
      BY <2>1, <3>1, <3>2 DEF Iterators
    <3> QED
      BY <2>1, <3>2, <3>3 DEF LevelInv, Balanced, PoppedInTime
  <2> QED
    BY <2>2, <2>3
<1> QED
  BY <1>1, <1>2, <1>3, <1>4

\* Options set or written leave the levels as many as they were.
LEMMA OptionChanges ==
  LevelInv /\ ((\E name \in Names, value \in Values : SetWhilePlaying(name, value) \/ SetWhileIdle(name, value))
               \/ \E o \in Options, value \in Values : WriteWhilePlaying(o, value) \/ WriteWhileIdle(o, value)) => LevelInv'
<1> SUFFICES ASSUME LevelInv,
                    (\E name \in Names, value \in Values : SetWhilePlaying(name, value) \/ SetWhileIdle(name, value))
                    \/ \E o \in Options, value \in Values : WriteWhilePlaying(o, value) \/ WriteWhileIdle(o, value)
             PROVE  LevelInv'
  OBVIOUS
<1> DEFINE Same == cfg'.lvl = cfg.lvl /\ iter' = iter /\ UNCHANGED call
<1>1. ASSUME NEW name, NEW value, SetWhilePlaying(name, value) \/ SetWhileIdle(name, value) PROVE Same
  <2>1. cfg' = SetOption(cfg, name, value) /\ iter' = iter /\ UNCHANGED call
    BY <1>1 DEF SetWhilePlaying, SetWhileIdle
  <2> QED
    BY <2>1, LevelOf DEF SetOption
<1>2. ASSUME NEW o, NEW value, WriteWhilePlaying(o, value) \/ WriteWhileIdle(o, value) PROVE Same
  <2>1. cfg' = WriteVariable(cfg, o, value) /\ iter' = iter /\ UNCHANGED call
    BY <1>2 DEF WriteWhilePlaying, WriteWhileIdle
  <2>2. WriteVariable(cfg, o, value).lvl = cfg.lvl
    BY DEF WriteVariable
  <2> QED
    BY <2>1, <2>2
<1>3. Same
  BY <1>1, <1>2
<1> QED
  BY <1>3 DEF LevelInv, Balanced, PoppedInTime, call

LEMMA LevelInit == Init => LevelInv
<1> SUFFICES ASSUME Init PROVE LevelInv
  OBVIOUS
<1>1. iter = NoIter /\ cfg.lvl = 1 /\ pc = "idle" /\ who = "iter" /\ after = "play"
  BY DEF Init, NewConfig
<1>2. iter.tree # Root
  BY <1>1 DEF NoIter, None, Root
<1> QED
  BY <1>1, <1>2, FreshIterator DEF LevelInv, Balanced, PoppedInTime

LEMMA LevelStep == LevelInv /\ [Next]_vars => LevelInv'
<1>1. LevelInv /\ UNCHANGED vars => LevelInv'
  BY DEF LevelInv, Balanced, PoppedInTime, vars, call
<1>2. LevelInv /\ Player => LevelInv'
  BY OtherCalls, OtherPlayer DEF Player
<1>3. LevelInv /\ File => LevelInv'
  BY OtherCalls DEF File
<1>4. LevelInv /\ User => LevelInv'
  <2> SUFFICES ASSUME LevelInv, User PROVE LevelInv'
    OBVIOUS
  <2>1. CASE Begin
    BY <2>1, OtherPlayer
  <2>2. CASE \E n \in Steps, up \in BOOLEAN, force \in BOOLEAN : CmdStep(n, up, force)
    BY <2>2, OtherCalls
  <2>3. CASE \E v \in {1, -1} : CmdSource(v)
    BY <2>3, OtherCalls
  <2>4. CASE \E purpose \in {"stop", "load"} : CmdUnwind(purpose)
    BY <2>4, OtherCalls
  <2>5. CASE \E name \in Names, value \in Values : SetWhilePlaying(name, value) \/ SetWhileIdle(name, value)
    BY <2>5, OptionChanges
  <2>6. CASE \E o \in Options, value \in Values : WriteWhilePlaying(o, value) \/ WriteWhileIdle(o, value)
    BY <2>6, OptionChanges
  <2>7. CASE \E n \in 0 .. Following : Browse(n)
    BY <2>7, OtherCalls
  <2> QED
    BY <2>1, <2>2, <2>3, <2>4, <2>5, <2>6, <2>7 DEF User
<1> QED
  BY <1>1, <1>2, <1>3, <1>4, WalkLevels DEF Next

\* Every level of the configuration belongs to a group the iterator is in or to the entry that
\* plays, however the files end and whatever the user asks for: push and pop in
\* play_tree_iter_step, up_step and down_step match, on any tree.
THEOREM LevelsMatch == Spec => []LevelsAreGroups
<1>1. LevelInv => LevelsAreGroups
  BY DEF LevelInv, Balanced, LevelsAreGroups
<1> QED
  BY <1>1, LevelInit, LevelStep, PTL DEF Spec

------------------------------------------------------------------------------
(* Type correctness.                                                        *)

\* A configuration: the slots are those of levels there are, and hold values.
ConfigTyped(c) ==
  /\ c = [lvl |-> c.lvl, saved |-> c.saved, var |-> c.var, set |-> c.set]
  /\ c.lvl \in Nat \ {0} /\ c.set \subseteq Names /\ c.var \in [Options -> Values]
  /\ \A o \in Options : /\ {0, 1} \subseteq Levels(c, o)
                        /\ \A l \in Levels(c, o) : l \in 0 .. c.lvl /\ c.saved[o][l] \in Values

\* The last of some settings is one of them.
LEMMA LastIsOne ==
  ASSUME NEW params \in Seq(Names \X Values), NEW mine \in SUBSET (1 .. Len(params)), mine # {}
  PROVE  Highest(mine) \in mine /\ params[Highest(mine)][1] \in Names /\ params[Highest(mine)][2] \in Values
<1>1. Len(params) \in Nat /\ mine \in SUBSET (0 .. Len(params))
  OBVIOUS
<1>2. Highest(mine) \in mine
  BY <1>1, BoundedHasHighest
<1>3. \A i \in 1 .. Len(params) : params[i] \in Names \X Values
  OBVIOUS
<1> QED
  BY <1>2, <1>3

LEMMA NewTyped == ASSUME NEW v \in Values PROVE ConfigTyped(NewConfig(v))
BY DEF ConfigTyped, NewConfig, Levels

LEMMA PushTyped == ASSUME NEW c, ConfigTyped(c) PROVE ConfigTyped(Push(c))
<1> DEFINE e == Push(c)
<1>1. /\ e = [lvl |-> e.lvl, saved |-> e.saved, var |-> e.var, set |-> e.set]
      /\ e.lvl = c.lvl + 1 /\ e.var = c.var /\ e.set \subseteq c.set
  BY DEF Push
<1>2. ASSUME NEW o \in Options
      PROVE  {0, 1} \subseteq Levels(e, o) /\ \A l \in Levels(e, o) : l \in 0 .. c.lvl + 1 /\ e.saved[o][l] \in Values
  <2>1. c.var[o] \in Values /\ c.lvl \in Nat
    BY DEF ConfigTyped
  <2>2. \/ e.saved[o] = c.saved[o]
        \/ e.saved[o] = [l \in Levels(c, o) \cup {c.lvl + 1} |->
                           IF l \in {Top(c, o), c.lvl + 1} THEN c.var[o] ELSE c.saved[o][l]]
    BY DEF Push
  <2> HIDE DEF e
  <2>3. CASE e.saved[o] = c.saved[o]
    BY <2>1, <2>3 DEF ConfigTyped, Levels
  <2>4. CASE e.saved[o] = [l \in Levels(c, o) \cup {c.lvl + 1} |->
                             IF l \in {Top(c, o), c.lvl + 1} THEN c.var[o] ELSE c.saved[o][l]]
    <3>1. Levels(e, o) = Levels(c, o) \cup {c.lvl + 1}
      BY <2>4 DEF Levels
    <3>2. \A l \in Levels(e, o) : e.saved[o][l] = c.var[o] \/ (l \in Levels(c, o) /\ e.saved[o][l] = c.saved[o][l])
      BY <2>4, <3>1
    <3> QED
      BY <2>1, <3>1, <3>2 DEF ConfigTyped
  <2> QED
    BY <2>2, <2>3, <2>4
<1> HIDE DEF e
<1> QED
  BY <1>1, <1>2 DEF ConfigTyped, e

LEMMA PopTyped == ASSUME NEW c, ConfigTyped(c), c.lvl > 1 PROVE ConfigTyped(Pop(c))
<1> DEFINE e == Pop(c)
<1>1. /\ e = [lvl |-> e.lvl, saved |-> e.saved, var |-> e.var, set |-> e.set]
      /\ e.lvl = c.lvl - 1 /\ e.set = c.set /\ c.lvl \in Nat
  BY DEF Pop, ConfigTyped
<1>2. ASSUME NEW o \in Options
      PROVE  /\ {0, 1} \subseteq Levels(e, o) /\ \A l \in Levels(e, o) : l \in 0 .. c.lvl - 1 /\ e.saved[o][l] \in Values
             /\ e.var[o] \in Values
  <2> DEFINE kept == {l \in Levels(c, o) : l < c.lvl}
  <2>1. /\ e.saved[o] = [l \in kept |-> c.saved[o][l]]
        /\ e.var[o] = IF kept # Levels(c, o) THEN c.saved[o][Highest(kept)] ELSE c.var[o]
    BY DEF Pop
  <2>2. {0, 1} \subseteq kept /\ kept \subseteq 0 .. c.lvl - 1 /\ kept \in SUBSET (0 .. c.lvl) /\ kept # {}
    BY <1>1 DEF ConfigTyped
  <2>3. Highest(kept) \in kept
    BY <1>1, <2>2, BoundedHasHighest
  <2>4. kept \subseteq Levels(c, o)
    OBVIOUS
  <2> HIDE DEF e, kept
  <2> QED
    BY <2>1, <2>2, <2>3, <2>4 DEF ConfigTyped, Levels
<1>3. e.var = [o \in Options |-> e.var[o]]
  BY DEF Pop
<1> HIDE DEF e
<1>4. e.var \in [Options -> Values]
  BY <1>2, <1>3
<1> QED
  BY <1>1, <1>2, <1>4 DEF ConfigTyped, e

LEMMA SetTyped ==
  ASSUME NEW c, ConfigTyped(c), NEW params \in Seq(Names \X Values)
  PROVE  ConfigTyped(SetOptions(c, params))
<1> DEFINE e == SetOptions(c, params)
<1>1. /\ e = [lvl |-> e.lvl, saved |-> e.saved, var |-> e.var, set |-> e.set] /\ e.lvl = c.lvl
      /\ e.set = c.set \cup {params[i][1] : i \in 1 .. Len(params)}
  BY DEF SetOptions
<1>2. e.set \subseteq Names
  <2>1. \A i \in 1 .. Len(params) : params[i] \in Names \X Values
    OBVIOUS
  <2> HIDE DEF e
  <2> QED
    BY <1>1, <2>1 DEF ConfigTyped
<1>3. ASSUME NEW o \in Options
      PROVE  Levels(e, o) = Levels(c, o) /\ \A l \in Levels(c, o) : e.saved[o][l] \in Values
  <2>1. Levels(e, o) = Levels(c, o)
    BY DEF SetOptions, Levels
  <2>2. ASSUME NEW l \in Levels(c, o) PROVE e.saved[o][l] \in Values
    <3> DEFINE mine == {i \in 1 .. Len(params) : Variable(params[i][1]) = o /\ Slot(c, params[i][1]) = l}
    <3>1. e.saved[o][l] = IF mine = {} THEN c.saved[o][l] ELSE params[Highest(mine)][2]
      BY DEF SetOptions
    <3>2. mine \in SUBSET (1 .. Len(params))
      OBVIOUS
    <3> HIDE DEF mine, e
    <3> QED
      BY <3>1, <3>2, LastIsOne DEF ConfigTyped
  <2> QED
    BY <2>1, <2>2
<1>4. e.var \in [Options -> Values]
  <2>1. ASSUME NEW o \in Options PROVE e.var[o] \in Values
    <3> DEFINE mine == {i \in 1 .. Len(params) : Variable(params[i][1]) = o}
    <3>1. e.var[o] = IF mine = {} THEN c.var[o] ELSE params[Highest(mine)][2]
      BY DEF SetOptions
    <3>2. mine \in SUBSET (1 .. Len(params))
      OBVIOUS
    <3> HIDE DEF mine, e
    <3> QED
      BY <3>1, <3>2, LastIsOne DEF ConfigTyped
  <2>2. e.var = [o \in Options |-> e.var[o]]
    BY DEF SetOptions
  <2> HIDE DEF e
  <2> QED
    BY <2>1, <2>2
<1> HIDE DEF e
<1> QED
  BY <1>1, <1>2, <1>3, <1>4 DEF ConfigTyped, e

LEMMA WriteTyped ==
  ASSUME NEW c, ConfigTyped(c), NEW o \in Options, NEW value \in Values
  PROVE  ConfigTyped(WriteVariable(c, o, value))
<1> DEFINE e == WriteVariable(c, o, value)  new == [c.var EXCEPT ![o] = value]
<1>1. c = [lvl |-> c.lvl, saved |-> c.saved, var |-> c.var, set |-> c.set] /\ new \in [Options -> Values]
  BY DEF ConfigTyped
<1>2. e = [lvl |-> c.lvl, saved |-> c.saved, var |-> new, set |-> c.set]
  BY <1>1 DEF WriteVariable
<1> HIDE DEF new, e
<1>3. e.lvl = c.lvl /\ e.saved = c.saved /\ e.var = new /\ e.set = c.set
  BY <1>2
<1> QED
  BY <1>1, <1>2, <1>3 DEF ConfigTyped, Levels, e

\* Walks only pop levels there are.
LEMMA WalkConfig == LevelInv /\ ConfigTyped(cfg) /\ Walk => ConfigTyped(cfg')
<1> SUFFICES ASSUME LevelInv, ConfigTyped(cfg), Walk PROVE ConfigTyped(cfg')
  OBVIOUS
<1>1. CASE who = "copy"
  <2>1. cfg' = cfg
    BY <1>1 DEF Walk, Loop, StepUp, StepOnGroup, StepToEntry, UpAtTop, Up, Down, EntryPopped, Configured
  <2> QED
    BY <2>1
<1>2. CASE who = "iter"
  <2>1. /\ It = iter /\ pc # "idle" /\ iter.tree \in Nodes /\ Len(iter.stack) = Depth[iter.tree] /\ Len(iter.stack) \in Nat
        /\ cfg.lvl = 1 + Len(iter.stack) + (IF iter.pushed THEN 1 ELSE 0)
    BY <1>2 DEF It, LevelInv, Balanced, Iterators, Walk, Loop, StepUp, StepOnGroup, StepToEntry, UpAtTop, Up, Down, Stepping, Moving
  <2>2. ConfigTyped(EntryPopped)
    <3>1. CASE iter.pushed
      <4>1. EntryPopped = Pop(cfg) /\ cfg.lvl > 1
        BY <1>2, <2>1, <3>1 DEF EntryPopped, Configured
      <4> QED
        BY <4>1, PopTyped
    <3>2. CASE ~iter.pushed
      BY <2>1, <3>2 DEF EntryPopped
    <3> QED
      BY <3>1, <3>2
  <2>3. ASSUME NEW c, ConfigTyped(c), NEW x \in Nodes PROVE ConfigTyped(PushParams(c, x))
    <3>1. Tree[x].params \in Seq(Names \X Values)
      BY TreeAssumption
    <3> QED
      BY <2>3, <3>1, PushTyped, SetTyped DEF PushParams
  <2>4. CASE Loop \/ StepUp \/ StepOnGroup
    BY <2>2, <2>4 DEF Loop, StepUp, StepOnGroup
  <2>5. CASE StepToEntry
    <3>1. Target \in Nodes /\ cfg' = PushParams(EntryPopped, Target)
      BY <1>2, <2>1, <2>5, Beside DEF StepToEntry, Configured, Target
    <3> QED
      BY <2>2, <2>3, <3>1
  <2>6. CASE UpAtTop
    BY <2>6 DEF UpAtTop
  <2>7. CASE Up
    <3>1. cfg' = Pop(cfg) /\ Tree[iter.tree].parent # None
      BY <1>2, <2>1, <2>7 DEF Up, Configured
    <3>2. Tree[iter.tree].parent \in Nodes /\ Depth[iter.tree] = Depth[Tree[iter.tree].parent] + 1
          /\ Depth[Tree[iter.tree].parent] \in Nat
      BY <2>1, <3>1, TreeAssumption, DepthAssumption
    <3>3. cfg.lvl > 1
      BY <2>1, <3>2
    <3> QED
      BY <3>1, <3>3, PopTyped
  <2>8. CASE Down
    <3>1. cfg' = PushParams(cfg, iter.tree)
      BY <1>2, <2>1, <2>8 DEF Down, Configured
    <3> QED
      BY <2>1, <2>3, <3>1
  <2> QED
    BY <2>4, <2>5, <2>6, <2>7, <2>8 DEF Walk
<1> QED
  BY <1>1, <1>2 DEF LevelInv, Balanced

LEMMA ConfigStep == LevelInv /\ ConfigTyped(cfg) /\ [Next]_vars => ConfigTyped(cfg')
<1> SUFFICES ASSUME LevelInv, ConfigTyped(cfg), [Next]_vars PROVE ConfigTyped(cfg')
  OBVIOUS
<1>1. ASSUME NEW name \in Names, NEW value \in Values PROVE ConfigTyped(SetOption(cfg, name, value))
  <2>1. << <<name, value>> >> \in Seq(Names \X Values)
    OBVIOUS
  <2> QED
    BY <2>1, SetTyped DEF SetOption
<1>2. CASE \E name \in Names, value \in Values : SetWhilePlaying(name, value) \/ SetWhileIdle(name, value)
  BY <1>1, <1>2 DEF SetWhilePlaying, SetWhileIdle
<1>3. CASE \E o \in Options, value \in Values : WriteWhilePlaying(o, value) \/ WriteWhileIdle(o, value)
  BY <1>3, WriteTyped DEF WriteWhilePlaying, WriteWhileIdle
<1>4. CASE Walk
  BY <1>4, WalkConfig
<1>5. ASSUME Player \/ File \/ Begin \/ (\E n \in 0 .. Following : Browse(n)) \/ (\E n \in Steps, up \in BOOLEAN, force \in BOOLEAN : CmdStep(n, up, force))
             \/ (\E v \in {1, -1} : CmdSource(v)) \/ (\E purpose \in {"stop", "load"} : CmdUnwind(purpose)) \/ UNCHANGED vars
      PROVE  cfg' = cfg
  BY <1>5 DEF Player, File, Probed, NextFile, StepOn, Stepped, Unwound, GetSource, EndOfFile, OpenFails, Begin, Browse, CmdStep, CmdSource, CmdUnwind, vars
<1> QED
  BY <1>2, <1>3, <1>4, <1>5 DEF Next, User

\* The copy's walk is like the player's: as deep in the tree as its stack.
CopyInv ==
  /\ copy \in Iterators
  /\ who = "copy" /\ pc \in {"step", "up", "down", "returned"} =>
       copy.tree \in Nodes /\ Len(copy.stack) = Depth[copy.tree]
  /\ who = "copy" /\ pc = "down" => IsGroup(copy.tree)

LEMMA CopyMoves == LevelInv /\ CopyInv /\ Walk /\ who = "copy" => CopyInv'
<1> SUFFICES ASSUME LevelInv, CopyInv, Walk, who = "copy" PROVE CopyInv'
  OBVIOUS
<1>1. /\ It = copy /\ copy \in Iterators /\ copy.tree \in Nodes /\ Len(copy.stack) = Depth[copy.tree]
      /\ copy.stack \in Seq(Int) /\ copy.loop \in Int /\ who' = who
      /\ Unpushed \in Iterators /\ Unpushed.stack = copy.stack /\ Unpushed.tree = copy.tree
      /\ pc = "down" => IsGroup(copy.tree)
  BY DEF CopyInv, It, Unpushed, Iterators, Walk, Loop, StepUp, StepOnGroup, StepToEntry, UpAtTop, Up, Down, Stepping, Moving
<1>2. CASE Loop
  <2> DEFINE t == IF d > 0 THEN Siblings(copy.tree)[1] ELSE Siblings(copy.tree)[Len(Siblings(copy.tree))]
             l == IF d > 0 THEN (IF Unpushed.loop > 0 THEN Unpushed.loop - 1 ELSE Unpushed.loop)
                  ELSE (IF Unpushed.loop >= 0 /\ Unpushed.loop < ParentLoop THEN Unpushed.loop + 1 ELSE Unpushed.loop)
  <2>1. t \in Nodes /\ Depth[t] = Depth[copy.tree]
    BY <1>1, HasSiblings, Beside
  <2>2. l \in Int
    BY <1>1 DEF Iterators
  <2>3. copy' = [Unpushed EXCEPT !.tree = t, !.loop = l] /\ pc' = "step"
    BY <1>1, <1>2 DEF Loop, SetIt, Stepping
  <2> HIDE DEF t, l
  <2>4. copy' \in Iterators /\ copy'.tree = t /\ copy'.stack = copy.stack
    BY <1>1, <2>1, <2>2, <2>3 DEF Iterators
  <2> QED
    BY <1>1, <2>1, <2>3, <2>4 DEF CopyInv
<1>3. CASE StepUp
  <2>1. copy' = Unpushed /\ pc' = "up"
    BY <1>1, <1>3 DEF StepUp, SetIt
  <2> QED
    BY <1>1, <2>1 DEF CopyInv
<1>4. CASE StepOnGroup \/ StepToEntry
  <2>1. Target \in Nodes /\ Depth[Target] = Depth[copy.tree]
    BY <1>1, <1>4, Beside DEF Target, StepOnGroup, StepToEntry
  <2>2. PICK b \in BOOLEAN : copy' = [Unpushed EXCEPT !.tree = Target, !.pushed = b]
    <3>1. CASE StepOnGroup
      <4>1. copy' = [Unpushed EXCEPT !.tree = Target] /\ Unpushed.pushed \in BOOLEAN
        BY <1>1, <3>1 DEF StepOnGroup, SetIt, Iterators
      <4>2. copy' = [Unpushed EXCEPT !.tree = Target, !.pushed = Unpushed.pushed]
        BY <1>1, <4>1 DEF Iterators
      <4> QED
        BY <4>1, <4>2
    <3>2. CASE StepToEntry
      <4>1. copy' = [Unpushed EXCEPT !.tree = Target, !.pushed = (@ \/ who = "iter")] /\ Unpushed.pushed \in BOOLEAN
        BY <1>1, <3>2 DEF StepToEntry, SetIt, Iterators
      <4>2. copy' = [Unpushed EXCEPT !.tree = Target, !.pushed = (Unpushed.pushed \/ who = "iter")]
        BY <1>1, <4>1 DEF Iterators
      <4> QED
        BY <4>2
    <3> QED
      BY <1>4, <3>1, <3>2
  <2>3. copy' \in Iterators /\ copy'.tree = Target /\ copy'.stack = copy.stack
    BY <1>1, <2>1, <2>2 DEF Iterators
  <2>4. pc' = "down" => IsGroup(Target)
    BY <1>4 DEF StepOnGroup, StepToEntry
  <2> QED
    BY <1>1, <2>1, <2>3, <2>4 DEF CopyInv
<1>5. CASE UpAtTop
  <2>1. copy' = [copy EXCEPT !.file = -1] /\ pc' = "returned"
    BY <1>1, <1>5 DEF UpAtTop, SetIt
  <2>2. copy' \in Iterators /\ copy'.tree = copy.tree /\ copy'.stack = copy.stack
    BY <1>1, <2>1 DEF Iterators
  <2> QED
    BY <1>1, <2>1, <2>2 DEF CopyInv
<1>6. CASE Up
  <2> DEFINE p == Tree[copy.tree].parent
  <2>1. p \in Nodes /\ Depth[copy.tree] = Depth[p] + 1 /\ Depth[p] \in Nat
    BY <1>1, <1>6, TreeAssumption, DepthAssumption DEF Up
  <2>2. /\ Len(copy.stack) > 0 /\ copy.stack[Len(copy.stack)] \in Int /\ SubSeq(copy.stack, 1, Len(copy.stack) - 1) \in Seq(Int)
        /\ Len(SubSeq(copy.stack, 1, Len(copy.stack) - 1)) = Len(copy.stack) - 1
    BY <1>1, <2>1
  <2>3. /\ copy' = [copy EXCEPT !.tree = p, !.file = -1, !.loop = copy.stack[Len(copy.stack)],
                               !.stack = SubSeq(copy.stack, 1, Len(copy.stack) - 1)]
        /\ pc' = "step"
    BY <1>1, <1>6 DEF Up, SetIt, Iterators
  <2>4. copy' \in Iterators /\ copy'.tree = p /\ copy'.stack = SubSeq(copy.stack, 1, Len(copy.stack) - 1)
    BY <1>1, <2>1, <2>2, <2>3 DEF Iterators
  <2>5. Len(copy'.stack) = Depth[p]
    BY <1>1, <2>1, <2>2, <2>4
  <2> HIDE DEF p
  <2> QED
    BY <2>1, <2>3, <2>4, <2>5 DEF CopyInv
<1>7. CASE Down
  <2> DEFINE kids == Tree[copy.tree].kids
             t == IF d >= 0 THEN kids[1] ELSE kids[Len(kids)]
  <2>1. IsGroup(copy.tree)
    BY <1>1, <1>7 DEF Down, Moving
  <2>2. t \in Nodes \ {Root} /\ Depth[t] = Depth[copy.tree] + 1
    BY <1>1, <2>1, Below
  <2>3. /\ copy' = [copy EXCEPT !.tree = t, !.file = -1, !.loop = Tree[copy.tree].loop - 1, !.stack = Append(copy.stack, copy.loop)]
        /\ pc' = "step"
    BY <1>1, <1>7 DEF Down, SetIt, Iterators
  <2>4. Append(copy.stack, copy.loop) \in Seq(Int) /\ Len(Append(copy.stack, copy.loop)) = Len(copy.stack) + 1 /\ Tree[copy.tree].loop - 1 \in Int
    BY <1>1, TreeAssumption
  <2> HIDE DEF t
  <2>5. copy' \in Iterators /\ copy'.tree = t /\ copy'.stack = Append(copy.stack, copy.loop)
    BY <1>1, <2>2, <2>3, <2>4 DEF Iterators
  <2>6. Len(copy'.stack) = Depth[t]
    BY <1>1, <2>2, <2>4, <2>5
  <2> QED
    BY <2>2, <2>3, <2>5, <2>6 DEF CopyInv
<1> QED
  BY <1>2, <1>3, <1>4, <1>5, <1>6, <1>7 DEF Walk

LEMMA CopyStep == LevelInv /\ CopyInv /\ [Next]_vars => CopyInv'
<1> SUFFICES ASSUME LevelInv, CopyInv, [Next]_vars PROVE CopyInv'
  OBVIOUS
<1>1. CASE Walk /\ who = "copy"
  BY <1>1, CopyMoves
<1>2. CASE Walk /\ who = "iter"
  <2>1. copy' = copy /\ who' = who
    BY <1>2 DEF Walk, Loop, StepUp, StepOnGroup, StepToEntry, UpAtTop, Up, Down, Stepping, Moving, SetIt
  <2> QED
    BY <1>2, <2>1 DEF CopyInv
<1>3. ASSUME NEW n \in Steps, NEW up \in BOOLEAN, NEW force \in BOOLEAN, CmdStep(n, up, force) PROVE CopyInv'
  <2>1. iter \in Iterators /\ iter.tree \in Nodes /\ Len(iter.stack) = Depth[iter.tree]
    BY <1>3 DEF CmdStep, Commanded, LevelInv, Balanced
  <2>2. (copy' = copy /\ who' = "iter") \/ (copy' = iter /\ pc' # "down")
    BY <1>3, StepBegins, LeftFor
  <2> QED
    BY <2>1, <2>2 DEF CopyInv
<1>4. CASE Probed
  <2>1. copy' = NoIter /\ (who' = "iter" \/ pc' = "playing")
    BY <1>4, LeftFor DEF Probed, Run
  <2> QED
    BY <2>1, FreshIterator DEF CopyInv
<1>5. ASSUME Stepped \/ Unwound \/ GetSource \/ NextFile \/ StepOn \/ File \/ Begin \/ (\E v \in {1, -1} : CmdSource(v))
             \/ (\E purpose \in {"stop", "load"} : CmdUnwind(purpose))
      PROVE  copy' = copy /\ (who' = "iter" \/ pc' \in {"idle", "source", "playing"})
  <2>1. ASSUME StepOn PROVE who' = "iter"
    BY <2>1 DEF StepOn, LevelInv, PoppedInTime, Balanced
  <2> QED
    BY <1>5, <2>1 DEF Stepped, Unwound, GetSource, NextFile, StepOn, File, EndOfFile, OpenFails, Begin, CmdSource, CmdUnwind, Run, LevelInv, PoppedInTime
<1>6. ASSUME (\E n \in 0 .. Following : Browse(n))
             \/ (\E name \in Names, value \in Values : SetWhilePlaying(name, value) \/ SetWhileIdle(name, value))
             \/ (\E o \in Options, value \in Values : WriteWhilePlaying(o, value) \/ WriteWhileIdle(o, value)) \/ UNCHANGED vars
      PROVE  copy' = copy /\ who' = who /\ pc' = pc
  BY <1>6 DEF Browse, SetWhilePlaying, SetWhileIdle, WriteWhilePlaying, WriteWhileIdle, call, vars
<1>7. CASE copy' = copy /\ (who' = "iter" \/ pc' \in {"idle", "source", "playing"})
  BY <1>7 DEF CopyInv
<1>8. CASE copy' = copy /\ who' = who /\ pc' = pc
  BY <1>8 DEF CopyInv
<1> QED
  BY <1>1, <1>2, <1>3, <1>4, <1>5, <1>6, <1>7, <1>8 DEF Next, User, Player, LevelInv, Balanced
\* What the calls and the player keep beside the iterators and the configuration.
Numbers ==
  /\ pc \in {"idle", "step", "up", "down", "returned", "next", "source", "playing"}
  /\ d \in Int /\ result \in {"entry", "node", "end"}
  /\ eof \in {1, -1} /\ step \in Int \ {0} /\ asked \in Int \ {0} /\ browse \in 0 .. Following
  /\ touched \subseteq Options /\ promised \in Nodes \cup {None}

LEMMA PlaceIs ==
  ASSUME NEW x \in Nodes
  PROVE  Place(x) \in 1 .. Len(Siblings(x)) /\ Siblings(x)[Place(x)] = x
<1>1. \E i \in 1 .. Len(Siblings(x)) : Siblings(x)[i] = x
  <2>1. CASE x = Root
    BY <2>1, TreeAssumption DEF Siblings
  <2>2. CASE x # Root
    BY <2>2, TreeAssumption DEF Siblings
  <2> QED
    BY <2>1, <2>2
<1> QED
  BY <1>1 DEF Place

\* The iterator that walks.
LEMMA WalkerIs ==
  ASSUME LevelInv, CopyInv, Walk
  PROVE  /\ It \in Iterators /\ It.tree \in Nodes /\ Len(It.stack) = Depth[It.tree]
         /\ pc = "down" => IsGroup(It.tree)
         /\ pc \in {"step", "up", "down"}
<1>1. pc \in {"step", "up", "down"}
  BY DEF Walk, Loop, StepUp, StepOnGroup, StepToEntry, UpAtTop, Up, Down, Stepping, Moving
<1>2. CASE who = "iter"
  BY <1>1, <1>2 DEF It, LevelInv, Balanced, PoppedInTime
<1>3. CASE who = "copy"
  BY <1>1, <1>3 DEF It, CopyInv
<1> QED
  BY <1>1, <1>2, <1>3 DEF LevelInv, Balanced

LEMMA WalkNumbers == LevelInv /\ CopyInv /\ Numbers /\ Walk => Numbers'
<1> SUFFICES ASSUME LevelInv, CopyInv, Numbers, Walk PROVE Numbers'
  OBVIOUS
<1>1. d' \in {d, 0, Onward}
  <2>1. CASE Loop \/ Down
    BY <2>1 DEF Loop, Down
  <2>2. CASE StepUp
    BY <2>2 DEF StepUp
  <2>3. CASE StepOnGroup \/ StepToEntry \/ UpAtTop \/ Up
    BY <2>3 DEF StepOnGroup, StepToEntry, UpAtTop, Up
  <2> QED
    BY <2>1, <2>2, <2>3 DEF Walk
<1>2. d' \in Int
  <2>1. Place(It.tree) \in 1 .. Len(Siblings(It.tree)) /\ Len(Siblings(It.tree)) \in Nat
    BY WalkerIs, PlaceIs, HasSiblings
  <2>2. PICK i \in Int, n \in Int : i = Place(It.tree) /\ n = Len(Siblings(It.tree))
    BY <2>1
  <2>3. d \in Int /\ Remaining = IF d > 0 THEN d - (n - i) - 1 ELSE d + (i - 1) + 1
    BY <2>2 DEF Numbers, Remaining
  <2>4. Remaining \in Int
    BY <2>3
  <2>5. Onward \in Int
    BY <2>4 DEF Onward
  <2> QED
    BY <1>1, <2>3, <2>5
<1>3. /\ pc' \in {"step", "up", "down", "returned"} /\ result' \in {result, "entry", "node", "end"}
      /\ touched' \in {touched, {}}
      /\ UNCHANGED <<eof, step, asked, browse, promised>>
  <2>1. CASE Loop
    BY <2>1 DEF Loop, Stepping, command
  <2>2. CASE StepUp
    BY <2>2 DEF StepUp, Stepping, command
  <2>3. CASE StepOnGroup
    BY <2>3 DEF StepOnGroup, Stepping, command
  <2>4. CASE StepToEntry
    BY <2>4 DEF StepToEntry, Stepping, command
  <2>5. CASE UpAtTop \/ Up \/ Down
    BY <2>5 DEF UpAtTop, Up, Down, Moving, command, history
  <2> QED
    BY <2>1, <2>2, <2>3, <2>4, <2>5 DEF Walk
<1> QED
  BY <1>2, <1>3 DEF Numbers

LEMMA VariableIsOption == ASSUME NEW name \in Names PROVE Variable(name) \in Options
BY ConfigAssumption DEF Names, Variable

LEMMA NumbersStep == LevelInv /\ CopyInv /\ Numbers /\ [Next]_vars => Numbers'
<1> SUFFICES ASSUME LevelInv, CopyInv, Numbers, [Next]_vars PROVE Numbers'
  OBVIOUS
<1>1. CASE Walk
  BY <1>1, WalkNumbers
<1>2. CASE Probed
  <2>1. /\ pc' \in {"up", "next", "step", "playing"} /\ d' \in {d, asked} /\ result' = result /\ step' \in {step, asked}
        /\ eof' \in {eof, 1, Sign(asked)} /\ UNCHANGED <<asked, browse, touched>>
    BY <1>2, LeftFor DEF Probed, Run
  <2>2. promised' \in {promised, copy.tree} /\ copy.tree \in Nodes
    BY <1>2 DEF Probed, CopyInv
  <2> QED
    BY <2>1, <2>2 DEF Numbers, Sign
<1>3. CASE Stepped
  <2>1. /\ pc' \in {"source", "idle"} /\ eof' \in {1, eof} /\ step' \in {1, step} /\ promised' = None
        /\ UNCHANGED <<d, result, asked, browse, touched>>
    BY <1>3 DEF Stepped
  <2> QED
    BY <2>1 DEF Numbers
<1>4. CASE Unwound
  <2>1. pc' \in {"up", "idle", "step"} /\ d' \in {0, d} /\ UNCHANGED <<result, command, touched, promised>>
    BY <1>4 DEF Unwound, Run, history
  <2> QED
    BY <2>1 DEF Numbers, command
<1>5. CASE GetSource
  <2>1. pc' \in {"step", "playing"} /\ d' \in {eof, d} /\ UNCHANGED <<result, command, touched, promised>>
    BY <1>5 DEF GetSource, Run, history
  <2> QED
    BY <2>1 DEF Numbers, command
<1>6. CASE File
  <2>1. /\ pc' \in {"next", "source"} /\ d' \in {step, d} /\ eof' = 1
        /\ UNCHANGED <<result, step, asked, browse, touched, promised>>
    BY <1>6 DEF File, EndOfFile, OpenFails, Run, history
  <2> QED
    BY <2>1 DEF Numbers
<1>7. CASE Begin
  <2>1. pc' = "step" /\ d' = 0 /\ eof' = 1 /\ UNCHANGED <<result, step, asked, browse, touched, promised>>
    BY <1>7 DEF Begin, Run
  <2> QED
    BY <2>1 DEF Numbers
<1>8. ASSUME NEW n \in Steps, NEW up \in BOOLEAN, NEW force \in BOOLEAN, CmdStep(n, up, force) PROVE Numbers'
  <2>1. n \in Int \ {0} /\ Sign(n) \in {1, -1}
    BY TreeAssumption DEF Sign
  <2>2. asked' \in {Sign(n), n} /\ UNCHANGED <<browse, touched, promised>>
    BY <1>8, StepBegins
  <2>3. /\ pc' \in {"up", "next", "step"} /\ d' = asked' /\ result' = result /\ step' \in {step, asked'}
        /\ eof' \in {eof, Sign(asked')}
    <3>1. CASE Leave(up, asked')
      BY <3>1, LeftFor
    <3>2. CASE pc' = (IF up THEN "up" ELSE "step") /\ d' = asked' /\ UNCHANGED <<eof, step, result>>
      BY <3>2
    <3> QED
      BY <1>8, <3>1, <3>2, StepBegins
  <2>4. asked' \in Int \ {0} /\ Sign(asked') \in {1, -1}
    BY <2>1, <2>2 DEF Sign
  <2> QED
    BY <2>2, <2>3, <2>4 DEF Numbers
<1>9. ASSUME NEW v \in {1, -1}, CmdSource(v) PROVE Numbers'
  <2>1. pc' = "source" /\ eof' = Sign(v) /\ UNCHANGED <<d, result, step, asked, browse, touched, promised>>
    BY <1>9 DEF CmdSource
  <2> QED
    BY <2>1 DEF Numbers, Sign
<1>10. ASSUME NEW purpose \in {"stop", "load"}, CmdUnwind(purpose) PROVE Numbers'
  <2>1. pc' = "up" /\ d' = 0 /\ eof' = 1 /\ UNCHANGED <<result, step, asked, browse, touched, promised>>
    BY <1>10 DEF CmdUnwind, Run
  <2> QED
    BY <2>1 DEF Numbers
<1>14. CASE \E n \in 0 .. Following : Browse(n)
  BY <1>14 DEF Browse, call, Numbers
<1>15. CASE NextFile \/ StepOn
  <2>1. /\ pc' \in {"playing", "step"} /\ eof' \in {1, eof} /\ browse' \in {browse, browse - 1} /\ (browse > 0 \/ browse' = browse)
        /\ promised' \in {promised, None} /\ UNCHANGED <<d, result, step, asked, touched>>
    BY <1>15 DEF NextFile, StepOn, command, history
  <2>2. browse' \in 0 .. Following
    BY <2>1, TreeAssumption DEF Numbers
  <2> QED
    BY <2>1, <2>2 DEF Numbers
<1>11. ASSUME NEW name \in Names, NEW value \in Values, SetWhilePlaying(name, value) \/ SetWhileIdle(name, value) PROVE Numbers'
  <2>1. UNCHANGED <<pc, d, result, eof, step, asked, browse, promised>> /\ touched' \in {touched, touched \cup {Variable(name)}}
    BY <1>11 DEF SetWhilePlaying, SetWhileIdle, call, command
  <2> QED
    BY <2>1, VariableIsOption DEF Numbers
<1>12. ASSUME NEW o \in Options, NEW value \in Values, WriteWhilePlaying(o, value) \/ WriteWhileIdle(o, value) PROVE Numbers'
  <2>1. UNCHANGED <<pc, d, result, eof, step, asked, browse, promised>> /\ touched' \in {touched, touched \cup {o}}
    BY <1>12 DEF WriteWhilePlaying, WriteWhileIdle, call, command
  <2> QED
    BY <2>1 DEF Numbers
<1>13. CASE UNCHANGED vars
  BY <1>13 DEF vars, call, command, history, Numbers
<1> QED
  BY <1>1, <1>2, <1>3, <1>4, <1>5, <1>6, <1>7, <1>8, <1>9, <1>10, <1>11, <1>12, <1>13, <1>14, <1>15 DEF Next, Player, User

Types == LevelInv /\ ConfigTyped(cfg) /\ CopyInv /\ Numbers

LEMMA TypesInit == Init => Types
<1> SUFFICES ASSUME Init PROVE Types
  OBVIOUS
<1>1. ConfigTyped(cfg)
  BY NewTyped DEF Init
<1>2. CopyInv
  BY FreshIterator DEF Init, CopyInv
<1>3. Numbers
  BY TreeAssumption DEF Init, Numbers
<1> QED
  BY <1>1, <1>2, <1>3, LevelInit DEF Types

LEMMA TypesStep == Types /\ [Next]_vars => Types'
BY LevelStep, ConfigStep, CopyStep, NumbersStep DEF Types

LEMMA TypesAlways == Spec => []Types
BY TypesInit, TypesStep, PTL DEF Spec

\* Everything the iterators, the configuration and the player hold has its type: an iterator is
\* on a node or freed, a slot of an option belongs to a level there is and holds a value.
THEOREM TreeTypes == Spec => []TypeOK
<1>1. Types => TypeOK
  BY DEF Types, LevelInv, Balanced, ConfigTyped, CopyInv, Numbers, TypeOK
<1> QED
  BY <1>1, TypesAlways, PTL
------------------------------------------------------------------------------
(* A copy walks as the player will.                                         *)

\* What a walk depends on: the place in the iterator's code and the direction, the node, the
\* loop counts.  The configuration and the source being played are not among it.
Seen(place, dir, tree, loop, stack, res) ==
  [place |-> place, d |-> dir, tree |-> tree, loop |-> loop, stack |-> stack, result |-> res]
View(i, place, dir, res) ==
  Seen(place, dir, i.tree, i.loop, i.stack, IF place = "returned" THEN res ELSE "none")

TargetOf(w) == LET i == Place(w.tree) + w.d IN
               IF i \in 1 .. Len(Siblings(w.tree)) THEN Siblings(w.tree)[i] ELSE None
LeftOf(w) == LET i == Place(w.tree) IN
             IF w.d > 0 THEN w.d - (Len(Siblings(w.tree)) - i) - 1 ELSE w.d + (i - 1) + 1
OnwardOf(w) == IF w.d > 0 THEN (IF LeftOf(w) = 0 THEN 1 ELSE LeftOf(w))
                          ELSE (IF LeftOf(w) = 0 THEN -1 ELSE LeftOf(w))
LoopAbove(w) == IF Tree[w.tree].parent = None THEN 0 ELSE Tree[Tree[w.tree].parent].loop
LoopsAt(w) ==
  /\ LoopAbove(w) # 0
  /\ \/ w.d > 0 /\ w.loop # 0
     \/ w.d < 0 /\ (w.loop < 0 \/ w.loop < LoopAbove(w))

\* Where a step of the walk leads.
Looped(w) ==
  LET s == Siblings(w.tree) IN
  Seen("step", 0, IF w.d > 0 THEN s[1] ELSE s[Len(s)],
       IF w.d > 0 THEN (IF w.loop > 0 THEN w.loop - 1 ELSE w.loop)
                  ELSE (IF w.loop >= 0 /\ w.loop < LoopAbove(w) THEN w.loop + 1 ELSE w.loop),
       w.stack, "none")
StepFrom(w) ==
  IF TargetOf(w) = None
  THEN IF LoopsAt(w) THEN Looped(w) ELSE Seen("up", OnwardOf(w), w.tree, w.loop, w.stack, "none")
  ELSE IF IsGroup(TargetOf(w)) THEN Seen("down", w.d, TargetOf(w), w.loop, w.stack, "none")
                               ELSE Seen("returned", w.d, TargetOf(w), w.loop, w.stack, "entry")
UpFrom(w) ==
  IF Tree[w.tree].parent = None THEN Seen("returned", w.d, w.tree, w.loop, w.stack, "end")
  ELSE Seen("step", w.d, Tree[w.tree].parent, w.stack[Len(w.stack)], SubSeq(w.stack, 1, Len(w.stack) - 1), "none")
DownFrom(w) ==
  LET kids == Tree[w.tree].kids IN
  Seen("step", 0, IF w.d >= 0 THEN kids[1] ELSE kids[Len(kids)], Tree[w.tree].loop - 1, Append(w.stack, w.loop), "none")
Moved(w) == IF w.place = "step" THEN StepFrom(w) ELSE IF w.place = "up" THEN UpFrom(w) ELSE DownFrom(w)

\* Whoever's iterator it is, a step of a walk leads where Moved says.
LEMMA WalkIsMoved ==
  ASSUME LevelInv, CopyInv, Walk, after \notin {"stop", "load"}
  PROVE  View(It, pc, d, result)' = Moved(View(It, pc, d, result))
<1> DEFINE w == View(It, pc, d, result)
<1>1. /\ It \in Iterators /\ It = (IF who = "iter" THEN iter ELSE copy) /\ who' = who /\ who \in {"iter", "copy"}
      /\ It' = (IF who' = "iter" THEN iter' ELSE copy')
  BY WalkerIs DEF It, LevelInv, Balanced, Walk, Loop, StepUp, StepOnGroup, StepToEntry, UpAtTop, Up, Down, Stepping, Moving
<1>2. \A i : SetIt(i) => It' = i
  BY <1>1 DEF SetIt
<1>3. w.place = pc /\ w.d = d /\ w.tree = It.tree /\ w.loop = It.loop /\ w.stack = It.stack
  BY DEF View, Seen
<1>4. /\ TargetOf(w) = Target /\ LoopAbove(w) = ParentLoop /\ LoopsAt(w) = MustLoop /\ OnwardOf(w) = Onward
  <2>1. TargetOf(w) = Target
    BY <1>3 DEF TargetOf, Target
  <2>2. LoopAbove(w) = ParentLoop
    BY <1>3 DEF LoopAbove, ParentLoop
  <2>3. LoopsAt(w) = MustLoop
    BY <1>3, <2>2 DEF LoopsAt, MustLoop
  <2>4. LeftOf(w) = Remaining
    BY <1>3 DEF LeftOf, Remaining
  <2>5. OnwardOf(w) = Onward
    BY <1>3, <2>4 DEF OnwardOf, Onward
  <2> QED
    BY <2>1, <2>2, <2>3, <2>5
<1> HIDE DEF w
<1>5. Unpushed \in Iterators /\ Unpushed.tree = It.tree /\ Unpushed.loop = It.loop /\ Unpushed.stack = It.stack
  BY <1>1 DEF Unpushed, Iterators
<1>6. View(It, pc, d, result)' = Seen(pc', d', It'.tree, It'.loop, It'.stack, IF pc' = "returned" THEN result' ELSE "none")
  BY DEF View
<1>7. CASE Loop
  <2> DEFINE t == IF d > 0 THEN Siblings(It.tree)[1] ELSE Siblings(It.tree)[Len(Siblings(It.tree))]
             l == IF d > 0 THEN (IF Unpushed.loop > 0 THEN Unpushed.loop - 1 ELSE Unpushed.loop)
                  ELSE (IF Unpushed.loop >= 0 /\ Unpushed.loop < ParentLoop THEN Unpushed.loop + 1 ELSE Unpushed.loop)
  <2>1. It' = [Unpushed EXCEPT !.tree = t, !.loop = l] /\ pc = "step" /\ pc' = "step" /\ d' = 0 /\ Target = None /\ MustLoop
    BY <1>2, <1>7 DEF Loop, Stepping
  <2>2. Moved(w) = Seen("step", 0, t, l, It.stack, "none")
    BY <1>3, <1>4, <1>5, <2>1 DEF Moved, StepFrom, Looped
  <2> HIDE DEF t, l
  <2>3. It'.tree = t /\ It'.loop = l /\ It'.stack = It.stack
    BY <1>5, <2>1 DEF Iterators
  <2> QED
    BY <1>6, <2>1, <2>2, <2>3 DEF w
<1>8. CASE StepUp
  <2>1. It' = Unpushed /\ pc = "step" /\ pc' = "up" /\ d' = Onward /\ Target = None /\ ~MustLoop
    BY <1>2, <1>8 DEF StepUp, Stepping
  <2>2. Moved(w) = Seen("up", Onward, It.tree, It.loop, It.stack, "none")
    BY <1>3, <1>4, <2>1 DEF Moved, StepFrom
  <2> QED
    BY <1>5, <1>6, <2>1, <2>2 DEF w
<1>9. CASE StepOnGroup
  <2>1. It' = [Unpushed EXCEPT !.tree = Target] /\ pc = "step" /\ pc' = "down" /\ d' = d /\ Target # None /\ IsGroup(Target)
    BY <1>2, <1>9 DEF StepOnGroup, Stepping
  <2>2. Moved(w) = Seen("down", d, Target, It.loop, It.stack, "none")
    BY <1>3, <1>4, <2>1 DEF Moved, StepFrom
  <2>3. It'.tree = Target /\ It'.loop = It.loop /\ It'.stack = It.stack
    BY <1>5, <2>1 DEF Iterators
  <2> QED
    BY <1>6, <2>1, <2>2, <2>3 DEF w
<1>10. CASE StepToEntry
  <2>1. /\ It' = [Unpushed EXCEPT !.tree = Target, !.pushed = (@ \/ who = "iter")]
        /\ pc = "step" /\ pc' = "returned" /\ result' = "entry" /\ d' = d /\ Target # None /\ ~IsGroup(Target)
    BY <1>2, <1>10 DEF StepToEntry, Stepping
  <2>2. Moved(w) = Seen("returned", d, Target, It.loop, It.stack, "entry")
    BY <1>3, <1>4, <2>1 DEF Moved, StepFrom
  <2>3. It'.tree = Target /\ It'.loop = It.loop /\ It'.stack = It.stack
    BY <1>5, <2>1 DEF Iterators
  <2> QED
    BY <1>6, <2>1, <2>2, <2>3 DEF w
<1>11. CASE UpAtTop
  <2>1. /\ It' = [It EXCEPT !.file = -1] /\ pc = "up" /\ pc' = "returned" /\ result' = "end" /\ d' = d
        /\ Tree[It.tree].parent = None
    BY <1>2, <1>11 DEF UpAtTop, Moving
  <2>2. Moved(w) = Seen("returned", d, It.tree, It.loop, It.stack, "end")
    BY <1>3, <2>1 DEF Moved, UpFrom
  <2>3. It'.tree = It.tree /\ It'.loop = It.loop /\ It'.stack = It.stack
    BY <1>1, <2>1 DEF Iterators
  <2> QED
    BY <1>6, <2>1, <2>2, <2>3 DEF w
<1>12. CASE Up
  <2> DEFINE p == Tree[It.tree].parent  l == It.stack[Len(It.stack)]  s == SubSeq(It.stack, 1, Len(It.stack) - 1)
  <2>1. It' = [It EXCEPT !.tree = p, !.file = -1, !.loop = l, !.stack = s] /\ pc = "up" /\ pc' = "step" /\ d' = d /\ p # None
    <3>1. It' = [It EXCEPT !.tree = Tree[@].parent, !.file = -1, !.loop = It.stack[Len(It.stack)],
                           !.stack = SubSeq(@, 1, Len(@) - 1)]
      BY <1>2, <1>12 DEF Up
    <3>2. pc = "up" /\ pc' = "step" /\ d' = d /\ p # None
      BY <1>12 DEF Up, Moving
    <3> QED
      BY <1>1, <3>1, <3>2 DEF Iterators
  <2>2. Moved(w) = Seen("step", d, p, l, s, "none")
    BY <1>3, <2>1 DEF Moved, UpFrom
  <2> HIDE DEF p, l, s
  <2>3. It'.tree = p /\ It'.loop = l /\ It'.stack = s
    BY <1>1, <2>1 DEF Iterators
  <2> QED
    BY <1>6, <2>1, <2>2, <2>3 DEF w
<1>13. CASE Down
  <2> DEFINE kids == Tree[It.tree].kids
             t == IF d >= 0 THEN kids[1] ELSE kids[Len(kids)]
             l == Tree[It.tree].loop - 1
             s == Append(It.stack, It.loop)
  <2>1. It' = [It EXCEPT !.tree = t, !.file = -1, !.loop = l, !.stack = s] /\ pc = "down" /\ pc' = "step" /\ d' = 0
    <3>1. It' = [It EXCEPT !.tree = t, !.file = -1, !.loop = l, !.stack = Append(@, It.loop)]
      BY <1>2, <1>13 DEF Down
    <3>2. pc = "down" /\ pc' = "step" /\ d' = 0
      BY <1>13 DEF Down, Moving
    <3> HIDE DEF t, l
    <3> QED
      BY <1>1, <3>1, <3>2 DEF Iterators
  <2>2. Moved(w) = Seen("step", 0, t, l, s, "none")
    BY <1>3, <2>1 DEF Moved, DownFrom
  <2> HIDE DEF t, l, s
  <2>3. It'.tree = t /\ It'.loop = l /\ It'.stack = s
    BY <1>1, <2>1 DEF Iterators
  <2> QED
    BY <1>6, <2>1, <2>2, <2>3 DEF w
<1> QED
  BY <1>7, <1>8, <1>9, <1>10, <1>11, <1>12, <1>13 DEF Walk

\* A walk from v comes to e: whatever has v, and with what is not returned also where it moves
\* to, has e.
Leads(v, e) == \A S : v \in S /\ (\A w \in S : w.place # "returned" => Moved(w) \in S) => e \in S

LEMMA LeadsOn ==
  ASSUME NEW v
  PROVE  /\ Leads(v, v)
         /\ \A e : Leads(v, e) /\ e.place # "returned" => Leads(v, Moved(e))
         /\ \A e : Leads(v, e) /\ v.place # "returned" /\ e.place = "returned" => Leads(Moved(v), e)
         /\ \A e : Leads(v, e) /\ v.place = "returned" => e = v
<1>1. Leads(v, v)
  BY DEF Leads
<1>2. ASSUME NEW e, Leads(v, e), e.place # "returned" PROVE Leads(v, Moved(e))
  BY <1>2 DEF Leads
<1>3. ASSUME NEW e, Leads(v, e), v.place # "returned", e.place = "returned" PROVE Leads(Moved(v), e)
  <2> SUFFICES ASSUME NEW S, Moved(v) \in S, \A w \in S : w.place # "returned" => Moved(w) \in S PROVE e \in S
    BY DEF Leads
  <2> DEFINE more == S \cup {v}
  <2>1. v \in more /\ \A w \in more : w.place # "returned" => Moved(w) \in more
    OBVIOUS
  <2>2. e \in more
    BY <1>3, <2>1 DEF Leads
  <2> QED
    BY <1>3, <2>2
<1>4. ASSUME NEW e, Leads(v, e), v.place = "returned" PROVE e = v
  <2>1. \A w \in {v} : w.place # "returned" => Moved(w) \in {v}
    BY <1>4
  <2>2. e \in {v}
    BY <1>4, <2>1 DEF Leads
  <2> QED
    BY <2>2
<1> QED
  BY <1>1, <1>2, <1>3, <1>4

Walking == pc \in {"step", "up", "down", "returned"}
\* From "next" the iterator takes its step, if the browser has no file.
IterView == View(iter, IF pc = "next" THEN "step" ELSE pc, d, result)
CopyView == View(copy, pc, d, result)
\* Where the player begins when the copy finds an entry.
StartView == View(iter, IF after = "probe up" THEN "up" ELSE "step", asked, result)
\* An entry that a walk from v finds.
Finds(v, x) == \E e : Leads(v, e) /\ e.place = "returned" /\ e.result = "entry" /\ e.tree = x

\* The copy is on the way the player will take; the player is on the way to the entry found.
OnTheWay ==
  /\ who = "copy" /\ Walking => after \in {"probe", "probe up"} /\ promised = None /\ Leads(StartView, CopyView)
  /\ promised # None => who = "iter" /\ after \in {"play", "up"} /\ (Walking \/ pc = "next") /\ Finds(IterView, promised)

LEMMA WalkOnTheWay == LevelInv /\ CopyInv /\ OnTheWay /\ Walk => OnTheWay'
<1> SUFFICES ASSUME LevelInv, CopyInv, OnTheWay, Walk PROVE OnTheWay'
  OBVIOUS
<1>1. /\ who' = who /\ who \in {"iter", "copy"} /\ after' = after /\ asked' = asked /\ promised' = promised
      /\ pc \in {"step", "up", "down"} /\ Walking
  <2>1. who' = who /\ after' = after /\ asked' = asked /\ promised' = promised
    BY DEF Walk, Loop, StepUp, StepOnGroup, StepToEntry, UpAtTop, Up, Down, Stepping, Moving, command, history
  <2> QED
    BY <2>1, WalkerIs DEF LevelInv, Balanced, Walking
<1>2. CASE who = "copy"
  <2>1. after \in {"probe", "probe up"} /\ promised = None /\ Leads(StartView, CopyView)
    BY <1>1, <1>2 DEF OnTheWay
  <2>2. CopyView' = Moved(CopyView)
    BY <1>1, <1>2, <2>1, WalkIsMoved DEF It, CopyView
  <2>3. iter' = iter
    BY <1>2 DEF Walk, Loop, StepUp, StepOnGroup, StepToEntry, UpAtTop, Up, Down, SetIt
  <2>4. StartView' = StartView
    BY <1>1, <2>3 DEF StartView, View
  <2>5. CopyView.place # "returned"
    BY <1>1 DEF CopyView, View, Seen
  <2>6. Leads(StartView, Moved(CopyView))
    BY <2>1, <2>5, LeadsOn
  <2>7. Leads(StartView', CopyView')
    BY <2>2, <2>4, <2>6
  <2> QED
    BY <1>1, <1>2, <2>1, <2>7 DEF OnTheWay, Leads
<1>3. CASE who = "iter" /\ promised # None
  <2>1. after \in {"play", "up"} /\ Finds(IterView, promised)
    BY <1>3 DEF OnTheWay
  <2>5. Walking'
    BY DEF Walking, Walk, Loop, StepUp, StepOnGroup, StepToEntry, UpAtTop, Up, Down, Stepping, Moving
  <2>6. IterView = View(iter, pc, d, result) /\ IterView' = View(iter, pc, d, result)'
    BY <1>1, <2>5 DEF IterView, Walking
  <2>2. IterView' = Moved(IterView)
    BY <1>1, <1>3, <2>1, <2>6, WalkIsMoved DEF It
  <2>3. IterView.place # "returned"
    BY <1>1, <2>6 DEF View, Seen
  <2>4. Finds(IterView', promised')
    BY <1>1, <2>1, <2>2, <2>3, LeadsOn DEF Finds
  <2> QED
    BY <1>1, <1>3, <2>1, <2>4, <2>5 DEF OnTheWay, Finds, Leads
<1>4. CASE who = "iter" /\ promised = None
  BY <1>1, <1>4 DEF OnTheWay
<1> QED
  BY <1>1, <1>2, <1>3, <1>4
LEMMA OnTheWayStep == Types /\ OnTheWay /\ [Next]_vars => OnTheWay'
<1> SUFFICES ASSUME Types, OnTheWay, [Next]_vars PROVE OnTheWay'
  OBVIOUS
<1>1. LevelInv /\ CopyInv
  BY DEF Types
<1>2. CASE Walk
  BY <1>1, <1>2, WalkOnTheWay
\* Nothing is promised, and no copy walks after the step.
<1> DEFINE Idles == promised' = None /\ (who' = "iter" \/ pc' \in {"idle", "source", "playing"})
<1>3. ASSUME Idles PROVE OnTheWay'
  BY <1>3 DEF OnTheWay, Walking
<1>4. ASSUME NEW n \in Steps, NEW up \in BOOLEAN, NEW force \in BOOLEAN, CmdStep(n, up, force) PROVE OnTheWay'
  <2>1. promised' = promised /\ promised = None /\ iter' = iter
    BY <1>4, StepBegins DEF OnTheWay, Walking
  <2>2. CASE Leave(up, asked')
    BY <1>3, <2>1, <2>2, LeftFor
  <2>3. CASE /\ copy' = iter /\ pc' = (IF up THEN "up" ELSE "step") /\ who' = "copy" /\ d' = asked'
             /\ after' = (IF up THEN "probe up" ELSE "probe") /\ UNCHANGED <<eof, step, result>>
    <3>1. /\ who' = "copy" /\ copy' = iter /\ result' = result /\ d' = asked'
          /\ (up /\ pc' = "up" /\ after' = "probe up") \/ (~up /\ pc' = "step" /\ after' = "probe")
      BY <2>3
    <3>2. CopyView' = StartView'
      BY <2>1, <3>1 DEF CopyView, StartView, View
    <3>3. Leads(StartView', CopyView')
      BY <3>2, LeadsOn
    <3> QED
      BY <2>1, <3>1, <3>3 DEF OnTheWay, Leads
  <2> QED
    BY <1>4, <2>2, <2>3, StepBegins
<1>5. CASE Probed
  <2>1. pc = "returned" /\ who = "copy" /\ after \in {"probe", "probe up"} /\ promised = None /\ Leads(StartView, CopyView)
        /\ iter' = iter
    BY <1>5 DEF Probed, OnTheWay, Walking
  <2>2. CASE result = "entry" /\ Leave(after = "probe up", asked) /\ promised' = copy.tree
    <3>1. /\ who' = "iter" /\ d' = asked /\ after' \in {"play", "up"} /\ result' = result
          /\ pc' \in {"up", "next", "step"}
      BY <2>2, LeftFor
    <3>2. (IF pc' = "next" THEN "step" ELSE pc') = (IF after = "probe up" THEN "up" ELSE "step")
      BY <2>2 DEF Leave, Run
    <3>3. IterView' = StartView
      BY <2>1, <3>1, <3>2 DEF IterView, StartView, View
    <3>4. CopyView.place = "returned" /\ CopyView.result = "entry" /\ CopyView.tree = copy.tree
      BY <2>1, <2>2 DEF CopyView, View, Seen
    <3>5. Finds(StartView, copy.tree)
      BY <2>1, <3>4 DEF Finds
    <3>6. Finds(IterView', promised')
      BY <2>2, <3>3, <3>5
    <3>7. Walking' \/ pc' = "next"
      BY <3>1 DEF Walking
    <3> QED
      BY <3>1, <3>6, <3>7 DEF OnTheWay, Finds, Leads
  <2>3. CASE promised' = promised /\ (pc' = "playing" \/ Run("next", "iter", asked, "play"))
    BY <1>3, <2>1, <2>3 DEF Run
  <2> QED
    BY <1>5, <2>2, <2>3 DEF Probed
<1>6. CASE Stepped
  BY <1>3, <1>6 DEF Stepped
<1>7. CASE Unwound
  <2>1. promised = None /\ who = "iter" /\ promised' = promised
    BY <1>1, <1>7 DEF Unwound, OnTheWay, history, LevelInv, PoppedInTime
  <2> QED
    BY <1>3, <1>7, <2>1 DEF Unwound, Run
<1>8. CASE GetSource \/ File
  <2>1. promised = None /\ promised' = promised
    BY <1>8 DEF GetSource, File, EndOfFile, OpenFails, OnTheWay, Walking, history
  <2> QED
    BY <1>3, <1>8, <2>1 DEF GetSource, File, EndOfFile, OpenFails, Run
<1>12. CASE NextFile
  BY <1>3, <1>12 DEF NextFile
<1>13. CASE StepOn
  <2>1. /\ pc = "next" /\ pc' = "step" /\ UNCHANGED <<iter, d, result, after, who, promised>> /\ who = "iter"
    BY <1>1, <1>13 DEF StepOn, history, LevelInv, PoppedInTime, Balanced
  <2>2. IterView' = IterView
    BY <2>1 DEF IterView, View
  <2>3. Walking'
    BY <2>1 DEF Walking
  <2> QED
    BY <2>1, <2>2, <2>3 DEF OnTheWay, Finds, Leads
<1>14. CASE \E n \in 0 .. Following : Browse(n)
  <2>1. promised = None /\ promised' = promised /\ pc' = pc /\ pc \in {"playing", "idle"}
    BY <1>14 DEF Browse, OnTheWay, Walking, call
  <2> QED
    BY <1>3, <2>1
<1>9. CASE Begin \/ (\E v \in {1, -1} : CmdSource(v)) \/ (\E purpose \in {"stop", "load"} : CmdUnwind(purpose))
  <2>1. promised = None /\ promised' = promised
    BY <1>9 DEF Begin, CmdSource, CmdUnwind, Commanded, OnTheWay, Walking
  <2> QED
    BY <1>3, <1>9, <2>1 DEF Begin, CmdSource, CmdUnwind, Run
<1>10. CASE (\E name \in Names, value \in Values : SetWhilePlaying(name, value) \/ SetWhileIdle(name, value))
            \/ (\E o \in Options, value \in Values : WriteWhilePlaying(o, value) \/ WriteWhileIdle(o, value))
  <2>1. promised = None /\ promised' = promised /\ pc' = pc /\ pc \in {"playing", "idle"}
    BY <1>10 DEF SetWhilePlaying, SetWhileIdle, WriteWhilePlaying, WriteWhileIdle, Commanded, OnTheWay, Walking, call
  <2> QED
    BY <1>3, <2>1
<1>11. CASE UNCHANGED vars
  <2>1. StartView' = StartView /\ CopyView' = CopyView /\ IterView' = IterView /\ UNCHANGED <<pc, who, after, promised>>
    BY <1>11 DEF StartView, CopyView, IterView, View, vars, call, command, history
  <2> QED
    BY <2>1 DEF OnTheWay, Walking, Finds, Leads
<1> QED
  BY <1>2, <1>4, <1>5, <1>6, <1>7, <1>8, <1>9, <1>10, <1>11, <1>12, <1>13, <1>14 DEF Next, Player, User

\* What a copy of the iterator finds before a command is obeyed is the entry the player then
\* steps to, unless the browser's next file plays instead of a step: nothing a copy lacks, neither the options nor the source being played, has a say in
\* where play_tree_iter_step goes.
THEOREM CopyIsHonest == Spec => []CopyTellsTruth
<1>1. Init => OnTheWay
  BY DEF Init, OnTheWay, Walking
<1>2. OnTheWay => CopyTellsTruth
  <2> SUFFICES ASSUME OnTheWay, pc = "returned", who = "iter", promised # None PROVE result = "entry" /\ iter.tree = promised
    BY DEF CopyTellsTruth
  <2>1. PICK e : Leads(IterView, e) /\ e.place = "returned" /\ e.result = "entry" /\ e.tree = promised
    BY DEF OnTheWay, Finds
  <2>2. IterView.place = "returned" /\ IterView.result = result /\ IterView.tree = iter.tree
    BY DEF IterView, View, Seen
  <2>3. e = IterView
    BY <2>1, <2>2, LeadsOn
  <2> QED
    BY <2>1, <2>2, <2>3
<1> QED
  BY <1>1, <1>2, OnTheWayStep, TypesAlways, PTL DEF Spec
------------------------------------------------------------------------------
(* An entry plays with its own options over those of its groups.            *)

\* The recursion of Expected, for the values b of the general options.
Given(b, y, o, above) ==
  IF Settings(y, o) # {} THEN Tree[y].params[Highest(Settings(y, o))][2]
  ELSE IF y = Root THEN b[o] ELSE above[Tree[y].parent]
IsWorth(b, o, f) ==
  f = [y \in Nodes |-> IF Settings(y, o) # {} THEN Tree[y].params[Highest(Settings(y, o))][2]
                       ELSE IF y = Root THEN b[o] ELSE f[Tree[y].parent]]
Worth(b, x, o) == (CHOOSE f : IsWorth(b, o, f))[x]

\* The nodes not deeper than k, and a solution for them.
UpTo(k) == {y \in Nodes : Depth[y] <= k}
Solves(b, o, k, g) == g = [y \in UpTo(k) |-> g[y]] /\ \A y \in UpTo(k) : g[y] = Given(b, y, o, g)

LEMMA ParentAbove ==
  ASSUME NEW y \in Nodes, y # Root
  PROVE  /\ Tree[y].parent \in Nodes /\ Depth[y] = Depth[Tree[y].parent] + 1
         /\ Depth[y] \in Nat /\ Depth[Tree[y].parent] \in Nat
BY TreeAssumption, DepthAssumption

LEMMA SolutionGrows ==
  ASSUME NEW b, NEW o, NEW k \in Nat, NEW g, Solves(b, o, k, g)
  PROVE  \E h : Solves(b, o, k + 1, h)
<1> DEFINE h == [y \in UpTo(k + 1) |-> IF y \in UpTo(k) THEN g[y] ELSE Given(b, y, o, g)]
<1>1. UpTo(k) \subseteq UpTo(k + 1)
  BY DepthAssumption DEF UpTo
<1>2. ASSUME NEW y \in UpTo(k + 1) PROVE h[y] = Given(b, y, o, h)
  <2>1. h[y] = Given(b, y, o, g)
    BY DEF Solves
  <2>2. CASE y = Root
    BY <2>1, <2>2 DEF Given
  <2>3. CASE y # Root
    <3>1. Tree[y].parent \in Nodes /\ Depth[y] = Depth[Tree[y].parent] + 1 /\ Depth[Tree[y].parent] \in Nat /\ Depth[y] <= k + 1
      BY <2>3, ParentAbove DEF UpTo
    <3>2. Tree[y].parent \in UpTo(k)
      BY <3>1 DEF UpTo
    <3>3. h[Tree[y].parent] = g[Tree[y].parent]
      BY <1>1, <3>2
    <3> HIDE DEF h
    <3> QED
      BY <2>1, <3>3 DEF Given
  <2> QED
    BY <2>2, <2>3
<1>3. h = [y \in UpTo(k + 1) |-> h[y]]
  OBVIOUS
<1> HIDE DEF h
<1> QED
  BY <1>2, <1>3 DEF Solves

LEMMA SolutionExists == ASSUME NEW b, NEW o, NEW k \in Nat PROVE \E g : Solves(b, o, k, g)
<1> DEFINE Bad == {n \in Nat : ~\E g : Solves(b, o, n, g)}
<1>1. 0 \notin Bad
  <2> DEFINE g == [y \in UpTo(0) |-> Given(b, y, o, <<>>)]
  <2>1. \A y \in UpTo(0) : y = Root
    BY ParentAbove DEF UpTo
  <2>2. \A y \in UpTo(0) : g[y] = Given(b, y, o, g)
    BY <2>1 DEF Given
  <2>3. g = [y \in UpTo(0) |-> g[y]]
    OBVIOUS
  <2> HIDE DEF g
  <2> QED
    BY <2>2, <2>3 DEF Solves
<1> SUFFICES ASSUME Bad # {} PROVE FALSE
  OBVIOUS
<1>2. PICK m \in Bad : \A n \in Bad : m <= n
  <2>1. Bad \in SUBSET Nat
    OBVIOUS
  <2> HIDE DEF Bad
  <2> QED
    BY <2>1, Least
<1>3. m \in Nat /\ m # 0 /\ m - 1 \in Nat /\ (m - 1) + 1 = m /\ ~(m <= m - 1)
  BY <1>1
<1>4. PICK g : Solves(b, o, m - 1, g)
  BY <1>2, <1>3
<1>5. \E h : Solves(b, o, (m - 1) + 1, h)
  BY <1>3, <1>4, SolutionGrows
<1> QED
  BY <1>3, <1>5

\* The deepest node bounds the depth of all.
LEMMA DepthBounded == \E n \in Nat : \A x \in Nodes : Depth[x] \in 0 .. n
<1>1. PICK y \in Nodes : \A x \in Nodes : Depth[x] <= Depth[y]
  BY DepthAssumption
<1>2. Depth[y] \in Nat /\ \A x \in Nodes : Depth[x] \in Nat
  BY DepthAssumption
<1> QED
  BY <1>1, <1>2

LEMMA WorthExists == ASSUME NEW b, NEW o PROVE \E f : IsWorth(b, o, f)
<1>1. PICK n \in Nat : \A x \in Nodes : Depth[x] \in 0 .. n
  BY DepthBounded
<1>2. PICK f : Solves(b, o, n, f)
  BY SolutionExists
<1>3. UpTo(n) = Nodes
  BY <1>1 DEF UpTo
<1>4. f = [y \in Nodes |-> f[y]] /\ \A y \in Nodes : f[y] = Given(b, y, o, f)
  BY <1>2, <1>3 DEF Solves
<1> QED
  BY <1>4 DEF IsWorth, Given

LEMMA WorthIs ==
  ASSUME NEW b, NEW x \in Nodes, NEW o
  PROVE  Worth(b, x, o) = IF Settings(x, o) # {} THEN Tree[x].params[Highest(Settings(x, o))][2]
                          ELSE IF x = Root THEN b[o] ELSE Worth(b, Tree[x].parent, o)
<1> DEFINE f == CHOOSE g : IsWorth(b, o, g)
<1>1. IsWorth(b, o, f)
  BY WorthExists
<1>2. \A y : Worth(b, y, o) = f[y]
  BY DEF Worth
<1> HIDE DEF f
<1> QED
  BY <1>1, <1>2 DEF IsWorth

LEMMA ExpectedIs == \A x, o : Expected(x, o) = Worth(base, x, o)
BY DEF Expected, Worth, IsWorth
\* y is x or a group that x is in: whatever has x, and with a node its group, has y.
OnWay(x, y) == \A S : x \in S /\ (\A z \in S : z \in Nodes \ {Root} => Tree[z].parent \in S) => y \in S

LEMMA WayIs ==
  ASSUME NEW x \in Nodes
  PROVE  /\ OnWay(x, x)
         /\ \A y : OnWay(x, y) => y \in Nodes /\ (y = x \/ Depth[y] < Depth[x])
         /\ x # Root => \A y : OnWay(x, y) <=> y = x \/ OnWay(Tree[x].parent, y)
         /\ x = Root => \A y : OnWay(x, y) => y = x
<1>1. OnWay(x, x)
  BY DEF OnWay
<1>2. ASSUME NEW y, OnWay(x, y) PROVE y \in Nodes /\ (y = x \/ Depth[y] < Depth[x])
  <2> DEFINE S == {z \in Nodes : z = x \/ Depth[z] < Depth[x]}
  <2>1. ASSUME NEW z \in S, z \in Nodes \ {Root} PROVE Tree[z].parent \in S
    <3>1. Tree[z].parent \in Nodes /\ Depth[z] = Depth[Tree[z].parent] + 1 /\ Depth[Tree[z].parent] \in Nat /\ Depth[x] \in Nat
      BY <2>1, ParentAbove, DepthAssumption
    <3> QED
      BY <2>1, <3>1
  <2>2. x \in S
    OBVIOUS
  <2> HIDE DEF S
  <2>3. y \in S
    BY <1>2, <2>1, <2>2 DEF OnWay
  <2> QED
    BY <2>3 DEF S
<1>3. ASSUME x # Root, NEW y, OnWay(Tree[x].parent, y) PROVE OnWay(x, y)
  BY <1>3 DEF OnWay
<1>4. ASSUME x # Root, NEW y, OnWay(x, y), y # x PROVE OnWay(Tree[x].parent, y)
  <2> SUFFICES ASSUME NEW S, Tree[x].parent \in S, \A z \in S : z \in Nodes \ {Root} => Tree[z].parent \in S PROVE y \in S
    BY DEF OnWay
  <2>1. y \in S \cup {x}
    BY <1>4 DEF OnWay
  <2> QED
    BY <1>4, <2>1
<1>5. ASSUME x = Root, NEW y, OnWay(x, y) PROVE y = x
  <2>1. \A z \in {x} : z \in Nodes \ {Root} => Tree[z].parent \in {x}
    BY <1>5
  <2>2. y \in {x}
    BY <1>5, <2>1 DEF OnWay
  <2> QED
    BY <2>2
<1> QED
  BY <1>1, <1>2, <1>3, <1>4, <1>5

\* A configuration at x: the slot of each level below its own holds what the options are for
\* the group of that level, that of level 1 the general options, and the variables are what they
\* are for the node of its own level, but for some the user changed.
LayeredIn(c, b, x, o, spared) ==
  /\ Levels(c, o) = 0 .. c.lvl
  /\ c.lvl > 1 => c.saved[o][1] = b[o]
  /\ \A y \in Nodes : OnWay(x, y) /\ Depth[y] + 2 < c.lvl => c.saved[o][Depth[y] + 2] = Worth(b, y, o)
  /\ ~spared => /\ c.lvl = 1 => c.var[o] = b[o]
                /\ \A y \in Nodes : OnWay(x, y) /\ Depth[y] + 2 = c.lvl => c.var[o] = Worth(b, y, o)
Layered(c, b, x, but) == \A o \in Options \ OldOptions : LayeredIn(c, b, x, o, o \in but)

\* The slot in use is that of the level.
LEMMA TopIsLevel ==
  ASSUME NEW c, c.lvl \in Nat, NEW o, Levels(c, o) = 0 .. c.lvl
  PROVE  Top(c, o) = c.lvl
<1>1. Levels(c, o) \in SUBSET Int /\ c.lvl \in Levels(c, o) /\ \A k \in Levels(c, o) : k <= c.lvl
  OBVIOUS
<1> QED
  BY <1>1, HighestIs DEF Top

LEMMA PopLayered ==
  ASSUME NEW c, c.lvl \in Nat, c.lvl > 1, NEW b, NEW x, NEW but, Layered(c, b, x, but)
  PROVE  Layered(Pop(c), b, x, {})
<1> DEFINE e == Pop(c)
<1>1. e.lvl = c.lvl - 1
  BY LevelOf
<1> SUFFICES ASSUME NEW o \in Options \ OldOptions PROVE LayeredIn(e, b, x, o, o \in {})
  BY DEF Layered
<1>2. LayeredIn(c, b, x, o, o \in but)
  BY DEF Layered
<1> DEFINE kept == {l \in Levels(c, o) : l < c.lvl}
<1>3. e.saved[o] = [l \in kept |-> c.saved[o][l]]
      /\ e.var[o] = (IF kept # Levels(c, o) THEN c.saved[o][Highest(kept)] ELSE c.var[o])
  BY DEF Pop
<1>4. kept = 0 .. c.lvl - 1 /\ c.lvl \in Levels(c, o) /\ c.lvl \notin kept
  BY <1>2 DEF LayeredIn
<1>5. Highest(kept) = c.lvl - 1
  <2>1. kept \in SUBSET Int /\ c.lvl - 1 \in kept /\ \A k \in kept : k <= c.lvl - 1
    BY <1>4
  <2> HIDE DEF kept
  <2> QED
    BY <2>1, HighestIs
<1> HIDE DEF e, kept
<1>6. Levels(e, o) = 0 .. e.lvl /\ (\A l \in 0 .. e.lvl : e.saved[o][l] = c.saved[o][l]) /\ e.var[o] = c.saved[o][e.lvl]
  BY <1>1, <1>3, <1>4, <1>5 DEF Levels
<1>7. e.lvl > 1 => e.saved[o][1] = b[o]
  BY <1>1, <1>2, <1>6 DEF LayeredIn
<1>8. e.lvl = 1 => e.var[o] = b[o]
  BY <1>2, <1>6 DEF LayeredIn
<1>9. ASSUME NEW y \in Nodes, OnWay(x, y), Depth[y] + 2 <= e.lvl PROVE c.saved[o][Depth[y] + 2] = Worth(b, y, o)
  <2>1. Depth[y] + 2 < c.lvl
    BY <1>1, <1>9, DepthAssumption
  <2> QED
    BY <1>2, <1>9, <2>1 DEF LayeredIn
<1>10. ASSUME NEW y \in Nodes, OnWay(x, y), Depth[y] + 2 < e.lvl PROVE e.saved[o][Depth[y] + 2] = Worth(b, y, o)
  <2>1. Depth[y] + 2 \in 0 .. e.lvl /\ Depth[y] + 2 <= e.lvl
    BY <1>1, <1>10, DepthAssumption
  <2> QED
    BY <1>6, <1>9, <1>10, <2>1
<1>11. ASSUME NEW y \in Nodes, OnWay(x, y), Depth[y] + 2 = e.lvl PROVE e.var[o] = Worth(b, y, o)
  <2>1. Depth[y] + 2 <= e.lvl
    BY <1>1, <1>11, DepthAssumption
  <2> QED
    BY <1>6, <1>9, <1>11, <2>1
<1> QED
  BY <1>6, <1>7, <1>8, <1>10, <1>11 DEF LayeredIn

\* Options are given, and the user sets them, by their own names.
OwnNames == MayAlias = FALSE /\ \A x \in Nodes : \A i \in 1 .. Len(Tree[x].params) : Tree[x].params[i][1] \notin Aliases

LEMMA PushLayered ==
  ASSUME OwnNames, NEW c, NEW x \in Nodes, c.lvl = 1 + Depth[x], NEW b, Layered(c, b, x, {})
  PROVE  Layered(PushParams(c, x), b, x, {})
<1> DEFINE p == Push(c)  params == Tree[x].params  e == SetOptions(p, params)
<1>1. e = PushParams(c, x) /\ p.lvl = c.lvl + 1 /\ e.lvl = c.lvl + 1 /\ c.lvl \in Nat /\ c.lvl >= 1 /\ Depth[x] \in Nat
  BY LevelOf, DepthAssumption DEF PushParams
<1> SUFFICES ASSUME NEW o \in Options \ OldOptions PROVE LayeredIn(e, b, x, o, o \in {})
  BY <1>1 DEF Layered
<1>2. LayeredIn(c, b, x, o, o \in {})
  BY DEF Layered
<1>3. Levels(c, o) = 0 .. c.lvl /\ Top(c, o) = c.lvl
  BY <1>1, <1>2, TopIsLevel DEF LayeredIn
<1>4. p.saved[o] = [l \in Levels(c, o) \cup {c.lvl + 1} |-> IF l \in {Top(c, o), c.lvl + 1} THEN c.var[o] ELSE c.saved[o][l]]
      /\ p.var = c.var
  BY DEF Push
<1> HIDE DEF p
<1>5. /\ Levels(p, o) = 0 .. p.lvl /\ p.saved[o][c.lvl] = c.var[o]
      /\ \A l \in 0 .. c.lvl - 1 : p.saved[o][l] = c.saved[o][l]
  BY <1>1, <1>3, <1>4 DEF Levels
<1>6. Top(p, o) = c.lvl + 1
  BY <1>1, <1>5, TopIsLevel
<1> DEFINE slot(l) == {i \in 1 .. Len(params) : Variable(params[i][1]) = o /\ Slot(p, params[i][1]) = l}
<1>7. Levels(e, o) = Levels(p, o) /\ \A l \in Levels(p, o) : e.saved[o][l] = IF slot(l) = {} THEN p.saved[o][l] ELSE params[Highest(slot(l))][2]
  BY DEF SetOptions, Levels
<1>8. e.var[o] = IF Settings(x, o) = {} THEN c.var[o] ELSE params[Highest(Settings(x, o))][2]
  BY <1>4 DEF SetOptions, Settings
<1>9. \A l \in 0 .. c.lvl : slot(l) = {}
  <2>1. \A i \in 1 .. Len(params) : params[i][1] \notin Aliases
    BY DEF OwnNames
  <2>2. \A i \in 1 .. Len(params) : Variable(params[i][1]) = o => Slot(p, params[i][1]) = c.lvl + 1
    BY <1>6, <2>1 DEF Variable, Slot
  <2> QED
    BY <1>1, <2>2
<1> HIDE DEF e, slot
<1>10. Levels(e, o) = 0 .. e.lvl /\ e.saved[o][c.lvl] = c.var[o] /\ \A l \in 0 .. c.lvl - 1 : e.saved[o][l] = c.saved[o][l]
  BY <1>1, <1>5, <1>7, <1>9
<1>11. e.lvl > 1 => e.saved[o][1] = b[o]
  <2>1. CASE c.lvl = 1
    BY <1>2, <1>10, <2>1 DEF LayeredIn
  <2>2. CASE c.lvl > 1
    BY <1>1, <1>2, <1>10, <2>2 DEF LayeredIn
  <2> QED
    BY <1>1, <2>1, <2>2
<1>12. ASSUME NEW y \in Nodes, OnWay(x, y), Depth[y] + 2 < e.lvl PROVE e.saved[o][Depth[y] + 2] = Worth(b, y, o)
  <2>1. PICK l \in Nat : l = Depth[y] + 2 /\ l <= c.lvl
    BY <1>1, <1>12, DepthAssumption
  <2>2. CASE l = c.lvl
    BY <1>2, <1>10, <1>12, <2>1, <2>2 DEF LayeredIn
  <2>3. CASE l < c.lvl
    <3>1. c.saved[o][l] = Worth(b, y, o)
      BY <1>2, <1>12, <2>1, <2>3 DEF LayeredIn
    <3>2. l \in 0 .. c.lvl - 1
      BY <1>1, <2>3
    <3> QED
      BY <1>10, <2>1, <3>1, <3>2
  <2> QED
    BY <1>1, <2>1, <2>2, <2>3
<1>13. ASSUME NEW y \in Nodes, OnWay(x, y), Depth[y] + 2 = e.lvl PROVE e.var[o] = Worth(b, y, o)
  <2>1. Depth[y] = Depth[x]
    BY <1>1, <1>13, DepthAssumption
  <2>2. y = x
    BY <1>1, <1>13, <2>1, WayIs
  <2>3. Worth(b, x, o) = IF Settings(x, o) # {} THEN params[Highest(Settings(x, o))][2]
                         ELSE IF x = Root THEN b[o] ELSE Worth(b, Tree[x].parent, o)
    BY WorthIs
  <2>4. c.var[o] = IF x = Root THEN b[o] ELSE Worth(b, Tree[x].parent, o)
    <3>1. CASE x = Root
      BY <1>1, <1>2, <3>1, DepthAssumption DEF LayeredIn
    <3>2. CASE x # Root
      <4>1. Tree[x].parent \in Nodes /\ Depth[x] = Depth[Tree[x].parent] + 1 /\ Depth[Tree[x].parent] \in Nat
        BY <3>2, ParentAbove
      <4>2. OnWay(x, Tree[x].parent) /\ Depth[Tree[x].parent] + 2 = c.lvl
        BY <3>2, <4>1, WayIs
      <4> QED
        BY <1>2, <3>2, <4>1, <4>2 DEF LayeredIn
    <3> QED
      BY <3>1, <3>2
  <2> QED
    BY <1>8, <2>2, <2>3, <2>4
<1>14. e.lvl # 1
  BY <1>1
<1> QED
  BY <1>10, <1>11, <1>12, <1>13, <1>14 DEF LayeredIn

LEMMA MoveLayered ==
  ASSUME NEW c, NEW b, NEW x, NEW t, NEW but, Layered(c, b, x, but),
         \A y \in Nodes : OnWay(t, y) /\ Depth[y] + 2 <= c.lvl => OnWay(x, y), c.lvl \in Nat
  PROVE  Layered(c, b, t, but)
<1> SUFFICES ASSUME NEW o \in Options \ OldOptions PROVE LayeredIn(c, b, t, o, o \in but)
  BY DEF Layered
<1>1. LayeredIn(c, b, x, o, o \in but)
  BY DEF Layered
<1>2. \A y \in Nodes : Depth[y] + 2 \in Nat
  BY DepthAssumption
<1> QED
  BY <1>1, <1>2 DEF LayeredIn

\* One option set.
LEMMA SetOptionIs ==
  ASSUME NEW c, NEW name, NEW value, NEW o \in Options, NEW e, e = SetOption(c, name, value)
  PROVE  /\ e.lvl = c.lvl /\ Levels(e, o) = Levels(c, o)
         /\ e.var[o] = IF Variable(name) = o THEN value ELSE c.var[o]
         /\ \A l \in Levels(c, o) : e.saved[o][l] = IF Variable(name) = o /\ Slot(c, name) = l THEN value ELSE c.saved[o][l]
<1> DEFINE params == << <<name, value>> >>
           mine == {i \in 1 .. Len(params) : Variable(params[i][1]) = o}
           slot(l) == {i \in 1 .. Len(params) : Variable(params[i][1]) = o /\ Slot(c, params[i][1]) = l}
<1>1. Len(params) = 1 /\ params[1][1] = name /\ params[1][2] = value /\ 1 .. Len(params) = {1}
  OBVIOUS
<1>2. mine = (IF Variable(name) = o THEN {1} ELSE {})
      /\ \A l : slot(l) = IF Variable(name) = o /\ Slot(c, name) = l THEN {1} ELSE {}
  BY <1>1
<1>3. Highest({1}) = 1
  BY HighestIs
<1>4. /\ e.lvl = c.lvl /\ Levels(e, o) = Levels(c, o)
      /\ e.var[o] = IF mine = {} THEN c.var[o] ELSE params[Highest(mine)][2]
      /\ \A l \in Levels(c, o) : e.saved[o][l] = IF slot(l) = {} THEN c.saved[o][l] ELSE params[Highest(slot(l))][2]
  BY DEF SetOption, SetOptions, Levels
<1> HIDE DEF params, mine, slot
<1> QED
  BY <1>1, <1>2, <1>3, <1>4

\* What the user sets while an entry plays is in the variables, and in the slot of its level.
LEMMA SetLayered ==
  ASSUME NEW c, c.lvl \in Nat, NEW b, NEW x, NEW but, Layered(c, b, x, but), NEW name \in Names \ Aliases, NEW value
  PROVE  Layered(SetOption(c, name, value), b, x, but \cup {Variable(name)})
<1>0. PICK e : e = SetOption(c, name, value)
  OBVIOUS
<1> SUFFICES ASSUME NEW o \in Options \ OldOptions PROVE LayeredIn(e, b, x, o, o \in but \cup {Variable(name)})
  BY <1>0 DEF Layered
<1>1. LayeredIn(c, b, x, o, o \in but)
  BY DEF Layered
<1>2. /\ e.lvl = c.lvl /\ Levels(e, o) = Levels(c, o)
      /\ e.var[o] = IF Variable(name) = o THEN value ELSE c.var[o]
      /\ \A l \in Levels(c, o) : e.saved[o][l] = IF Variable(name) = o /\ Slot(c, name) = l THEN value ELSE c.saved[o][l]
  BY <1>0, SetOptionIs
<1>3. Levels(c, o) = 0 .. c.lvl /\ Top(c, o) = c.lvl
  BY <1>1, TopIsLevel DEF LayeredIn
<1>4. Variable(name) = o => Slot(c, name) = c.lvl
  BY <1>3 DEF Variable, Slot
<1>5. \A l \in 0 .. c.lvl : l < c.lvl => e.saved[o][l] = c.saved[o][l]
  BY <1>2, <1>3, <1>4
<1>6. e.lvl > 1 => e.saved[o][1] = b[o]
  BY <1>1, <1>2, <1>5 DEF LayeredIn
<1>7. ASSUME NEW y \in Nodes, OnWay(x, y), Depth[y] + 2 < e.lvl PROVE e.saved[o][Depth[y] + 2] = Worth(b, y, o)
  <2>1. Depth[y] + 2 \in 0 .. c.lvl
    BY <1>2, <1>7, DepthAssumption
  <2> QED
    BY <1>1, <1>2, <1>5, <1>7, <2>1 DEF LayeredIn
<1> QED
  BY <1>1, <1>2, <1>3, <1>6, <1>7 DEF LayeredIn

LEMMA WriteLayered ==
  ASSUME NEW c, ConfigTyped(c), NEW b, NEW x, NEW but, Layered(c, b, x, but), NEW v \in Options, NEW value
  PROVE  Layered(WriteVariable(c, v, value), b, x, but \cup {v})
<1> DEFINE e == WriteVariable(c, v, value)
<1>1. e.lvl = c.lvl /\ e.saved = c.saved /\ \A o \in Options : e.var[o] = IF o = v THEN value ELSE c.var[o]
  <2>1. c = [lvl |-> c.lvl, saved |-> c.saved, var |-> c.var, set |-> c.set] /\ c.var \in [Options -> Values]
    BY DEF ConfigTyped
  <2> QED
    BY <2>1 DEF WriteVariable
<1> HIDE DEF e
<1> SUFFICES ASSUME NEW o \in Options \ OldOptions PROVE LayeredIn(e, b, x, o, o \in but \cup {v})
  BY DEF Layered, e
<1>2. LayeredIn(c, b, x, o, o \in but)
  BY DEF Layered
<1> QED
  BY <1>1, <1>2 DEF LayeredIn, Levels
LEMMA SparesMore ==
  ASSUME NEW c, NEW b, NEW x, NEW but, NEW more, Layered(c, b, x, but), but \subseteq more
  PROVE  Layered(c, b, x, more)
BY DEF Layered, LayeredIn

\* While nothing plays the general options are what changes.
LEMMA GeneralSet ==
  ASSUME NEW c, c.lvl = 1, NEW b \in [Options -> Values], NEW x, Layered(c, b, x, {}), NEW name \in Names, NEW value \in Values
  PROVE  Layered(SetOption(c, name, value), [b EXCEPT ![Variable(name)] = value], x, {})
<1>0. PICK e, g : e = SetOption(c, name, value) /\ g = [b EXCEPT ![Variable(name)] = value]
  OBVIOUS
<1> SUFFICES ASSUME NEW o \in Options \ OldOptions PROVE LayeredIn(e, g, x, o, o \in {})
  BY <1>0 DEF Layered
<1>1. LayeredIn(c, b, x, o, o \in {})
  BY DEF Layered
<1>2. e.lvl = 1 /\ Levels(e, o) = Levels(c, o) /\ e.var[o] = IF Variable(name) = o THEN value ELSE c.var[o]
  BY <1>0, SetOptionIs
<1>3. g[o] = IF Variable(name) = o THEN value ELSE b[o]
  BY <1>0
<1>4. \A y \in Nodes : ~(Depth[y] + 2 < 1) /\ Depth[y] + 2 # 1
  BY DepthAssumption
<1> QED
  BY <1>1, <1>2, <1>3, <1>4 DEF LayeredIn

LEMMA GeneralWritten ==
  ASSUME NEW c, ConfigTyped(c), c.lvl = 1, NEW b \in [Options -> Values], NEW x, Layered(c, b, x, {}), NEW v \in Options, NEW value \in Values
  PROVE  Layered(WriteVariable(c, v, value), [b EXCEPT ![v] = value], x, {})
<1> DEFINE e == WriteVariable(c, v, value)  g == [b EXCEPT ![v] = value]
<1> SUFFICES ASSUME NEW o \in Options \ OldOptions PROVE LayeredIn(e, g, x, o, o \in {})
  BY DEF Layered
<1>1. LayeredIn(c, b, x, o, o \in {})
  BY DEF Layered
<1>2. e.lvl = 1 /\ Levels(e, o) = Levels(c, o) /\ e.var[o] = IF o = v THEN value ELSE c.var[o]
  <2>1. c = [lvl |-> c.lvl, saved |-> c.saved, var |-> c.var, set |-> c.set] /\ c.var \in [Options -> Values]
    BY DEF ConfigTyped
  <2> QED
    BY <2>1 DEF WriteVariable, Levels
<1>3. g[o] = IF o = v THEN value ELSE b[o]
  OBVIOUS
<1>4. \A y \in Nodes : ~(Depth[y] + 2 < 1) /\ Depth[y] + 2 # 1
  BY DepthAssumption
<1> HIDE DEF e, g
<1> QED
  BY <1>1, <1>2, <1>3, <1>4 DEF LayeredIn

\* Beside a node and above it are the same groups.
LEMMA SameGroups ==
  ASSUME NEW x \in Nodes, NEW i \in 1 .. Len(Siblings(x)), NEW y \in Nodes, OnWay(Siblings(x)[i], y), Depth[y] + 2 <= 1 + Depth[x]
  PROVE  OnWay(x, y)
<1> DEFINE t == Siblings(x)[i]
<1>1. t \in Nodes /\ Depth[t] = Depth[x] /\ (x # Root => t # Root)
  BY Beside
<1>2. y # t
  <2>1. Depth[x] \in Nat /\ Depth[y] \in Nat
    BY DepthAssumption
  <2> QED
    BY <1>1, <2>1
<1>3. CASE x = Root
  BY <1>3, TreeAssumption DEF Siblings
<1>4. CASE x # Root
  <2>1. Tree[x].parent \in Nodes /\ Siblings(x) = Tree[Tree[x].parent].kids
    BY <1>4, TreeAssumption DEF Siblings
  <2>2. Tree[t].parent = Tree[x].parent
    <3>1. \A k \in 1 .. Len(Tree[Tree[x].parent].kids) : Tree[Tree[Tree[x].parent].kids[k]].parent = Tree[x].parent
      BY <2>1, TreeAssumption
    <3> QED
      BY <2>1, <3>1
  <2> HIDE DEF t
  <2>3. OnWay(Tree[t].parent, y)
    BY <1>1, <1>2, <1>4, WayIs DEF t
  <2> QED
    BY <1>4, <2>2, <2>3, WayIs
<1> QED
  BY <1>3, <1>4

\* The configuration fits where the iterator is, and the options of the entry are pushed while
\* it plays, and not when a group is entered.
Fits(c, b, i, t) == b \in [Options -> Values] /\ Layered(c, b, i.tree, IF i.pushed THEN t ELSE {})
Pushed(i, place, whose, res) ==
  /\ place \in {"next", "source", "playing"} => i.pushed
  /\ whose = "copy" /\ place \in {"step", "up", "down", "returned"} => i.pushed
  /\ place = "returned" /\ whose = "iter" /\ res = "entry" => i.pushed
  /\ place = "down" /\ whose = "iter" => ~i.pushed
OptionsInv == Fits(cfg, base, iter, touched) /\ Pushed(iter, pc, who, result)

\* The options of the entry are popped.
LEMMA EntryLayered ==
  ASSUME LevelInv, OptionsInv, who = "iter", pc # "idle"
  PROVE  /\ Layered(EntryPopped, base, iter.tree, {}) /\ EntryPopped.lvl = 1 + Depth[iter.tree]
         /\ iter.tree \in Nodes /\ Depth[iter.tree] \in Nat
<1>1. /\ It = iter /\ iter.tree \in Nodes /\ Len(iter.stack) = Depth[iter.tree] /\ Depth[iter.tree] \in Nat
      /\ cfg.lvl = 1 + Depth[iter.tree] + (IF iter.pushed THEN 1 ELSE 0)
  BY DepthAssumption DEF LevelInv, Balanced, It
<1>2. Layered(cfg, base, iter.tree, IF iter.pushed THEN touched ELSE {})
  BY DEF OptionsInv, Fits
<1>3. CASE iter.pushed
  <2>1. EntryPopped = Pop(cfg) /\ cfg.lvl \in Nat /\ cfg.lvl > 1
    BY <1>1, <1>3 DEF EntryPopped, Configured
  <2>2. Layered(Pop(cfg), base, iter.tree, {})
    BY <1>2, <2>1, PopLayered
  <2> QED
    BY <1>1, <2>1, <2>2, EntryIsPopped
<1>4. CASE ~iter.pushed
  <2>1. EntryPopped = cfg
    BY <1>1, <1>4 DEF EntryPopped
  <2>2. Layered(cfg, base, iter.tree, {})
    BY <1>2, <1>4
  <2> QED
    BY <1>1, <1>4, <2>1, <2>2
<1> QED
  BY <1>3, <1>4
LEMMA PlayerWalksOptions ==
  ASSUME OwnNames, LevelInv, OptionsInv, Walk, who = "iter"
  PROVE  Fits(cfg', base', iter', touched')
<1>1. /\ It = iter /\ pc # "idle" /\ iter \in Iterators /\ Unpushed.tree = iter.tree /\ ~Unpushed.pushed /\ Unpushed \in Iterators
      /\ Place(iter.tree) \in Int
  <2>1. It = iter /\ pc # "idle" /\ iter \in Iterators /\ iter.tree \in Nodes
    BY DEF It, LevelInv, Balanced, Walk, Loop, StepUp, StepOnGroup, StepToEntry, UpAtTop, Up, Down, Stepping, Moving
  <2>2. Place(iter.tree) \in Int
    BY <2>1, PlaceIs, HasSiblings
  <2>3. Unpushed.tree = iter.tree /\ ~Unpushed.pushed /\ Unpushed \in Iterators
    BY <2>1 DEF Unpushed, Iterators
  <2> QED
    BY <2>1, <2>2, <2>3
<1>2. /\ Layered(EntryPopped, base, iter.tree, {}) /\ EntryPopped.lvl = 1 + Depth[iter.tree]
      /\ iter.tree \in Nodes /\ Depth[iter.tree] \in Nat
  BY <1>1, EntryLayered
<1>3. base \in [Options -> Values] /\ base' = base
  BY DEF OptionsInv, Fits, Walk, Loop, StepUp, StepOnGroup, StepToEntry, UpAtTop, Up, Down, Stepping, Moving, history
<1>4. ASSUME NEW i \in 1 .. Len(Siblings(iter.tree)) PROVE Layered(EntryPopped, base, Siblings(iter.tree)[i], {})
  <2>1. \A y \in Nodes : OnWay(Siblings(iter.tree)[i], y) /\ Depth[y] + 2 <= EntryPopped.lvl => OnWay(iter.tree, y)
    BY <1>2, SameGroups
  <2>2. EntryPopped.lvl \in Nat
    BY <1>2
  <2> QED
    BY <1>2, <2>1, <2>2, MoveLayered
<1>5. ASSUME Target # None PROVE \E i \in 1 .. Len(Siblings(iter.tree)) : Target = Siblings(iter.tree)[i]
  BY <1>1, <1>5 DEF Target
<1>6. CASE Loop
  <2>1. \E i \in 1 .. Len(Siblings(iter.tree)) : iter'.tree = Siblings(iter.tree)[i]
    <3>1. Len(Siblings(iter.tree)) \in Nat \ {0}
      BY <1>2, HasSiblings
    <3>2. iter'.tree = IF d > 0 THEN Siblings(iter.tree)[1] ELSE Siblings(iter.tree)[Len(Siblings(iter.tree))]
      BY <1>1, <1>6 DEF Loop, SetIt, Iterators
    <3> QED
      BY <3>1, <3>2
  <2>2. ~iter'.pushed /\ cfg' = EntryPopped
    BY <1>1, <1>6 DEF Loop, SetIt, Iterators
  <2> QED
    BY <1>3, <1>4, <2>1, <2>2 DEF Fits
<1>7. CASE StepUp
  <2>1. iter' = Unpushed /\ cfg' = EntryPopped
    BY <1>7 DEF StepUp, SetIt
  <2> QED
    BY <1>1, <1>2, <1>3, <2>1 DEF Fits
<1>8. CASE StepOnGroup
  <2>1. iter'.tree = Target /\ ~iter'.pushed /\ cfg' = EntryPopped /\ Target # None
    BY <1>1, <1>8 DEF StepOnGroup, SetIt, Iterators
  <2> QED
    BY <1>3, <1>4, <1>5, <2>1 DEF Fits
<1>9. CASE StepToEntry
  <2>1. cfg' = PushParams(EntryPopped, Target) /\ touched' = {} /\ Target # None
    BY <1>9 DEF StepToEntry, Configured
  <2>2. iter'.tree = Target
    BY <1>1, <1>9 DEF StepToEntry, SetIt, Iterators
  <2>3. Layered(EntryPopped, base, Target, {}) /\ Target \in Nodes /\ EntryPopped.lvl = 1 + Depth[Target]
    BY <1>2, <1>4, <1>5, <2>1, Beside
  <2>4. Layered(cfg', base, Target, {})
    BY <2>1, <2>3, PushLayered
  <2>5. (IF iter'.pushed THEN touched' ELSE {}) = {}
    BY <2>1
  <2> QED
    BY <1>3, <2>2, <2>4, <2>5 DEF Fits
<1>10. Layered(cfg, base, iter.tree, IF iter.pushed THEN touched ELSE {}) /\ cfg.lvl \in Nat /\ cfg.lvl >= 1 + Depth[iter.tree]
  <2>1. cfg.lvl = 1 + Depth[iter.tree] + (IF iter.pushed THEN 1 ELSE 0)
    BY <1>1 DEF LevelInv, Balanced
  <2>2. cfg.lvl \in Nat /\ cfg.lvl >= 1 + Depth[iter.tree]
    BY <1>2, <2>1
  <2> QED
    BY <2>2 DEF OptionsInv, Fits
<1>11. CASE UpAtTop
  <2>1. iter'.tree = iter.tree /\ iter'.pushed = iter.pushed /\ cfg' = cfg /\ touched' = touched
    BY <1>1, <1>11 DEF UpAtTop, SetIt, Iterators, Moving, history
  <2> QED
    BY <1>3, <1>10, <2>1 DEF Fits
<1>12. CASE Up
  <2> DEFINE p == Tree[iter.tree].parent
  <2>1. cfg' = Pop(cfg) /\ p # None /\ touched' = touched
    BY <1>1, <1>12 DEF Up, Configured, Moving, history
  <2>2. iter'.tree = p /\ iter'.pushed = iter.pushed
    BY <1>1, <1>12 DEF Up, SetIt, Iterators
  <2>3. iter.tree # Root /\ p \in Nodes /\ Depth[iter.tree] = Depth[p] + 1 /\ Depth[p] \in Nat
    BY <1>2, <2>1, TreeAssumption, ParentAbove
  <2>4. cfg.lvl > 1
    BY <1>10, <2>3
  <2>5. Layered(cfg', base, iter.tree, {})
    BY <1>10, <2>1, <2>4, PopLayered
  <2>6. cfg'.lvl \in Nat
    BY <1>10, <2>1, <2>4, LevelOf
  <2>7. \A y \in Nodes : OnWay(p, y) /\ Depth[y] + 2 <= cfg'.lvl => OnWay(iter.tree, y)
    BY <1>2, <2>3, WayIs
  <2>8. Layered(cfg', base, p, {})
    BY <2>5, <2>6, <2>7, MoveLayered
  <2>9. Layered(cfg', base, p, IF iter'.pushed THEN touched' ELSE {})
    BY <2>8, SparesMore
  <2> QED
    BY <1>3, <2>2, <2>9 DEF Fits
<1>13. CASE Down
  <2> DEFINE kids == Tree[iter.tree].kids
             t == IF d >= 0 THEN kids[1] ELSE kids[Len(kids)]
  <2>1. ~iter.pushed /\ IsGroup(iter.tree) /\ cfg' = PushParams(cfg, iter.tree)
    BY <1>1, <1>13 DEF Down, Moving, Configured, OptionsInv, Pushed, LevelInv, PoppedInTime
  <2>2. t \in Nodes \ {Root} /\ Depth[t] = Depth[iter.tree] + 1 /\ Tree[t].parent = iter.tree
    <3>1. Len(kids) \in Nat \ {0}
      BY <1>2, <2>1, Below
    <3>2. \A i \in 1 .. Len(kids) : kids[i] \in Nodes \ {Root} /\ Depth[kids[i]] = Depth[iter.tree] + 1 /\ Tree[kids[i]].parent = iter.tree
      BY <1>2, <2>1, Below, TreeAssumption
    <3> HIDE DEF kids
    <3> QED
      BY <3>1, <3>2
  <2>3. iter'.tree = t /\ iter'.pushed = iter.pushed
    BY <1>1, <1>13 DEF Down, SetIt, Iterators
  <2> HIDE DEF t
  <2>4. EntryPopped = cfg
    BY <1>1, <2>1 DEF EntryPopped
  <2>5. Layered(cfg', base, iter.tree, {}) /\ cfg'.lvl = Depth[t] + 1
    BY <1>2, <2>1, <2>2, <2>4, PushLayered, LevelOf
  <2>6. ASSUME NEW y \in Nodes, OnWay(t, y), Depth[y] + 2 <= cfg'.lvl PROVE OnWay(iter.tree, y)
    <3>1. Depth[y] \in Nat /\ Depth[t] \in Nat
      BY <2>2, DepthAssumption
    <3>2. y # t
      BY <2>5, <2>6, <3>1
    <3> QED
      BY <2>2, <2>6, <3>2, WayIs
  <2>7. cfg'.lvl \in Nat
    BY <1>2, <2>2, <2>5
  <2>8. Layered(cfg', base, t, {})
    BY <2>5, <2>6, <2>7, MoveLayered
  <2> QED
    BY <1>3, <2>1, <2>3, <2>8 DEF Fits
<1> QED
  BY <1>6, <1>7, <1>8, <1>9, <1>11, <1>12, <1>13 DEF Walk

LEMMA PlayerWalksPushed ==
  ASSUME LevelInv, OptionsInv, Walk, who = "iter"
  PROVE  Pushed(iter', pc', who', result')
<1>1. It = iter /\ iter \in Iterators /\ who' = "iter" /\ ~Unpushed.pushed /\ Unpushed \in Iterators
  BY DEF It, LevelInv, Balanced, Unpushed, Iterators, Walk, Loop, StepUp, StepOnGroup, StepToEntry, UpAtTop, Up, Down, Stepping, Moving
<1>2. CASE Loop \/ StepUp
  BY <1>1, <1>2 DEF Loop, StepUp, Stepping, Pushed
<1>3. CASE StepOnGroup
  <2>1. ~iter'.pushed
    BY <1>1, <1>3 DEF StepOnGroup, SetIt, Iterators
  <2>2. pc' \in {"returned", "down"} /\ (pc' = "returned" => result' = "node")
    BY <1>3 DEF StepOnGroup
  <2> QED
    BY <1>1, <2>1, <2>2 DEF Pushed
<1>4. CASE StepToEntry
  <2>1. iter'.pushed
    BY <1>1, <1>4 DEF StepToEntry, SetIt, Iterators
  <2> QED
    BY <1>1, <1>4, <2>1 DEF StepToEntry, Pushed
<1>5. CASE UpAtTop \/ Up \/ Down
  BY <1>1, <1>5 DEF UpAtTop, Up, Down, Pushed
<1> QED
  BY <1>2, <1>3, <1>4, <1>5 DEF Walk

LEMMA WalkOptions == OwnNames /\ LevelInv /\ OptionsInv /\ Walk => OptionsInv'
<1> SUFFICES ASSUME OwnNames, LevelInv, OptionsInv, Walk PROVE OptionsInv'
  OBVIOUS
<1>1. CASE who = "iter"
  BY <1>1, PlayerWalksOptions, PlayerWalksPushed DEF OptionsInv
<1>2. CASE who = "copy"
  <2>1. cfg' = cfg /\ iter' = iter /\ touched' = touched /\ base' = base /\ who' = who
    BY <1>2 DEF Walk, Loop, StepUp, StepOnGroup, StepToEntry, UpAtTop, Up, Down, SetIt, EntryPopped, Configured, Stepping, Moving, history
  <2>2. iter.pushed /\ pc' \notin {"next", "source", "playing"}
    BY <1>2 DEF OptionsInv, Pushed, Walk, Loop, StepUp, StepOnGroup, StepToEntry, UpAtTop, Up, Down, Stepping, Moving
  <2>3. Pushed(iter', pc', who', result')
    BY <1>2, <2>1, <2>2 DEF Pushed
  <2>4. Fits(cfg', base', iter', touched')
    BY <2>1 DEF OptionsInv
  <2> QED
    BY <2>3, <2>4 DEF OptionsInv
<1> QED
  BY <1>1, <1>2 DEF LevelInv, Balanced
\* Nothing plays: there is the general level only.
LEMMA IdleLevel ==
  ASSUME LevelInv, OptionsInv, pc = "idle"
  PROVE  iter = NoIter /\ cfg.lvl = 1 /\ ~iter.pushed /\ Layered(cfg, base, iter.tree, {})
<1>1. iter = NoIter /\ cfg.lvl = 1 + Len(iter.stack) + (IF iter.pushed THEN 1 ELSE 0)
  BY DEF LevelInv, Balanced
<1>2. ~iter.pushed /\ Len(iter.stack) = 0
  BY <1>1, FreshIterator
<1>3. Layered(cfg, base, iter.tree, IF iter.pushed THEN touched ELSE {})
  BY DEF OptionsInv, Fits
<1> QED
  BY <1>1, <1>2, <1>3

\* With the general level only, it does not matter where the iterator is.
LEMMA GeneralAnywhere ==
  ASSUME NEW c, c.lvl = 1, NEW b, NEW x, Layered(c, b, x, {}), NEW t
  PROVE  Layered(c, b, t, {})
<1>1. \A y \in Nodes : ~(Depth[y] + 2 <= c.lvl)
  BY DepthAssumption
<1> QED
  BY <1>1, MoveLayered

LEMMA OptionsStep == OwnNames /\ Types /\ OptionsInv /\ [Next]_vars => OptionsInv'
<1> SUFFICES ASSUME OwnNames, Types, OptionsInv, [Next]_vars PROVE OptionsInv'
  OBVIOUS
<1>1. LevelInv /\ ConfigTyped(cfg) /\ Fits(cfg, base, iter, touched) /\ base \in [Options -> Values]
  BY DEF Types, OptionsInv, Fits
<1>2. CASE Walk
  BY <1>1, <1>2, WalkOptions
\* What the iterator and the configuration are stays.
<1>3. ASSUME cfg' = cfg, base' = base, touched' = touched, iter'.tree = iter.tree, iter'.pushed = iter.pushed, Pushed(iter', pc', who', result')
      PROVE  OptionsInv'
  <2>1. Fits(cfg', base', iter', touched')
    BY <1>1, <1>3 DEF Fits
  <2> QED
    BY <1>3, <2>1 DEF OptionsInv
<1>4. CASE Probed
  <2>1. iter' = iter /\ cfg' = cfg /\ base' = base /\ touched' = touched /\ iter.pushed
    BY <1>4 DEF Probed, OptionsInv, Pushed
  <2>2. pc' \in {"up", "next", "step", "playing"} /\ (pc' # "playing" => who' = "iter")
    BY <1>4, LeftFor DEF Probed, Run
  <2>3. Pushed(iter', pc', who', result')
    BY <2>1, <2>2 DEF Pushed
  <2> QED
    BY <1>3, <2>1, <2>3
\* The iterator is freed, or starts again.
<1>5. ASSUME cfg' = cfg, base' = base, cfg.lvl = 1, Layered(cfg, base, iter.tree, {}), ~iter'.pushed,
             pc' \in {"idle", "step"}, who' = "iter" \/ pc' = "idle"
      PROVE  OptionsInv'
  <2>1. Layered(cfg', base', iter'.tree, IF iter'.pushed THEN touched' ELSE {})
    <3>1. Layered(cfg, base, iter'.tree, {})
      BY <1>5, GeneralAnywhere
    <3> QED
      BY <1>5, <3>1
  <2>2. Pushed(iter', pc', who', result')
    BY <1>5 DEF Pushed
  <2> QED
    BY <1>1, <1>5, <2>1, <2>2 DEF OptionsInv, Fits
<1>6. ASSUME pc = "returned", who = "iter", result = "end"
      PROVE  cfg.lvl = 1 /\ ~iter.pushed /\ iter.tree = Root /\ Layered(cfg, base, iter.tree, {})
  <2>1. cfg.lvl = 1 /\ ~iter.pushed /\ iter.tree = Root
    BY <1>1, <1>6, EndsAtRoot
  <2> QED
    BY <1>1, <2>1 DEF Fits
<1>7. CASE Stepped
  <2>1. pc = "returned" /\ who = "iter" /\ result \in {"entry", "end"} /\ UNCHANGED <<cfg, who, result, base, touched>>
    BY <1>1, <1>7 DEF Stepped, Loading, LevelInv, PoppedInTime
  <2>2. CASE result = "entry"
    <3>1. pc' = "source" /\ iter' = iter /\ iter.pushed
      BY <1>7, <2>1, <2>2 DEF Stepped, OptionsInv, Pushed
    <3>2. Pushed(iter', pc', who', result')
      BY <2>1, <3>1 DEF Pushed
    <3> QED
      BY <1>3, <2>1, <3>1, <3>2
  <2>3. CASE result = "end"
    <3>1. pc' = "idle" /\ iter' = NoIter /\ ~iter'.pushed
      BY <1>7, <2>3, FreshIterator DEF Stepped
    <3> QED
      BY <1>5, <1>6, <2>1, <2>3, <3>1
  <2> QED
    BY <2>1, <2>2, <2>3
<1>8. CASE Unwound
  <2>1. pc = "returned" /\ who = "iter" /\ UNCHANGED <<cfg, base, touched>>
    BY <1>1, <1>8 DEF Unwound, LevelInv, PoppedInTime, history
  <2>2. CASE result # "end" /\ Run("up", "iter", 0, after) /\ UNCHANGED iter
    <3>1. Pushed(iter', pc', who', result')
      BY <2>2 DEF Run, Pushed
    <3> QED
      BY <1>3, <2>1, <2>2, <3>1
  <2>3. CASE result = "end" /\ pc' = "idle" /\ iter' = NoIter
    BY <1>5, <1>6, <2>1, <2>3, FreshIterator
  <2>4. CASE result = "end" /\ iter' = [iter EXCEPT !.tree = Root] /\ Run("step", "iter", 0, "begin")
    <3>1. pc' = "step" /\ who' = "iter" /\ ~iter'.pushed
      <4>1. ~iter.pushed /\ iter \in Iterators
        BY <1>1, <1>6, <2>1, <2>4 DEF LevelInv, Balanced
      <4> QED
        BY <2>4, <4>1 DEF Run, Iterators
    <3> QED
      BY <1>5, <1>6, <2>1, <2>4, <3>1
  <2> QED
    BY <1>8, <2>2, <2>3, <2>4 DEF Unwound
<1>9. CASE GetSource
  <2>1. iter.pushed /\ UNCHANGED <<cfg, base, touched>>
    BY <1>9 DEF GetSource, OptionsInv, Pushed, history
  <2>2. iter'.tree = iter.tree /\ iter'.pushed = iter.pushed
    BY <1>1, <1>9 DEF GetSource, Iterators, LevelInv, Balanced
  <2>3. (pc' = "step" /\ who' = "iter") \/ pc' = "playing"
    BY <1>9 DEF GetSource, Run
  <2>4. Pushed(iter', pc', who', result')
    BY <2>1, <2>2, <2>3 DEF Pushed
  <2> QED
    BY <1>3, <2>1, <2>2, <2>4
<1>10. CASE File
  <2>1. iter.pushed /\ UNCHANGED <<cfg, base, touched, iter>>
    BY <1>10 DEF File, EndOfFile, OpenFails, OptionsInv, Pushed, history
  <2>2. (pc' = "next" /\ who' = "iter") \/ pc' = "source"
    BY <1>10 DEF File, EndOfFile, OpenFails, Run
  <2>3. Pushed(iter', pc', who', result')
    BY <2>1, <2>2 DEF Pushed
  <2> QED
    BY <1>3, <2>1, <2>3
<1>11. CASE Begin
  <2>1. pc = "idle" /\ cfg' = cfg /\ base' = base /\ pc' = "step" /\ who' = "iter" /\ ~iter'.pushed
    BY <1>11, FreshIterator DEF Begin, Run
  <2> QED
    BY <1>1, <1>5, <2>1, IdleLevel
<1>12. ASSUME NEW n \in Steps, NEW up \in BOOLEAN, NEW force \in BOOLEAN, CmdStep(n, up, force) PROVE OptionsInv'
  <2>1. iter.pushed /\ UNCHANGED <<cfg, base, touched, iter>>
    BY <1>12, StepBegins DEF OptionsInv, Pushed
  <2>2. pc' \in {"up", "next", "step"}
    <3>1. CASE Leave(up, asked')
      BY <3>1, LeftFor
    <3>2. CASE pc' = (IF up THEN "up" ELSE "step")
      BY <3>2
    <3> QED
      BY <1>12, <3>1, <3>2, StepBegins
  <2>3. Pushed(iter', pc', who', result')
    BY <2>1, <2>2 DEF Pushed
  <2> QED
    BY <1>3, <2>1, <2>3
<1>13. CASE (\E v \in {1, -1} : CmdSource(v)) \/ (\E purpose \in {"stop", "load"} : CmdUnwind(purpose))
  <2>1. iter.pushed /\ UNCHANGED <<cfg, base, touched, iter>>
    BY <1>13 DEF CmdSource, CmdUnwind, Commanded, OptionsInv, Pushed
  <2>2. (pc' = "up" /\ who' = "iter") \/ pc' = "source"
    BY <1>13 DEF CmdSource, CmdUnwind, Run
  <2>3. Pushed(iter', pc', who', result')
    BY <2>1, <2>2 DEF Pushed
  <2> QED
    BY <1>3, <2>1, <2>3
<1>21. CASE NextFile \/ StepOn
  <2>1. /\ iter.pushed /\ who = "iter" /\ pc' \in {"playing", "step"} /\ UNCHANGED <<cfg, base, touched, iter, who>>
    BY <1>1, <1>21 DEF NextFile, StepOn, OptionsInv, Pushed, history, LevelInv, PoppedInTime, Balanced
  <2>2. Pushed(iter', pc', who', result')
    BY <2>1 DEF Pushed
  <2> QED
    BY <1>3, <2>1, <2>2
<1>22. CASE \E n \in 0 .. Following : Browse(n)
  <2>1. UNCHANGED <<cfg, base, touched, iter, pc, who, result>>
    BY <1>22 DEF Browse, call
  <2>2. Pushed(iter', pc', who', result')
    BY <2>1 DEF OptionsInv
  <2> QED
    BY <1>3, <2>1, <2>2
<1>14. ASSUME iter' = iter, pc' = pc, who' = who, result' = result,
              base' \in [Options -> Values], Layered(cfg', base', iter.tree, IF iter.pushed THEN touched' ELSE {})
       PROVE  OptionsInv'
  <2>1. Pushed(iter', pc', who', result')
    BY <1>14 DEF OptionsInv
  <2>2. Fits(cfg', base', iter', touched')
    BY <1>14 DEF Fits
  <2> QED
    BY <2>1, <2>2 DEF OptionsInv
<1>15. ASSUME pc = "playing" PROVE iter.pushed /\ Layered(cfg, base, iter.tree, touched) /\ cfg.lvl \in Nat
  BY <1>1, <1>15 DEF OptionsInv, Pushed, Fits, ConfigTyped
<1>16. ASSUME NEW name \in Names, NEW value \in Values, SetWhilePlaying(name, value) PROVE OptionsInv'
  <2>1. pc = "playing" /\ name \notin Aliases /\ cfg' = SetOption(cfg, name, value) /\ touched' = touched \cup {Variable(name)}
        /\ base' = base /\ iter' = iter /\ UNCHANGED call
    BY <1>16 DEF SetWhilePlaying, Commanded, OwnNames
  <2>2. Layered(cfg', base', iter.tree, touched')
    BY <1>15, <2>1, SetLayered
  <2> QED
    BY <1>1, <1>14, <1>15, <2>1, <2>2 DEF call
<1>17. ASSUME NEW o \in Options, NEW value \in Values, WriteWhilePlaying(o, value) PROVE OptionsInv'
  <2>1. pc = "playing" /\ cfg' = WriteVariable(cfg, o, value) /\ touched' = touched \cup {o}
        /\ base' = base /\ iter' = iter /\ UNCHANGED call
    BY <1>17 DEF WriteWhilePlaying, Commanded
  <2>2. Layered(cfg', base', iter.tree, touched')
    BY <1>1, <1>15, <2>1, WriteLayered
  <2> QED
    BY <1>1, <1>14, <1>15, <2>1, <2>2 DEF call
<1>18. ASSUME NEW name \in Names, NEW value \in Values, SetWhileIdle(name, value) PROVE OptionsInv'
  <2>1. pc = "idle" /\ cfg' = SetOption(cfg, name, value) /\ base' = [base EXCEPT ![Variable(name)] = value]
        /\ iter' = iter /\ UNCHANGED call
    BY <1>18 DEF SetWhileIdle
  <2>2. cfg.lvl = 1 /\ ~iter.pushed /\ Layered(cfg, base, iter.tree, {})
    BY <1>1, <2>1, IdleLevel
  <2>3. Layered(cfg', base', iter.tree, {})
    BY <1>1, <2>1, <2>2, GeneralSet
  <2>4. base' \in [Options -> Values]
    BY <1>1, <2>1
  <2> QED
    BY <1>14, <2>1, <2>2, <2>3, <2>4 DEF call
<1>19. ASSUME NEW o \in Options, NEW value \in Values, WriteWhileIdle(o, value) PROVE OptionsInv'
  <2>1. pc = "idle" /\ cfg' = WriteVariable(cfg, o, value) /\ base' = [base EXCEPT ![o] = value]
        /\ iter' = iter /\ UNCHANGED call
    BY <1>19 DEF WriteWhileIdle
  <2>2. cfg.lvl = 1 /\ ~iter.pushed /\ Layered(cfg, base, iter.tree, {})
    BY <1>1, <2>1, IdleLevel
  <2>3. Layered(cfg', base', iter.tree, {})
    BY <1>1, <2>1, <2>2, GeneralWritten
  <2>4. base' \in [Options -> Values]
    BY <1>1, <2>1
  <2> QED
    BY <1>14, <2>1, <2>2, <2>3, <2>4 DEF call
<1>20. CASE UNCHANGED vars
  <2>1. Layered(cfg', base', iter.tree, IF iter.pushed THEN touched' ELSE {})
    BY <1>1, <1>20 DEF Fits, vars, history
  <2> QED
    BY <1>1, <1>14, <1>20, <2>1 DEF vars, call, history
<1> QED
  BY <1>2, <1>4, <1>7, <1>8, <1>9, <1>10, <1>11, <1>12, <1>13, <1>16, <1>17, <1>18, <1>19, <1>20, <1>21, <1>22 DEF Next, Player, User

LEMMA OptionsInit == Init => OptionsInv
<1> SUFFICES ASSUME Init PROVE OptionsInv
  OBVIOUS
<1>1. PICK v \in Values : cfg = NewConfig(v) /\ base = [o \in Options |-> v]
  BY DEF Init
<1>2. iter = NoIter /\ pc = "idle" /\ who = "iter" /\ ~iter.pushed
  BY FreshIterator DEF Init
<1>3. cfg.lvl = 1 /\ \A o \in Options : Levels(cfg, o) = 0 .. 1 /\ cfg.var[o] = base[o]
  BY <1>1 DEF NewConfig, Levels
<1>4. \A y \in Nodes : ~(Depth[y] + 2 < 1) /\ Depth[y] + 2 # 1
  BY DepthAssumption
<1>5. Layered(cfg, base, iter.tree, {})
  <2>1. ASSUME NEW o \in Options PROVE LayeredIn(cfg, base, iter.tree, o, o \in {})
    BY <1>3, <1>4 DEF LayeredIn
  <2> QED
    BY <2>1 DEF Layered
<1> QED
  BY <1>1, <1>2, <1>5 DEF OptionsInv, Fits, Pushed

\* An entry plays with its own options over those of its groups over the general ones, and after
\* the last one the general ones are back, wherever the user has gone in the tree and whatever
\* has been set on the way: m_config_push and pop keep the value under each level.  It needs
\* every option to be given by its own name, and none to be an old one.
THEOREM EntryOptions == ASSUME OwnNames, OldOptions = {} PROVE Spec => []OptionsAreOfEntry
<1>1. Types /\ OptionsInv => OptionsAreOfEntry
  <2> SUFFICES ASSUME Types, OptionsInv PROVE OptionsAreOfEntry
    OBVIOUS
  <2>1. LevelInv /\ Fits(cfg, base, iter, touched) /\ ConfigTyped(cfg)
    BY DEF Types, OptionsInv
  <2>2. ASSUME pc = "playing", NEW o \in Options \ touched PROVE cfg.var[o] = Expected(iter.tree, o)
    <3>1. iter.pushed /\ iter.tree \in Nodes /\ cfg.lvl = 2 + Depth[iter.tree] /\ Layered(cfg, base, iter.tree, touched)
      <4>1. iter.pushed /\ iter.tree \in Nodes /\ cfg.lvl = 1 + Depth[iter.tree] + 1 /\ Depth[iter.tree] \in Nat
        BY <2>1, <2>2, DepthAssumption DEF OptionsInv, Pushed, LevelInv, Balanced
      <4>2. Layered(cfg, base, iter.tree, touched)
        BY <2>1, <4>1 DEF Fits
      <4> QED
        BY <4>1, <4>2
    <3>2. LayeredIn(cfg, base, iter.tree, o, o \in touched) /\ Depth[iter.tree] + 2 = cfg.lvl
      BY <3>1, DepthAssumption DEF Layered
    <3>3. cfg.var[o] = Worth(base, iter.tree, o)
      BY <2>2, <3>1, <3>2, WayIs DEF LayeredIn
    <3> QED
      BY <3>3, ExpectedIs
  <2>3. ASSUME pc = "idle" PROVE cfg.var = base
    <3>1. cfg.lvl = 1 /\ Layered(cfg, base, iter.tree, {})
      BY <2>1, <2>3, IdleLevel
    <3>2. \A o \in Options : cfg.var[o] = base[o]
      BY <3>1 DEF Layered, LayeredIn
    <3>3. cfg.var \in [Options -> Values] /\ base \in [Options -> Values]
      BY <2>1 DEF Fits, ConfigTyped
    <3> QED
      BY <3>2, <3>3
  <2> QED
    BY <2>2, <2>3 DEF OptionsAreOfEntry
<1>2. OptionsInv /\ Types /\ [Next]_vars => OptionsInv'
  BY OptionsStep
<1> QED
  BY <1>1, <1>2, OptionsInit, TypesAlways, PTL DEF Spec

------------------------------------------------------------------------------
(* The entries come in the order of the tree.                               *)

\* The recursion of Unrolled.
PassOver(x, f) == FlattenSeq([i \in 1 .. Len(Tree[x].kids) |-> f[Tree[x].kids[i]]])
Contained(x, f) ==
  IF ~IsGroup(x) THEN <<x>>
  ELSE LET pass == PassOver(x, f) IN FlattenSeq([n \in 1 .. Times(x) |-> pass])
IsBelow(f) ==
  f = [x \in Nodes |->
         IF ~IsGroup(x) THEN <<x>>
         ELSE LET pass == FlattenSeq([i \in 1 .. Len(Tree[x].kids) |-> f[Tree[x].kids[i]]])
              IN FlattenSeq([n \in 1 .. Times(x) |-> pass])]
Content == CHOOSE f : IsBelow(f)

\* The nodes n or more deep, and the recursion solved for them.
From(n) == {y \in Nodes : Depth[y] >= n}
Unrolls(n, f) ==
  /\ f \in [From(n) -> Seq(Nodes)]
  /\ \A y \in From(n) : f[y] = Contained(y, f)

LEMMA PassType ==
  ASSUME NEW x \in Nodes, IsGroup(x), NEW f, \A i \in 1 .. Len(Tree[x].kids) : f[Tree[x].kids[i]] \in Seq(Nodes)
  PROVE  PassOver(x, f) \in Seq(Nodes)
<1> DEFINE ss == [i \in 1 .. Len(Tree[x].kids) |-> f[Tree[x].kids[i]]]
<1>1. Len(Tree[x].kids) \in Nat
  BY Below
<1>2. ss \in Seq(Seq(Nodes))
  BY <1>1
<1> HIDE DEF ss
<1>3. FlattenSeq(ss) \in Seq(Nodes)
  BY <1>2, FlatType
<1> QED BY <1>3 DEF PassOver, ss

LEMMA ContainedType ==
  ASSUME NEW x \in Nodes, NEW f, \A i \in 1 .. Len(Tree[x].kids) : f[Tree[x].kids[i]] \in Seq(Nodes)
  PROVE  Contained(x, f) \in Seq(Nodes)
<1>1. CASE ~IsGroup(x)
  BY <1>1 DEF Contained
<1>2. CASE IsGroup(x)
  <2> DEFINE pass == PassOver(x, f)  ss == [n \in 1 .. Times(x) |-> pass]
  <2>1. pass \in Seq(Nodes)
    BY <1>2, PassType
  <2>2. Times(x) \in Nat
    BY TreeAssumption DEF Times
  <2> HIDE DEF pass
  <2>3. ss \in Seq(Seq(Nodes))
    BY <2>1, <2>2
  <2> HIDE DEF ss
  <2>4. FlattenSeq(ss) \in Seq(Nodes)
    BY <2>3, FlatType
  <2> QED BY <1>2, <2>4 DEF Contained, ss, pass
<1> QED BY <1>1, <1>2

\* What is contained in a node depends on its children only.
LEMMA ContainedSame ==
  ASSUME NEW x \in Nodes, NEW f, NEW g, \A i \in 1 .. Len(Tree[x].kids) : f[Tree[x].kids[i]] = g[Tree[x].kids[i]]
  PROVE  Contained(x, f) = Contained(x, g)
<1>1. [i \in 1 .. Len(Tree[x].kids) |-> f[Tree[x].kids[i]]] = [i \in 1 .. Len(Tree[x].kids) |-> g[Tree[x].kids[i]]]
  OBVIOUS
<1>2. PassOver(x, f) = PassOver(x, g)
  BY <1>1, Zenon DEF PassOver
<1> QED BY <1>2, Zenon DEF Contained

LEMMA UnrollsMore ==
  ASSUME NEW n \in Nat, NEW f, Unrolls(n + 1, f)
  PROVE  \E g : Unrolls(n, g)
<1> DEFINE g == [y \in From(n) |-> IF y \in From(n + 1) THEN f[y] ELSE Contained(y, f)]
<1>1. From(n + 1) \subseteq From(n)
  BY DepthAssumption DEF From
<1>2. ASSUME NEW y \in From(n)
      PROVE  \A i \in 1 .. Len(Tree[y].kids) : /\ f[Tree[y].kids[i]] \in Seq(Nodes)
                                               /\ g[Tree[y].kids[i]] = f[Tree[y].kids[i]]
  <2> SUFFICES ASSUME NEW i \in 1 .. Len(Tree[y].kids)
               PROVE  f[Tree[y].kids[i]] \in Seq(Nodes) /\ g[Tree[y].kids[i]] = f[Tree[y].kids[i]]
    OBVIOUS
  <2>1. IsGroup(y)
    BY TreeAssumption DEF From, IsGroup
  <2>2. Tree[y].kids[i] \in From(n + 1)
    <3>1. Tree[y].kids[i] \in Nodes /\ Depth[Tree[y].kids[i]] = Depth[y] + 1 /\ Depth[y] \in Nat /\ Depth[y] >= n
      BY <2>1, Below, DepthAssumption DEF From
    <3> QED BY <3>1 DEF From
  <2> QED BY <1>1, <2>2 DEF Unrolls
<1>3. ASSUME NEW y \in From(n) PROVE g[y] = Contained(y, f)
  BY DEF Unrolls
<1>4. ASSUME NEW y \in From(n) PROVE g[y] \in Seq(Nodes) /\ g[y] = Contained(y, g)
  <2>1. \A i \in 1 .. Len(Tree[y].kids) : f[Tree[y].kids[i]] \in Seq(Nodes) /\ g[Tree[y].kids[i]] = f[Tree[y].kids[i]]
    BY <1>2
  <2>2. y \in Nodes
    BY DEF From
  <2>3. g[y] = Contained(y, f)
    BY <1>3
  <2> HIDE DEF g
  <2>4. Contained(y, f) \in Seq(Nodes)
    BY <2>1, <2>2, ContainedType
  <2>5. Contained(y, f) = Contained(y, g)
    BY <2>1, <2>2, ContainedSame
  <2> QED BY <2>3, <2>4, <2>5
<1>5. g \in [From(n) -> Seq(Nodes)]
  <2>1. g = [y \in From(n) |-> g[y]]
    OBVIOUS
  <2> HIDE DEF g
  <2> QED BY <1>4, <2>1
<1> HIDE DEF g
<1> QED BY <1>4, <1>5 DEF Unrolls

\* So it has a solution, from the deepest nodes up to the root.
LEMMA ContentIs ==
  /\ Content \in [Nodes -> Seq(Nodes)] /\ Unrolled = Content[Root]
  /\ \A x \in Nodes : Content[x] = Contained(x, Content)
<1>1. PICK n \in Nat : \A x \in Nodes : Depth[x] \in 0 .. n
  BY DepthBounded
<1> DEFINE T == {k \in Nat : \E f : Unrolls(n - k, f)}
<1>2. 0 \in T
  <2> DEFINE f == [y \in From(n) |-> Contained(y, <<>>)]
  <2>1. ASSUME NEW y \in From(n) PROVE f[y] = <<y>> /\ Contained(y, f) = <<y>> /\ y \in Nodes
    <3>1. ~IsGroup(y)
      <4> SUFFICES ASSUME IsGroup(y) PROVE FALSE
        OBVIOUS
      <4>1. y \in Nodes /\ Depth[y] \in Nat /\ Depth[y] >= n /\ 1 \in 1 .. Len(Tree[y].kids)
        BY Below, DepthAssumption DEF From
      <4>2. Tree[y].kids[1] \in Nodes /\ Depth[Tree[y].kids[1]] = Depth[y] + 1
        BY <4>1, Below
      <4> QED BY <1>1, <4>1, <4>2
    <3> QED BY <3>1 DEF Contained, From
  <2>2. f \in [From(n) -> Seq(Nodes)]
    <3>1. ASSUME NEW y \in From(n) PROVE f[y] \in Seq(Nodes)
      <4>1. f[y] = <<y>> /\ y \in Nodes
        BY <2>1
      <4> HIDE DEF f
      <4>2. <<y>> \in Seq(Nodes)
        BY <4>1
      <4> QED BY <4>1, <4>2
    <3>2. f = [y \in From(n) |-> f[y]]
      OBVIOUS
    <3> HIDE DEF f
    <3> QED BY <3>1, <3>2
  <2> HIDE DEF f
  <2>3. Unrolls(n, f)
    BY <2>1, <2>2 DEF Unrolls
  <2> QED BY <2>3
<1>3. ASSUME NEW k \in 0 .. n - 1, k \in T PROVE k + 1 \in T
  <2>1. PICK f : Unrolls((n - (k + 1)) + 1, f)
    <3>1. n - k = (n - (k + 1)) + 1
      OBVIOUS
    <3> QED BY <1>3, <3>1
  <2>2. n - (k + 1) \in Nat /\ k + 1 \in Nat
    OBVIOUS
  <2>3. \E g : Unrolls(n - (k + 1), g)
    BY <2>1, <2>2, UnrollsMore
  <2> QED BY <2>2, <2>3
<1>4. n \in T
  <2> HIDE DEF T
  <2>1. \A k \in 0 .. n - 1 : k \in T => k + 1 \in T
    BY <1>3
  <2> QED BY <1>2, <2>1, Induction
<1>5. PICK f : Unrolls(0, f)
  BY <1>4
<1>6. From(0) = Nodes
  BY DepthAssumption DEF From
<1>7. IsBelow(f)
  <2>1. f = [x \in Nodes |-> f[x]] /\ \A x \in Nodes : f[x] = Contained(x, f)
    BY <1>5, <1>6 DEF Unrolls
  <2>2. f = [x \in Nodes |-> Contained(x, f)]
    BY <2>1
  <2> QED BY <2>2 DEF IsBelow, Contained, PassOver
<1>8. IsBelow(Content)
  BY <1>7 DEF Content
<1>9. \A x \in Nodes : Content[x] = Contained(x, Content)
  BY <1>8 DEF IsBelow, Contained, PassOver
<1>10. Unrolled = Content[Root]
  BY DEF Unrolled, Content, IsBelow
<1> DEFINE U == {k \in Nat : \A y \in From(n - k) : Content[y] \in Seq(Nodes)}
<1>11. ASSUME NEW k \in Nat, \A y \in From(k + 1) : Content[y] \in Seq(Nodes), NEW y \in From(k)
       PROVE  Content[y] \in Seq(Nodes)
  <2>1. y \in Nodes
    BY DEF From
  <2>2. ASSUME NEW i \in 1 .. Len(Tree[y].kids) PROVE Content[Tree[y].kids[i]] \in Seq(Nodes)
    <3>1. IsGroup(y)
      BY <2>1, TreeAssumption DEF IsGroup
    <3>2. Tree[y].kids[i] \in Nodes /\ Depth[Tree[y].kids[i]] = Depth[y] + 1 /\ Depth[y] \in Nat /\ Depth[y] >= k
      BY <2>1, <3>1, Below, DepthAssumption DEF From
    <3>3. Tree[y].kids[i] \in From(k + 1)
      BY <3>2 DEF From
    <3> QED BY <1>11, <3>3
  <2> QED BY <1>9, <2>1, <2>2, ContainedType
<1>12. 0 \in U
  <2>1. From(n + 1) = {}
    BY <1>1 DEF From
  <2>2. \A y \in From(n) : Content[y] \in Seq(Nodes)
    BY <1>11, <2>1
  <2> QED BY <2>2
<1>13. ASSUME NEW k \in 0 .. n - 1, k \in U PROVE k + 1 \in U
  <2>1. n - (k + 1) \in Nat /\ k + 1 \in Nat /\ n - k = (n - (k + 1)) + 1
    OBVIOUS
  <2>2. \A y \in From((n - (k + 1)) + 1) : Content[y] \in Seq(Nodes)
    BY <1>13, <2>1
  <2>3. \A y \in From(n - (k + 1)) : Content[y] \in Seq(Nodes)
    BY <1>11, <2>1, <2>2
  <2> QED BY <2>1, <2>3
<1>14. n \in U
  <2> HIDE DEF U
  <2>1. \A k \in 0 .. n - 1 : k \in U => k + 1 \in U
    BY <1>13
  <2> QED BY <1>12, <2>1, Induction
<1>15. \A y \in Nodes : Content[y] \in Seq(Nodes)
  BY <1>6, <1>14
<1>16. Content = [x \in Nodes |-> Content[x]]
  BY <1>8 DEF IsBelow
<1>17. Content \in [Nodes -> Seq(Nodes)]
  BY <1>15, <1>16
<1> QED BY <1>9, <1>10, <1>17

\* What is left of a pass over a group after its first k children, and l more passes.
Kid(g, i) == Tree[g].kids[i]
RestOf(g, k) == FlattenSeq([i \in 1 .. Len(Tree[g].kids) - k |-> Content[Kid(g, k + i)]])
Passes(g, l) == FlattenSeq([n \in 1 .. l |-> PassOver(g, Content)])

LEMMA RestIs ==
  ASSUME NEW g \in Nodes, IsGroup(g), NEW k \in 0 .. Len(Tree[g].kids)
  PROVE  /\ RestOf(g, k) \in Seq(Nodes)
         /\ k = Len(Tree[g].kids) => RestOf(g, k) = <<>>
         /\ k < Len(Tree[g].kids) => RestOf(g, k) = Content[Kid(g, k + 1)] \o RestOf(g, k + 1)
<1> DEFINE K == Len(Tree[g].kids)
           ss == [i \in 1 .. K - k |-> Content[Kid(g, k + i)]]
           tt == [i \in 1 .. K - (k + 1) |-> Content[Kid(g, (k + 1) + i)]]
<1>1. K \in Nat /\ k \in Nat /\ k <= K /\ \A i \in 1 .. K : Kid(g, i) \in Nodes
  BY Below DEF Kid
<1>2. \A i \in 1 .. K : Content[Kid(g, i)] \in Seq(Nodes)
  BY <1>1, ContentIs
<1>3. K - k \in Nat /\ \A i \in 1 .. K - k : k + i \in 1 .. K
  BY <1>1
<1>4. ss \in Seq(Seq(Nodes)) /\ Len(ss) = K - k
  BY <1>2, <1>3
<1>5. FlattenSeq(ss) \in Seq(Nodes)
  <2> HIDE DEF ss
  <2> QED BY <1>4, FlatType
<1>6. ASSUME k = K PROVE FlattenSeq(ss) = <<>>
  <2>1. ss = <<>>
    BY <1>1, <1>4, <1>6
  <2> QED BY <2>1, FlatEmpty
<1>7. ASSUME k < K PROVE FlattenSeq(ss) = Content[Kid(g, k + 1)] \o FlattenSeq(tt)
  <2>0. ss # <<>>
    <3>1. Len(ss) # 0
      BY <1>1, <1>4, <1>7
    <3> HIDE DEF ss
    <3> QED BY <3>1
  <2>1. ss # <<>> /\ ss[1] = Content[Kid(g, k + 1)]
    <3>1. 1 \in 1 .. K - k
      BY <1>1, <1>7
    <3>2. ss[1] = Content[Kid(g, k + 1)]
      BY <3>1
    <3> QED BY <2>0, <3>2
  <2>2. Tail(ss) = tt
    <3>1. Len(Tail(ss)) = K - (k + 1) /\ Tail(ss) \in Seq(Seq(Nodes))
      <4> HIDE DEF ss
      <4>1. Tail(ss) \in Seq(Seq(Nodes)) /\ Len(Tail(ss)) = Len(ss) - 1
        BY <1>4, <2>0
      <4> QED BY <1>1, <1>4, <4>1
    <3>2. K - (k + 1) \in Nat /\ \A i \in 1 .. K - (k + 1) : i + 1 \in 1 .. K - k /\ k + (i + 1) = (k + 1) + i /\ (k + 1) + i \in 1 .. K
      BY <1>1, <1>7
    <3>3. tt \in Seq(Seq(Nodes)) /\ Len(tt) = K - (k + 1)
      BY <1>2, <3>2
    <3>4. ASSUME NEW i \in 1 .. K - (k + 1) PROVE Tail(ss)[i] = tt[i]
      <4>1. Tail(ss)[i] = ss[i + 1]
        <5> HIDE DEF ss
        <5> QED BY <1>1, <1>4, <1>7, <3>1
      <4>2. ss[i + 1] = Content[Kid(g, k + (i + 1))]
        BY <3>2
      <4> QED BY <3>2, <4>1, <4>2
    <3> HIDE DEF tt, ss
    <3> QED BY <3>1, <3>3, <3>4, SeqEqual
  <2> HIDE DEF ss, tt
  <2>3. FlattenSeq(ss) = ss[1] \o FlattenSeq(Tail(ss))
    BY <1>4, <2>1, FlatTail
  <2> QED BY <2>1, <2>2, <2>3
<1> QED BY <1>1, <1>5, <1>6, <1>7 DEF RestOf

LEMMA PassesAre ==
  ASSUME NEW g \in Nodes, IsGroup(g), NEW l \in Nat
  PROVE  /\ Passes(g, l) \in Seq(Nodes)
         /\ Passes(g, 0) = <<>>
         /\ Passes(g, l + 1) = RestOf(g, 0) \o Passes(g, l)
<1> DEFINE pass == PassOver(g, Content)
           ss == [n \in 1 .. l |-> pass]
           tt == [n \in 1 .. l + 1 |-> pass]
<1>1. pass = RestOf(g, 0)
  BY Below DEF PassOver, RestOf, Kid
<1>2. pass \in Seq(Nodes)
  <2>1. 0 \in 0 .. Len(Tree[g].kids)
    BY Below
  <2>2. RestOf(g, 0) \in Seq(Nodes)
    BY <2>1, RestIs
  <2> QED BY <1>1, <2>2
<1>3. Passes(g, 0) = <<>>
  <2>1. [n \in 1 .. 0 |-> pass] = <<>>
    OBVIOUS
  <2> QED BY <2>1, FlatEmpty DEF Passes
<1> HIDE DEF pass
<1>4. ss \in Seq(Seq(Nodes)) /\ Len(ss) = l /\ tt \in Seq(Seq(Nodes)) /\ Len(tt) = l + 1 /\ tt # <<>> /\ tt[1] = pass
  BY <1>2
<1>5. Tail(tt) = ss
  <2>1. Tail(tt) \in Seq(Seq(Nodes)) /\ Len(Tail(tt)) = l
    BY <1>4
  <2>2. ASSUME NEW n \in 1 .. l PROVE Tail(tt)[n] = ss[n]
    <3>1. Tail(tt)[n] = tt[n + 1]
      <4> HIDE DEF tt
      <4> QED BY <1>4
    <3>2. n + 1 \in 1 .. l + 1
      OBVIOUS
    <3> QED BY <3>1, <3>2
  <2> HIDE DEF tt, ss
  <2> QED BY <1>4, <2>1, <2>2, SeqEqual
<1> HIDE DEF ss, tt
<1>6. FlattenSeq(ss) \in Seq(Nodes) /\ FlattenSeq(tt) = tt[1] \o FlattenSeq(Tail(tt))
  BY <1>4, FlatType, FlatTail
<1> QED BY <1>1, <1>3, <1>4, <1>5, <1>6 DEF Passes, ss, tt, pass

\* The next child, in the same pass or first in the next one, followed by the rest.
LEMMA NextKid ==
  ASSUME NEW g \in Nodes, IsGroup(g), NEW k \in 0 .. Len(Tree[g].kids) - 1, NEW l \in Nat, NEW r \in Seq(Nodes)
  PROVE  /\ RestOf(g, k) \o (Passes(g, l) \o r)
              = Content[Kid(g, k + 1)] \o (RestOf(g, k + 1) \o (Passes(g, l) \o r))
         /\ k = 0 => Passes(g, l + 1) \o r = Content[Kid(g, 1)] \o (RestOf(g, 1) \o (Passes(g, l) \o r))
<1>1. /\ Len(Tree[g].kids) \in Nat /\ k \in 0 .. Len(Tree[g].kids) /\ k + 1 \in 0 .. Len(Tree[g].kids)
      /\ k < Len(Tree[g].kids) /\ Kid(g, k + 1) \in Nodes
  BY Below DEF Kid
<1>2. PICK c \in Seq(Nodes) : c = Content[Kid(g, k + 1)]
  BY <1>1, ContentIs
<1>3. PICK e \in Seq(Nodes) : e = RestOf(g, k + 1)
  BY <1>1, RestIs
<1>4. PICK q \in Seq(Nodes) : q = Passes(g, l)
  BY PassesAre
<1>5. RestOf(g, k) = c \o e
  BY <1>1, <1>2, <1>3, RestIs
<1>6. PICK t \in Seq(Nodes) : t = q \o r
  BY ConcatProperties
<1>7. (c \o e) \o t = c \o (e \o t)
  OBVIOUS
<1>8. ASSUME k = 0 PROVE Passes(g, l + 1) \o r = (c \o e) \o t
  <2>1. Passes(g, l + 1) = (c \o e) \o q
    BY <1>4, <1>5, <1>8, PassesAre
  <2>2. PICK ce \in Seq(Nodes) : ce = c \o e
    BY ConcatProperties
  <2>3. (ce \o q) \o r = ce \o (q \o r)
    OBVIOUS
  <2> QED BY <1>6, <2>1, <2>2, <2>3
<1>9. ASSUME k = 0 PROVE k + 1 = 1
  BY <1>9
<1> QED BY <1>2, <1>3, <1>4, <1>5, <1>6, <1>7, <1>8, <1>9, Zenon

\* The children of a group have their places in it.
LEMMA KidIs ==
  ASSUME NEW g \in Nodes, IsGroup(g), NEW i \in 1 .. Len(Tree[g].kids)
  PROVE  /\ Kid(g, i) \in Nodes /\ Kid(g, i) # Root /\ Tree[Kid(g, i)].parent = g /\ Place(Kid(g, i)) = i
         /\ Siblings(Kid(g, i)) = Tree[g].kids
<1> DEFINE x == Kid(g, i)
<1>1. x \in Nodes /\ x # Root /\ Tree[x].parent = g
  BY Below, TreeAssumption DEF Kid
<1>2. Siblings(x) = Tree[g].kids
  BY <1>1, TreeAssumption DEF Siblings
<1>3. Place(x) \in 1 .. Len(Tree[g].kids) /\ Tree[g].kids[Place(x)] = Tree[g].kids[i]
  BY <1>1, <1>2, PlaceIs DEF Kid
<1>4. Place(x) = i
  <2>1. IsInjective(Tree[g].kids) /\ DOMAIN Tree[g].kids = 1 .. Len(Tree[g].kids)
    BY TreeAssumption
  <2> HIDE DEF x
  <2> QED BY <1>3, <2>1 DEF IsInjective
<1> QED BY <1>1, <1>2, <1>4

LEMMA InGroup ==
  ASSUME NEW x \in Nodes, x # Root
  PROVE  /\ Tree[x].parent \in Nodes /\ Tree[x].parent # None /\ IsGroup(Tree[x].parent)
         /\ Siblings(x) = Tree[Tree[x].parent].kids /\ Place(x) \in 1 .. Len(Tree[Tree[x].parent].kids)
         /\ Kid(Tree[x].parent, Place(x)) = x
<1>1. Tree[x].parent \in Nodes /\ Tree[x].parent # None
  BY TreeAssumption
<1>2. Siblings(x) = Tree[Tree[x].parent].kids
  BY <1>1 DEF Siblings
<1>3. Place(x) \in 1 .. Len(Siblings(x)) /\ Siblings(x)[Place(x)] = x
  BY PlaceIs
<1>4. IsGroup(Tree[x].parent)
  <2>1. Tree[Tree[x].parent].kids # <<>>
    BY <1>2, <1>3
  <2> QED BY <1>1, <2>1, TreeAssumption DEF IsGroup
<1> QED BY <1>1, <1>2, <1>3, <1>4 DEF Kid

\* No list plays for ever.
NoEndlessLoops == \A x \in Nodes : Tree[x].loop >= 0

\* The passes that a loop count stands for, of a group that may have no loop, which counts -1.
Left(n) == IF n > 0 THEN n ELSE 0
CountOf(g, n) == n \in Int /\ n >= -1 /\ (n > 0 => Tree[g].loop # 0) /\ (n < 0 => Tree[g].loop = 0)

\* What comes after x: the rest of the pass over its group and the passes left, and then what
\* comes after the group.  count has the loop counts, rest what comes after each node on the way.
After(x, n, rest) ==
  RestOf(Tree[x].parent, Place(x)) \o (Passes(Tree[x].parent, Left(n)) \o rest[Tree[x].parent])
Coming(x, count, rest) ==
  /\ rest \in [Nodes -> Seq(Nodes)] /\ rest[Root] = <<>> /\ count \in [Nodes -> Int]
  /\ \A y : OnWay(x, y) /\ y # Root => CountOf(Tree[y].parent, count[y]) /\ rest[y] = After(y, count[y], rest)

\* The iterator holds the count of its node, and its stack those of the groups above.
Counts(i, count) ==
  \A y : OnWay(i.tree, y) => count[y] = IF y = i.tree THEN i.loop ELSE i.stack[Depth[y] + 1]

LEMMA ComingOut ==
  ASSUME NEW x \in Nodes, x # Root, NEW count, NEW rest, Coming(x, count, rest)
  PROVE  /\ Coming(Tree[x].parent, count, rest)
         /\ CountOf(Tree[x].parent, count[x]) /\ rest[x] = After(x, count[x], rest)
BY WayIs DEF Coming

LEMMA AfterType ==
  ASSUME NEW x \in Nodes, x # Root, NEW n \in Int, NEW rest \in [Nodes -> Seq(Nodes)]
  PROVE  After(x, n, rest) \in Seq(Nodes)
<1> DEFINE p == Tree[x].parent
<1>1. p \in Nodes /\ IsGroup(p) /\ Place(x) \in 0 .. Len(Tree[p].kids) /\ Left(n) \in Nat
  <2>1. Len(Tree[p].kids) \in Nat
    BY InGroup, Below
  <2> QED BY <2>1, InGroup DEF Left
<1> HIDE DEF p
<1>2. PICK a \in Seq(Nodes) : a = RestOf(p, Place(x))
  BY <1>1, RestIs
<1>3. PICK b \in Seq(Nodes) : b = Passes(p, Left(n))
  BY <1>1, PassesAre
<1>4. PICK r \in Seq(Nodes) : r = rest[p]
  BY <1>1
<1>5. a \o (b \o r) \in Seq(Nodes)
  <2>1. PICK e \in Seq(Nodes) : e = b \o r
    BY ConcatProperties
  <2>2. a \o e \in Seq(Nodes)
    BY ConcatProperties
  <2> QED BY <2>1, <2>2
<1> QED BY <1>2, <1>3, <1>4, <1>5 DEF After, p

\* To a child of a node, with a count for it.
LEMMA ComingInto ==
  ASSUME NEW x \in Nodes, x # Root, NEW count, NEW rest, Coming(Tree[x].parent, count, rest),
         NEW n, CountOf(Tree[x].parent, n)
  PROVE  LET more == [count EXCEPT ![x] = n]
             later == [rest EXCEPT ![x] = After(x, n, rest)]
         IN Coming(x, more, later) /\ later[x] = After(x, n, rest)
            /\ \A y : OnWay(Tree[x].parent, y) => y # x /\ more[y] = count[y] /\ later[y] = rest[y]
<1> DEFINE p == Tree[x].parent
           more == [count EXCEPT ![x] = n]
           f == [rest EXCEPT ![x] = After(x, n, rest)]
<1>1. p \in Nodes /\ Depth[x] = Depth[p] + 1 /\ Depth[p] \in Nat /\ n \in Int
  BY ParentAbove DEF CountOf
<1>2. rest \in [Nodes -> Seq(Nodes)] /\ count \in [Nodes -> Int] /\ rest[Root] = <<>>
  BY DEF Coming
<1>3. \A y : OnWay(p, y) => y \in Nodes /\ y # x
  BY <1>1, WayIs
<1>4. After(x, n, rest) \in Seq(Nodes)
  BY <1>1, <1>2, AfterType
<1>5. f \in [Nodes -> Seq(Nodes)] /\ more \in [Nodes -> Int] /\ f[x] = After(x, n, rest) /\ more[x] = n
      /\ \A y \in Nodes : y # x => f[y] = rest[y] /\ more[y] = count[y]
  BY <1>1, <1>2, <1>4
<1> HIDE DEF f, more
<1>6. f[Root] = <<>>
  BY <1>2, <1>5, TreeAssumption
<1>7. ASSUME NEW y, OnWay(x, y), y # Root PROVE CountOf(Tree[y].parent, more[y]) /\ f[y] = After(y, more[y], f)
  <2>1. CASE y = x
    <3>1. f[p] = rest[p]
      BY <1>1, <1>5
    <3>2. f[x] = After(x, more[x], f)
      BY <1>5, <3>1 DEF After, p
    <3> QED BY <1>5, <2>1, <3>2
  <2>2. CASE y # x
    <3>1. OnWay(p, y)
      BY <1>7, <2>2, WayIs
    <3>2. CountOf(Tree[y].parent, count[y]) /\ rest[y] = After(y, count[y], rest) /\ y \in Nodes
      BY <1>3, <1>7, <3>1 DEF Coming, p
    <3>3. Tree[y].parent \in Nodes /\ Tree[y].parent # x
      <4>1. Tree[y].parent \in Nodes /\ Depth[y] = Depth[Tree[y].parent] + 1 /\ Depth[Tree[y].parent] \in Nat
        BY <1>7, <3>2, ParentAbove
      <4>2. Depth[y] <= Depth[p]
        BY <1>1, <3>1, WayIs, DepthAssumption
      <4> QED BY <1>1, <4>1, <4>2
    <3>4. f[y] = rest[y] /\ more[y] = count[y] /\ f[Tree[y].parent] = rest[Tree[y].parent]
      BY <1>5, <2>2, <3>2, <3>3
    <3>5. After(y, more[y], f) = After(y, count[y], rest)
      BY <3>4 DEF After
    <3> QED BY <3>2, <3>4, <3>5
  <2> QED BY <2>1, <2>2
<1>8. Coming(x, more, f)
  BY <1>5, <1>6, <1>7 DEF Coming
<1> QED BY <1>3, <1>5, <1>8 DEF f, more, p

SameCounts(x, more, count) == \A y : OnWay(x, y) => more[y] = count[y]

\* The counts go with the iterator: to the side, down into a group, and up out of it.
LEMMA CountsFollow ==
  ASSUME NEW i \in Iterators, i.tree \in Nodes, Len(i.stack) = Depth[i.tree], NEW count, Counts(i, count),
         NEW j \in Iterators, j.tree \in Nodes, NEW more
  PROVE  /\ ( /\ i.tree # Root /\ j.tree # Root /\ Tree[j.tree].parent = Tree[i.tree].parent
              /\ j.stack = i.stack /\ more[j.tree] = j.loop
              /\ SameCounts(Tree[i.tree].parent, more, count) ) => Counts(j, more)
         /\ ( /\ j.tree # Root /\ Tree[j.tree].parent = i.tree
              /\ j.stack = Append(i.stack, i.loop) /\ more[j.tree] = j.loop
              /\ SameCounts(i.tree, more, count) ) => Counts(j, more)
         /\ ( /\ i.tree # Root /\ j.tree = Tree[i.tree].parent
              /\ j.stack = SubSeq(i.stack, 1, Len(i.stack) - 1) /\ j.loop = i.stack[Len(i.stack)] ) => Counts(j, count)
<1> DEFINE x == i.tree  t == j.tree
<1>0. /\ i.stack \in Seq(Int) /\ i.loop \in Int /\ Len(i.stack) \in Nat /\ Depth[x] \in Nat
      /\ \A y : OnWay(x, y) => count[y] = IF y = x THEN i.loop ELSE i.stack[Depth[y] + 1]
  BY DepthAssumption DEF Iterators, Counts
<1>1. ASSUME x # Root, t # Root, Tree[t].parent = Tree[x].parent, j.stack = i.stack, more[t] = j.loop,
             \A y : OnWay(Tree[x].parent, y) => more[y] = count[y],
             NEW y, OnWay(t, y)
      PROVE  more[y] = IF y = t THEN j.loop ELSE j.stack[Depth[y] + 1]
  <2>1. CASE y = t
    BY <1>1, <2>1
  <2>2. CASE y # t
    <3>1. OnWay(Tree[x].parent, y)
      BY <1>1, <2>2, WayIs
    <3>2. OnWay(x, y) /\ y # x
      <4>1. Tree[x].parent \in Nodes /\ Depth[x] = Depth[Tree[x].parent] + 1 /\ Depth[Tree[x].parent] \in Nat
        BY <1>1, ParentAbove
      <4>2. y = Tree[x].parent \/ Depth[y] < Depth[Tree[x].parent]
        BY <3>1, <4>1, WayIs
      <4>3. y \in Nodes /\ Depth[y] \in Nat
        BY <3>1, <4>1, WayIs, DepthAssumption
      <4> QED BY <1>1, <3>1, <4>1, <4>2, <4>3, WayIs
    <3> QED BY <1>0, <1>1, <2>2, <3>1, <3>2
  <2> QED BY <2>1, <2>2
<1>2. ASSUME t # Root, Tree[t].parent = x, j.stack = Append(i.stack, i.loop), more[t] = j.loop,
             \A y : OnWay(x, y) => more[y] = count[y],
             NEW y, OnWay(t, y)
      PROVE  more[y] = IF y = t THEN j.loop ELSE j.stack[Depth[y] + 1]
  <2>1. CASE y = t
    BY <1>2, <2>1
  <2>2. CASE y # t
    <3>1. OnWay(x, y)
      BY <1>2, <2>2, WayIs
    <3>2. more[y] = count[y] /\ count[y] = IF y = x THEN i.loop ELSE i.stack[Depth[y] + 1]
      BY <1>0, <1>2, <3>1
    <3>3. y \in Nodes /\ (y = x \/ Depth[y] < Depth[x]) /\ Depth[y] \in Nat
      BY <3>1, WayIs, DepthAssumption
    <3>4. CASE y = x
      <4>1. j.stack[Depth[x] + 1] = i.loop
        BY <1>0, <1>2
      <4> QED BY <2>2, <3>2, <3>4, <4>1
    <3>5. CASE y # x
      <4>1. Depth[y] + 1 \in 1 .. Len(i.stack)
        BY <1>0, <3>3, <3>5
      <4>2. j.stack[Depth[y] + 1] = i.stack[Depth[y] + 1]
        BY <1>0, <1>2, <4>1
      <4> QED BY <2>2, <3>2, <3>5, <4>2
    <3> QED BY <3>4, <3>5
  <2> QED BY <2>1, <2>2
<1>3. ASSUME x # Root, t = Tree[x].parent, j.stack = SubSeq(i.stack, 1, Len(i.stack) - 1),
             j.loop = i.stack[Len(i.stack)], NEW y, OnWay(t, y)
      PROVE  count[y] = IF y = t THEN j.loop ELSE j.stack[Depth[y] + 1]
  <2>1. t \in Nodes /\ Depth[x] = Depth[t] + 1 /\ Depth[t] \in Nat
    BY <1>3, ParentAbove
  <2>2. y \in Nodes /\ (y = t \/ Depth[y] < Depth[t]) /\ Depth[y] \in Nat
    BY <1>3, <2>1, WayIs, DepthAssumption
  <2>3. OnWay(x, y) /\ y # x
    BY <1>3, <2>1, <2>2, WayIs
  <2>4. count[y] = i.stack[Depth[y] + 1]
    BY <1>0, <2>3
  <2>5. CASE y = t
    BY <1>0, <1>3, <2>1, <2>4, <2>5
  <2>6. CASE y # t
    <3>1. Depth[y] + 1 \in 1 .. Len(i.stack) - 1
      BY <1>0, <2>1, <2>2, <2>6
    <3>2. j.stack[Depth[y] + 1] = i.stack[Depth[y] + 1]
      BY <1>0, <1>3, <3>1
    <3> QED BY <2>4, <2>6, <3>2
  <2> QED BY <2>5, <2>6
<1> QED BY <1>1, <1>2, <1>3 DEF Counts, SameCounts

\* What of the node itself is still to be played; and that the n entries begun are the first
\* of all, and what is to come the others.
Now(x, place, dir) == IF place = "down" \/ (place = "step" /\ dir = 0) THEN Content[x] ELSE <<>>
Ordered(i, place, dir, n) ==
  \E count, rest, before :
    /\ Coming(i.tree, count, rest) /\ Counts(i, count)
    /\ before \in Seq(Nodes) /\ Len(before) = n
    /\ Unrolled = before \o (Now(i.tree, place, dir) \o rest[i.tree])
    /\ place = "up" /\ i.tree # Root => rest[i.tree] = rest[Tree[i.tree].parent]
EntryIs(x, n) == n \in 1 .. Len(Unrolled) /\ Unrolled[n] = x

\* The inductive invariant, for a list that is played without a command.
InOrder ==
  /\ played \in Nat \cup {Disturbed, Unstarted}
  /\ played = Unstarted => pc = "idle"
  /\ played >= 0 /\ pc = "idle" => played = Len(Unrolled)
  /\ played >= 0 /\ pc # "idle" =>
       /\ who = "iter" /\ after \in {"play", "up", "begin", "source"} /\ eof = 1 /\ step = 1
       /\ pc \in {"step", "up", "down"} => d \in {0, 1}
       /\ pc \in {"next", "up"} => d = 1
       /\ Ordered(iter, pc, d, played)
       /\ pc \in {"next", "source", "playing"} \/ (pc = "returned" /\ result = "entry") => EntryIs(iter.tree, played)

\* The iterator steps on to t, the next child of its group, or to its first again: what came
\* after x begins with t.
NextIs(x, l, t, n) ==
  /\ t \in Nodes /\ t # Root /\ Tree[t].parent = Tree[x].parent /\ CountOf(Tree[x].parent, n)
  /\ \A rest \in [Nodes -> Seq(Nodes)] : After(x, l, rest) = Content[t] \o After(t, n, rest)

LEMMA NextSibling ==
  ASSUME NEW x \in Nodes, x # Root, NEW l, CountOf(Tree[x].parent, l),
         Place(x) < Len(Siblings(x))
  PROVE  NextIs(x, l, Siblings(x)[Place(x) + 1], l)
<1> DEFINE p == Tree[x].parent  k == Place(x)  t == Siblings(x)[k + 1]
<1>1. p \in Nodes /\ IsGroup(p) /\ Siblings(x) = Tree[p].kids /\ k \in 1 .. Len(Tree[p].kids) /\ Len(Tree[p].kids) \in Nat
  BY InGroup, Below
<1>2. k \in 0 .. Len(Tree[p].kids) - 1 /\ k + 1 \in 1 .. Len(Tree[p].kids)
  BY <1>1
<1>3. t = Kid(p, k + 1) /\ t \in Nodes /\ t # Root /\ Tree[t].parent = p /\ Place(t) = k + 1
  BY <1>1, <1>2, KidIs DEF Kid
<1>4. ASSUME NEW rest \in [Nodes -> Seq(Nodes)] PROVE After(x, l, rest) = Content[t] \o After(t, l, rest)
  <2>1. rest[p] \in Seq(Nodes) /\ Left(l) \in Nat
    BY <1>1 DEF CountOf, Left
  <2> HIDE DEF p, k, t
  <2>2. RestOf(p, k) \o (Passes(p, Left(l)) \o rest[p])
          = Content[Kid(p, k + 1)] \o (RestOf(p, k + 1) \o (Passes(p, Left(l)) \o rest[p]))
    BY <1>1, <1>2, <2>1, NextKid
  <2> QED BY <1>3, <2>2 DEF After, p, k
<1> QED BY <1>3, <1>4 DEF NextIs

LEMMA FirstAgain ==
  ASSUME NEW x \in Nodes, x # Root, NEW l, CountOf(Tree[x].parent, l), l > 0,
         Place(x) = Len(Siblings(x))
  PROVE  NextIs(x, l, Siblings(x)[1], l - 1)
<1> DEFINE p == Tree[x].parent  k == Place(x)  t == Siblings(x)[1]
<1>1. p \in Nodes /\ IsGroup(p) /\ Siblings(x) = Tree[p].kids /\ k = Len(Tree[p].kids) /\ Len(Tree[p].kids) \in Nat \ {0}
  BY InGroup, Below
<1>2. t = Kid(p, 1) /\ t \in Nodes /\ t # Root /\ Tree[t].parent = p /\ Place(t) = 1
  BY <1>1, KidIs DEF Kid
<1>3. CountOf(p, l - 1) /\ l \in Nat /\ Left(l) = l /\ Left(l - 1) = l - 1 /\ (l - 1) + 1 = l /\ l - 1 \in Nat
  BY DEF CountOf, Left
<1>4. ASSUME NEW rest \in [Nodes -> Seq(Nodes)] PROVE After(x, l, rest) = Content[t] \o After(t, l - 1, rest)
  <2>1. rest[p] \in Seq(Nodes) /\ 0 \in 0 .. Len(Tree[p].kids) - 1 /\ k \in 0 .. Len(Tree[p].kids)
    BY <1>1
  <2> HIDE DEF p, k, t
  <2>2. RestOf(p, k) = <<>>
    BY <1>1, <2>1, RestIs
  <2>3. Passes(p, (l - 1) + 1) \o rest[p] = Content[Kid(p, 1)] \o (RestOf(p, 1) \o (Passes(p, l - 1) \o rest[p]))
    BY <1>1, <1>3, <2>1, NextKid
  <2>4. PICK q \in Seq(Nodes) : q = Passes(p, l) \o rest[p]
    <3>1. Passes(p, l) \in Seq(Nodes)
      BY <1>1, <1>3, PassesAre
    <3> QED BY <2>1, <3>1, ConcatProperties
  <2>5. <<>> \o q = q
    BY ConcatEmptySeq
  <2>6. After(x, l, rest) = q
    BY <1>3, <2>2, <2>4, <2>5 DEF After, p, k
  <2>7. After(t, l - 1, rest) = RestOf(p, 1) \o (Passes(p, l - 1) \o rest[p])
    BY <1>2, <1>3 DEF After
  <2> QED BY <1>2, <1>3, <2>3, <2>4, <2>6, <2>7
<1> QED BY <1>2, <1>3, <1>4 DEF NextIs

\* After the last child of a group with no pass left comes what comes after the group.
LEMMA LastIsOver ==
  ASSUME NEW x \in Nodes, x # Root, NEW l, CountOf(Tree[x].parent, l), ~(l > 0),
         Place(x) = Len(Siblings(x)), NEW rest \in [Nodes -> Seq(Nodes)]
  PROVE  After(x, l, rest) = rest[Tree[x].parent]
<1> DEFINE p == Tree[x].parent  k == Place(x)
<1>1. p \in Nodes /\ IsGroup(p) /\ k = Len(Tree[p].kids) /\ Len(Tree[p].kids) \in Nat \ {0}
  BY InGroup, Below
<1>2. Left(l) = 0 /\ k \in 0 .. Len(Tree[p].kids) /\ rest[p] \in Seq(Nodes)
  BY <1>1 DEF CountOf, Left
<1> HIDE DEF p, k
<1>3. RestOf(p, k) = <<>> /\ Passes(p, 0) = <<>>
  BY <1>1, <1>2, RestIs, PassesAre
<1>4. <<>> \o (<<>> \o rest[p]) = rest[p]
  BY <1>2, ConcatEmptySeq
<1> QED BY <1>2, <1>3, <1>4 DEF After, p, k

\* The first pass over a group begins with its first child.
LEMMA FirstPass ==
  ASSUME NoEndlessLoops, NEW x \in Nodes, IsGroup(x)
  PROVE  LET t == Tree[x].kids[1]  n == Tree[x].loop - 1 IN
           /\ t \in Nodes /\ t # Root /\ Tree[t].parent = x /\ CountOf(x, n)
           /\ \A rest \in [Nodes -> Seq(Nodes)] : Content[x] \o rest[x] = Content[t] \o After(t, n, rest)
<1> DEFINE t == Tree[x].kids[1]  n == Tree[x].loop - 1
<1>1. Len(Tree[x].kids) \in Nat \ {0} /\ Tree[x].loop \in Nat
  BY Below, TreeAssumption DEF NoEndlessLoops
<1>2. t = Kid(x, 1) /\ t \in Nodes /\ t # Root /\ Tree[t].parent = x /\ Place(t) = 1
  BY <1>1, KidIs DEF Kid
<1>3. CountOf(x, n) /\ Times(x) = Left(n) + 1 /\ Left(n) \in Nat
  BY <1>1 DEF CountOf, Times, Left
<1>4. Content[x] = Passes(x, Times(x))
  BY ContentIs DEF Contained, Passes
<1>5. ASSUME NEW rest \in [Nodes -> Seq(Nodes)] PROVE Content[x] \o rest[x] = Content[t] \o After(t, n, rest)
  <2>1. rest[x] \in Seq(Nodes) /\ 0 \in 0 .. Len(Tree[x].kids) - 1
    BY <1>1
  <2> HIDE DEF t, n
  <2>2. Passes(x, Left(n) + 1) \o rest[x] = Content[Kid(x, 1)] \o (RestOf(x, 1) \o (Passes(x, Left(n)) \o rest[x]))
    BY <1>3, <2>1, NextKid
  <2> QED BY <1>2, <1>3, <1>4, <2>2 DEF After
<1> QED BY <1>2, <1>3, <1>5

\* The same with the types that follow.
Open(i, place, dir, n, count, rest, before) ==
  /\ Coming(i.tree, count, rest) /\ Counts(i, count) /\ rest \in [Nodes -> Seq(Nodes)]
  /\ rest[i.tree] \in Seq(Nodes) /\ rest[Root] = <<>> /\ count[i.tree] = i.loop
  /\ before \in Seq(Nodes) /\ Len(before) = n
  /\ Unrolled = before \o (Now(i.tree, place, dir) \o rest[i.tree])
  /\ place = "up" /\ i.tree # Root => rest[i.tree] = rest[Tree[i.tree].parent]

LEMMA OrderedOpens ==
  ASSUME NEW i, i.tree \in Nodes, NEW place, NEW dir, NEW n, Ordered(i, place, dir, n)
  PROVE  \E count, rest, before : Open(i, place, dir, n, count, rest, before)
<1>1. PICK count, rest, before :
        /\ Coming(i.tree, count, rest) /\ Counts(i, count)
        /\ before \in Seq(Nodes) /\ Len(before) = n
        /\ Unrolled = before \o (Now(i.tree, place, dir) \o rest[i.tree])
        /\ place = "up" /\ i.tree # Root => rest[i.tree] = rest[Tree[i.tree].parent]
  BY DEF Ordered
<1>2. rest \in [Nodes -> Seq(Nodes)] /\ rest[Root] = <<>>
  BY <1>1 DEF Coming
<1>3. count[i.tree] = i.loop
  BY <1>1, WayIs DEF Counts
<1>4. rest[i.tree] \in Seq(Nodes)
  BY <1>2
<1>5. Open(i, place, dir, n, count, rest, before)
  BY <1>1, <1>2, <1>3, <1>4 DEF Open
<1> QED BY <1>5

\* Only the node and the loop counts matter, and not whether an entry has its options pushed.
LEMMA OrderedSame ==
  ASSUME NEW i, NEW j, j.tree = i.tree, j.stack = i.stack, j.loop = i.loop,
         NEW place, NEW dir, NEW n, Ordered(i, place, dir, n),
         NEW other, NEW way, Now(i.tree, other, way) = Now(i.tree, place, dir), other # "up" \/ place = "up"
  PROVE  Ordered(j, other, way, n)
<1>1. PICK count, rest, before :
        /\ Coming(i.tree, count, rest) /\ Counts(i, count)
        /\ before \in Seq(Nodes) /\ Len(before) = n
        /\ Unrolled = before \o (Now(i.tree, place, dir) \o rest[i.tree])
        /\ place = "up" /\ i.tree # Root => rest[i.tree] = rest[Tree[i.tree].parent]
  BY DEF Ordered
<1>2. Counts(j, count)
  BY <1>1 DEF Counts
<1>3. Unrolled = before \o (Now(j.tree, other, way) \o rest[j.tree])
  BY <1>1
<1>4. other = "up" /\ j.tree # Root => rest[j.tree] = rest[Tree[j.tree].parent]
  BY <1>1
<1> QED BY <1>1, <1>2, <1>3, <1>4 DEF Ordered

LEMMA MovesOn ==
  ASSUME NEW i \in Iterators, i.tree \in Nodes, i.tree # Root, Len(i.stack) = Depth[i.tree], NEW n, Ordered(i, "step", 1, n),
         NEW j \in Iterators, NextIs(i.tree, i.loop, j.tree, j.loop), j.stack = i.stack
  PROVE  Ordered(j, "step", 0, n)
<1> DEFINE x == i.tree  t == j.tree  p == Tree[x].parent
<1>0. PICK count, rest, before : Open(i, "step", 1, n, count, rest, before)
  BY OrderedOpens
<1>1. /\ Coming(x, count, rest) /\ Counts(i, count) /\ rest \in [Nodes -> Seq(Nodes)]
      /\ rest[x] \in Seq(Nodes) /\ rest[Root] = <<>> /\ count[x] = i.loop
      /\ before \in Seq(Nodes) /\ Len(before) = n
      /\ Unrolled = before \o (Now(x, "step", 1) \o rest[x])
  BY <1>0 DEF Open
<1>2. /\ t \in Nodes /\ t # Root /\ Tree[t].parent = p /\ CountOf(p, j.loop)
      /\ After(x, i.loop, rest) = Content[t] \o After(t, j.loop, rest)
  BY <1>1 DEF NextIs
<1>3. Coming(p, count, rest) /\ rest[x] = After(x, count[x], rest)
  BY <1>1, ComingOut
<1>4. PICK more, later :
        /\ Coming(t, more, later) /\ later[t] = After(t, j.loop, rest) /\ more[t] = j.loop
        /\ \A y : OnWay(p, y) => more[y] = count[y]
  <2> DEFINE more == [count EXCEPT ![t] = j.loop]  later == [rest EXCEPT ![t] = After(t, j.loop, rest)]
  <2>1. Coming(t, more, later) /\ later[t] = After(t, j.loop, rest)
        /\ \A y : OnWay(p, y) => y # t /\ more[y] = count[y] /\ later[y] = rest[y]
    BY <1>2, <1>3, ComingInto
  <2>2. more[t] = j.loop
    BY <1>2, <1>3 DEF Coming
  <2> HIDE DEF more, later
  <2> QED BY <2>1, <2>2
<1>5. Counts(j, more)
  <2>1. SameCounts(p, more, count)
    BY <1>4 DEF SameCounts
  <2> QED BY <1>1, <1>2, <1>4, <2>1, CountsFollow
<1>6. Unrolled = before \o (Now(t, "step", 0) \o later[t])
  <2>1. Now(x, "step", 1) \o rest[x] = rest[x]
    BY <1>1, ConcatEmptySeq DEF Now
  <2>2. rest[x] = Content[t] \o later[t]
    BY <1>1, <1>2, <1>3, <1>4
  <2>3. Now(t, "step", 0) = Content[t]
    BY DEF Now
  <2> QED BY <1>1, <2>1, <2>2, <2>3
<1> QED BY <1>1, <1>4, <1>5, <1>6 DEF Ordered

LEMMA GoesDown ==
  ASSUME NoEndlessLoops, NEW i \in Iterators, i.tree \in Nodes, IsGroup(i.tree), Len(i.stack) = Depth[i.tree],
         NEW dir, NEW n, Ordered(i, "down", dir, n),
         NEW j \in Iterators, j.tree = Tree[i.tree].kids[1], j.loop = Tree[i.tree].loop - 1, j.stack = Append(i.stack, i.loop)
  PROVE  Ordered(j, "step", 0, n)
<1> DEFINE x == i.tree  t == j.tree
<1>0. PICK count, rest, before : Open(i, "down", dir, n, count, rest, before)
  BY OrderedOpens
<1>1. /\ Coming(x, count, rest) /\ Counts(i, count) /\ rest \in [Nodes -> Seq(Nodes)]
      /\ before \in Seq(Nodes) /\ Len(before) = n
      /\ Unrolled = before \o (Now(x, "down", dir) \o rest[x])
  BY <1>0 DEF Open
<1>2. /\ t \in Nodes /\ t # Root /\ Tree[t].parent = x /\ CountOf(x, j.loop)
      /\ Content[x] \o rest[x] = Content[t] \o After(t, j.loop, rest)
  <2> DEFINE first == Tree[x].kids[1]  m == Tree[x].loop - 1
  <2>1. /\ first \in Nodes /\ first # Root /\ Tree[first].parent = x /\ CountOf(x, m)
        /\ \A f \in [Nodes -> Seq(Nodes)] : Content[x] \o f[x] = Content[first] \o After(first, m, f)
    BY FirstPass
  <2>2. t = first /\ j.loop = m
    OBVIOUS
  <2> HIDE DEF first, m
  <2> QED BY <1>1, <2>1, <2>2
<1>4. PICK more, later :
        /\ Coming(t, more, later) /\ later[t] = After(t, j.loop, rest) /\ more[t] = j.loop
        /\ \A y : OnWay(x, y) => more[y] = count[y]
  <2> DEFINE more == [count EXCEPT ![t] = j.loop]  later == [rest EXCEPT ![t] = After(t, j.loop, rest)]
  <2>1. Coming(t, more, later) /\ later[t] = After(t, j.loop, rest)
        /\ \A y : OnWay(x, y) => y # t /\ more[y] = count[y] /\ later[y] = rest[y]
    <3>1. Coming(Tree[t].parent, count, rest) /\ CountOf(Tree[t].parent, j.loop) /\ t \in Nodes /\ t # Root
      BY <1>1, <1>2
    <3> HIDE DEF t
    <3>2. Coming(t, more, later) /\ later[t] = After(t, j.loop, rest)
          /\ \A y : OnWay(Tree[t].parent, y) => y # t /\ more[y] = count[y] /\ later[y] = rest[y]
      BY <3>1, ComingInto, SMTT(30)
    <3> QED BY <1>2, <3>2
  <2>2. more[t] = j.loop
    BY <1>1, <1>2 DEF Coming
  <2> HIDE DEF more, later
  <2> QED BY <2>1, <2>2
<1>5. Counts(j, more)
  <2>1. /\ j.tree \in Nodes /\ j.tree # Root /\ Tree[j.tree].parent = i.tree
        /\ more[j.tree] = j.loop /\ SameCounts(i.tree, more, count)
    BY <1>2, <1>4 DEF SameCounts
  <2> HIDE DEF x, t
  <2> QED BY <1>1, <2>1, CountsFollow
<1>6. Unrolled = before \o (Now(t, "step", 0) \o later[t])
  <2>1. Now(x, "down", dir) = Content[x] /\ Now(t, "step", 0) = Content[t]
    BY DEF Now
  <2> QED BY <1>1, <1>2, <1>4, <2>1
<1> QED BY <1>1, <1>4, <1>5, <1>6 DEF Ordered

LEMMA GoesUp ==
  ASSUME NEW i \in Iterators, i.tree \in Nodes, i.tree # Root, Len(i.stack) = Depth[i.tree], NEW n, Ordered(i, "up", 1, n),
         NEW j \in Iterators, j.tree = Tree[i.tree].parent, j.stack = SubSeq(i.stack, 1, Len(i.stack) - 1),
         j.loop = i.stack[Len(i.stack)]
  PROVE  Ordered(j, "step", 1, n)
<1> DEFINE x == i.tree  p == Tree[x].parent
<1>0. PICK count, rest, before : Open(i, "up", 1, n, count, rest, before)
  BY OrderedOpens
<1>1. /\ Coming(x, count, rest) /\ Counts(i, count) /\ rest \in [Nodes -> Seq(Nodes)]
      /\ before \in Seq(Nodes) /\ Len(before) = n
      /\ Unrolled = before \o (Now(x, "up", 1) \o rest[x]) /\ rest[x] = rest[p]
  BY <1>0 DEF Open
<1>2. Coming(p, count, rest) /\ p \in Nodes
  BY <1>1, ComingOut, ParentAbove
<1>3. Counts(j, count)
  BY <1>1, <1>2, CountsFollow
<1>4. Now(p, "step", 1) = Now(x, "up", 1)
  BY DEF Now
<1>5. Unrolled = before \o (Now(p, "step", 1) \o rest[p])
  BY <1>1, <1>4
<1> QED BY <1>1, <1>2, <1>3, <1>5 DEF Ordered

LEMMA LeavesGroup ==
  ASSUME NEW i \in Iterators, i.tree \in Nodes, NEW n, Ordered(i, "step", 1, n),
         i.tree # Root => Place(i.tree) = Len(Siblings(i.tree)) /\ ~(i.loop > 0)
  PROVE  Ordered(i, "up", 1, n)
<1> DEFINE x == i.tree
<1>0. PICK count, rest, before : Open(i, "step", 1, n, count, rest, before)
  BY OrderedOpens
<1>1. /\ Coming(x, count, rest) /\ Counts(i, count) /\ rest \in [Nodes -> Seq(Nodes)] /\ count[x] = i.loop
      /\ before \in Seq(Nodes) /\ Len(before) = n
      /\ Unrolled = before \o (Now(x, "step", 1) \o rest[x])
  BY <1>0 DEF Open
<1>2. ASSUME x # Root PROVE rest[x] = rest[Tree[x].parent]
  <2>1. rest[x] = After(x, i.loop, rest) /\ CountOf(Tree[x].parent, i.loop)
    BY <1>1, <1>2, ComingOut
  <2> QED BY <1>1, <1>2, <2>1, LastIsOver
<1>3. Now(x, "step", 1) = Now(x, "up", 1)
  BY DEF Now
<1> QED BY <1>1, <1>2, <1>3 DEF Ordered

LEMMA BeginsEntry ==
  ASSUME NEW i, i.tree \in Nodes, ~IsGroup(i.tree), NEW n \in Nat, Ordered(i, "step", 0, n), NEW dir
  PROVE  Ordered(i, "returned", dir, n + 1) /\ EntryIs(i.tree, n + 1)
<1> DEFINE x == i.tree
<1>0. PICK count, rest, before : Open(i, "step", 0, n, count, rest, before)
  BY OrderedOpens
<1>1. /\ Coming(x, count, rest) /\ Counts(i, count) /\ rest[x] \in Seq(Nodes)
      /\ before \in Seq(Nodes) /\ Len(before) = n
      /\ Unrolled = before \o (Now(x, "step", 0) \o rest[x])
  BY <1>0 DEF Open
<1>2. PICK r \in Seq(Nodes) : r = rest[x]
  BY <1>1
<1>3. Now(x, "step", 0) = <<x>> /\ Now(x, "returned", dir) = <<>>
  BY ContentIs DEF Now, Contained
<1>4. PICK more \in Seq(Nodes) : more = Append(before, x)
  BY <1>1, AppendProperties
<1>5. Len(more) = n + 1 /\ more[n + 1] = x
  BY <1>1, <1>4
<1>6. Unrolled = more \o r
  <2>1. PICK one \in Seq(Nodes) : one = <<x>>
    <3>1. x \in Nodes
      OBVIOUS
    <3> HIDE DEF x
    <3>2. <<x>> \in Seq(Nodes)
      BY <3>1
    <3> QED BY <3>2, Zenon
  <2>2. more = before \o one
    BY <1>1, <1>4, <2>1
  <2>3. (before \o one) \o r = before \o (one \o r)
    BY <1>1
  <2> QED BY <1>1, <1>2, <1>3, <2>1, <2>2, <2>3
<1>7. r = <<>> \o r
  BY ConcatEmptySeq
<1>8. EntryIs(x, n + 1)
  <2>1. Len(more \o r) = Len(more) + Len(r) /\ (more \o r)[n + 1] = more[n + 1] /\ Len(r) \in Nat
    BY <1>5
  <2> QED BY <1>5, <1>6, <2>1 DEF EntryIs
<1>9. Unrolled = more \o (Now(x, "returned", dir) \o rest[x])
  BY <1>2, <1>3, <1>6, <1>7
<1> QED BY <1>1, <1>4, <1>5, <1>8, <1>9 DEF Ordered

LEMMA LoopOf ==
  ASSUME NEW i, i.tree \in Nodes, i.tree # Root, NEW place, NEW dir, NEW n, Ordered(i, place, dir, n)
  PROVE  CountOf(Tree[i.tree].parent, i.loop)
<1>1. PICK count, rest, before : Open(i, place, dir, n, count, rest, before)
  BY OrderedOpens
<1>2. Coming(i.tree, count, rest) /\ count[i.tree] = i.loop
  BY <1>1 DEF Open
<1> QED BY <1>2, ComingOut

\* To the node itself, or to the one beside it.
LEMMA ArrivesAt ==
  ASSUME NEW i \in Iterators, i.tree \in Nodes, Len(i.stack) = Depth[i.tree],
         NEW dir \in {0, 1}, NEW n, Ordered(i, "step", dir, n),
         Place(i.tree) + dir \in 1 .. Len(Siblings(i.tree)),
         NEW j \in Iterators, j.tree = Siblings(i.tree)[Place(i.tree) + dir], j.loop = i.loop, j.stack = i.stack
  PROVE  Ordered(j, "step", 0, n)
<1>1. Place(i.tree) \in 1 .. Len(Siblings(i.tree)) /\ Siblings(i.tree)[Place(i.tree)] = i.tree /\ Len(Siblings(i.tree)) \in Nat
  BY PlaceIs, HasSiblings
<1>2. CASE dir = 0
  <2>1. j.tree = i.tree
    BY <1>1, <1>2
  <2> QED BY <1>2, <2>1, OrderedSame
<1>3. CASE dir = 1
  <2>1. Place(i.tree) < Len(Siblings(i.tree)) /\ j.tree = Siblings(i.tree)[Place(i.tree) + 1]
    BY <1>1, <1>3
  <2>2. i.tree # Root
    <3>1. Len(Siblings(Root)) = 1
      BY TreeAssumption DEF Siblings
    <3> QED BY <1>1, <2>1, <3>1
  <2>3. CountOf(Tree[i.tree].parent, i.loop)
    BY <2>2, LoopOf
  <2>4. NextIs(i.tree, i.loop, j.tree, j.loop)
    BY <2>1, <2>2, <2>3, NextSibling
  <2>5. Ordered(i, "step", 1, n)
    BY <1>3
  <2> QED BY <2>2, <2>4, <2>5, MovesOn
<1> QED BY <1>2, <1>3

LEMMA LoopsAgain ==
  ASSUME NEW i \in Iterators, i.tree \in Nodes, i.tree # Root, Len(i.stack) = Depth[i.tree],
         NEW n, Ordered(i, "step", 1, n), Place(i.tree) = Len(Siblings(i.tree)), i.loop > 0,
         NEW j \in Iterators, j.tree = Siblings(i.tree)[1], j.loop = i.loop - 1, j.stack = i.stack
  PROVE  Ordered(j, "step", 0, n)
<1>1. CountOf(Tree[i.tree].parent, i.loop)
  BY LoopOf
<1>2. NextIs(i.tree, i.loop, j.tree, j.loop)
  BY <1>1, FirstAgain
<1> QED BY <1>2, MovesOn

\* At the root with nothing of it left, every entry has been begun.
LEMMA AllBegun ==
  ASSUME NEW i, i.tree = Root, NEW dir, NEW n, Ordered(i, "returned", dir, n)
  PROVE  n = Len(Unrolled)
<1>1. Root \in Nodes
  BY TreeAssumption
<1>2. PICK count, rest, before : Open(i, "returned", dir, n, count, rest, before)
  BY <1>1, OrderedOpens
<1>3. /\ rest[Root] = <<>> /\ before \in Seq(Nodes) /\ Len(before) = n
      /\ Unrolled = before \o (Now(Root, "returned", dir) \o rest[Root])
  BY <1>2 DEF Open
<1>4. Now(Root, "returned", dir) = <<>>
  BY DEF Now
<1>5. Unrolled = before
  BY <1>3, <1>4, EmptySeq, ConcatEmptySeq
<1> QED BY <1>3, <1>5

LEMMA AllToCome ==
  ASSUME NEW i, i.tree = Root, i.loop = 0
  PROVE  Ordered(i, "step", 0, 0)
<1> DEFINE count == [x \in Nodes |-> 0]  rest == [x \in Nodes |-> <<>>]
<1>1. Root \in Nodes /\ \A y : OnWay(Root, y) => y = Root
  BY TreeAssumption, WayIs
<1>2. <<>> \in Seq(Nodes) /\ Len(<<>>) = 0
  BY EmptySeq
<1>3. rest \in [Nodes -> Seq(Nodes)] /\ rest[Root] = <<>>
  BY <1>1, <1>2
<1>4. count \in [Nodes -> Int] /\ count[Root] = 0
  BY <1>1
<1>5. Coming(i.tree, count, rest)
  <2> HIDE DEF count, rest
  <2> QED BY <1>1, <1>3, <1>4 DEF Coming
<1>6. Counts(i, count)
  <2> HIDE DEF count, rest
  <2> QED BY <1>1, <1>4 DEF Counts
<1>7. Unrolled = <<>> \o (Now(i.tree, "step", 0) \o rest[i.tree])
  <2>1. Now(i.tree, "step", 0) = Content[Root]
    BY DEF Now
  <2>2. PICK all \in Seq(Nodes) : all = Content[Root]
    BY <1>1, ContentIs
  <2>3. Unrolled = all
    BY <2>2, ContentIs
  <2>4. all \o <<>> = all /\ <<>> \o all = all
    BY ConcatEmptySeq
  <2> HIDE DEF rest
  <2> QED BY <1>3, <2>1, <2>2, <2>3, <2>4
<1> HIDE DEF count, rest
<1> QED BY <1>2, <1>5, <1>6, <1>7 DEF Ordered

\* What a pass of the walk has to leave for the order to hold.
Orderly(i, place, dir, res, n) ==
  /\ place \in {"step", "up", "down", "returned"} /\ dir \in {0, 1} /\ (place = "up" => dir = 1)
  /\ Ordered(i, place, dir, n)
  /\ place = "returned" /\ res = "entry" => EntryIs(i.tree, n)

LEMMA WalkOrdered ==
  ASSUME Types, InOrder, played \in Nat, Walk
  PROVE  /\ It = iter /\ iter \in Iterators /\ iter.tree \in Nodes /\ Len(iter.stack) = Depth[iter.tree]
         /\ pc \in {"step", "up", "down"} /\ d \in {0, 1} /\ Ordered(iter, pc, d, played)
         /\ Place(iter.tree) \in 1 .. Len(Siblings(iter.tree)) /\ Len(Siblings(iter.tree)) \in Nat
<1>1. pc \in {"step", "up", "down"} /\ iter \in Iterators
  BY WalkerIs DEF Types, LevelInv, Balanced
<1>2. who = "iter" /\ d \in {0, 1} /\ Ordered(iter, pc, d, played)
  BY <1>1 DEF InOrder
<1>3. It = iter /\ iter.tree \in Nodes /\ Len(iter.stack) = Depth[iter.tree]
  BY <1>1, <1>2 DEF It, Types, LevelInv, Balanced
<1> QED BY <1>1, <1>2, <1>3, PlaceIs, HasSiblings

LEMMA WalkStays ==
  ASSUME Types, Walk
  PROVE  iter' \in Iterators /\ iter'.tree \in Nodes
<1>1. Next /\ LevelInv
  BY DEF Next, Types
<1>2. LevelInv'
  BY <1>1, LevelStep
<1>3. pc' # "idle"
  <2>1. CASE Loop \/ StepUp \/ StepOnGroup \/ StepToEntry
    BY <2>1 DEF Loop, StepUp, StepOnGroup, StepToEntry, Stepping
  <2>2. CASE UpAtTop \/ Up \/ Down
    BY <2>2 DEF UpAtTop, Up, Down
  <2> QED BY <2>1, <2>2 DEF Walk
<1> QED BY <1>2, <1>3 DEF LevelInv, Balanced

\* A target is the sibling d further, and without one the node is the last child.
LEMMA TargetIs ==
  ASSUME It = iter, iter.tree \in Nodes, d \in {0, 1}, Place(iter.tree) \in 1 .. Len(Siblings(iter.tree)),
         Len(Siblings(iter.tree)) \in Nat
  PROVE  /\ Target # None => Place(iter.tree) + d \in 1 .. Len(Siblings(iter.tree))
                             /\ Target = Siblings(iter.tree)[Place(iter.tree) + d] /\ Target \in Nodes
         /\ Target = None => d = 1 /\ Place(iter.tree) = Len(Siblings(iter.tree))
<1> DEFINE k == Place(iter.tree) + d  s == Siblings(iter.tree)
<1>1. Target = IF k \in 1 .. Len(s) THEN s[k] ELSE None
  BY DEF Target
<1>2. k \in 1 .. Len(s) => s[k] \in Nodes /\ s[k] # None
  BY Beside, TreeAssumption
<1>3. ~(k \in 1 .. Len(s)) => d = 1 /\ Place(iter.tree) = Len(s)
  OBVIOUS
<1> QED BY <1>1, <1>2, <1>3

LEMMA StepOrdered ==
  ASSUME Types, InOrder, played \in Nat, Loop \/ StepUp \/ StepOnGroup \/ StepToEntry
  PROVE  Orderly(iter', pc', d', result', played') /\ played' \in Nat
<1>1. /\ It = iter /\ iter \in Iterators /\ iter.tree \in Nodes /\ Len(iter.stack) = Depth[iter.tree]
      /\ d \in {0, 1} /\ Place(iter.tree) \in 1 .. Len(Siblings(iter.tree)) /\ Len(Siblings(iter.tree)) \in Nat
  BY WalkOrdered DEF Walk
<1>2. pc = "step" /\ Ordered(iter, "step", d, played)
  BY WalkOrdered DEF Walk, Loop, StepUp, StepOnGroup, StepToEntry, Stepping
<1>3. /\ who = "iter" /\ after \in {"play", "up", "begin", "source"}
      /\ iter' \in Iterators /\ iter'.tree \in Nodes /\ played # Disturbed
  <2>1. who = "iter" /\ after \in {"play", "up", "begin", "source"} /\ played # Disturbed
    BY <1>2 DEF InOrder, Disturbed
  <2>2. Walk
    BY DEF Walk
  <2> QED BY <2>1, <2>2, WalkStays
<1>4. Unpushed = [iter EXCEPT !.pushed = FALSE, !.file = -1]
  BY <1>1 DEF Unpushed
<1>5. CASE Loop
  <2>1. Target = None /\ MustLoop /\ pc' = "step" /\ d' = 0 /\ played' = played
    BY <1>2, <1>5 DEF Loop, Stepping
  <2>2. d = 1 /\ Place(iter.tree) = Len(Siblings(iter.tree))
    BY <1>1, <2>1, TargetIs
  <2>3. ParentLoop # 0 /\ iter.loop # 0
    BY <1>1, <2>1, <2>2 DEF MustLoop
  <2>4. iter.tree # Root /\ ParentLoop = Tree[Tree[iter.tree].parent].loop
    BY <1>1, <2>3, TreeAssumption DEF ParentLoop
  <2>5. iter.loop > 0
    BY <1>1, <1>2, <2>3, <2>4, LoopOf DEF CountOf
  <2>6. iter' = [Unpushed EXCEPT !.tree = Siblings(iter.tree)[1], !.loop = iter.loop - 1]
    <3>1. iter' = [Unpushed EXCEPT !.tree = IF d > 0 THEN Siblings(iter.tree)[1] ELSE Siblings(iter.tree)[Len(Siblings(iter.tree))],
                                   !.loop = IF d > 0 THEN (IF @ > 0 THEN @ - 1 ELSE @)
                                            ELSE (IF @ >= 0 /\ @ < ParentLoop THEN @ + 1 ELSE @)]
      BY <1>1, <1>3, <1>5 DEF Loop, SetIt
    <3>2. Unpushed.loop = iter.loop /\ d > 0
      BY <1>1, <1>4, <2>2 DEF Iterators
    <3> QED BY <2>5, <3>1, <3>2
  <2>7. iter'.tree = Siblings(iter.tree)[1] /\ iter'.loop = iter.loop - 1 /\ iter'.stack = iter.stack
    BY <1>1, <1>4, <2>6 DEF Iterators
  <2>8. Ordered(iter', "step", 0, played)
    BY <1>1, <1>2, <1>3, <2>2, <2>4, <2>5, <2>7, LoopsAgain
  <2> QED BY <2>1, <2>8 DEF Orderly
<1>6. CASE StepUp
  <2>1. Target = None /\ ~MustLoop /\ pc' = "up" /\ d' = Onward /\ played' = played /\ iter' = Unpushed
    BY <1>1, <1>3, <1>6 DEF StepUp, SetIt
  <2>2. d = 1 /\ Place(iter.tree) = Len(Siblings(iter.tree))
    BY <1>1, <2>1, TargetIs
  <2>3. Onward = 1
    BY <1>1, <2>2 DEF Onward, Remaining
  <2>4. ASSUME iter.tree # Root, iter.loop > 0 PROVE FALSE
    <3>1. CountOf(Tree[iter.tree].parent, iter.loop)
      BY <1>1, <1>2, <2>4, LoopOf
    <3>2. ParentLoop = Tree[Tree[iter.tree].parent].loop
      BY <1>1, <2>4, TreeAssumption DEF ParentLoop
    <3> QED BY <1>1, <2>1, <2>2, <2>4, <3>1, <3>2 DEF MustLoop, CountOf
  <2>5. Ordered(iter, "up", 1, played)
    BY <1>1, <1>2, <2>2, <2>4, LeavesGroup
  <2>6. iter'.tree = iter.tree /\ iter'.stack = iter.stack /\ iter'.loop = iter.loop
    BY <1>1, <1>4, <2>1 DEF Iterators
  <2>7. Ordered(iter', "up", 1, played)
    BY <2>5, <2>6, OrderedSame
  <2> QED BY <2>1, <2>3, <2>7 DEF Orderly
<1>7. ASSUME Target # None,
             iter'.tree = Target, iter'.loop = iter.loop, iter'.stack = iter.stack
      PROVE  Ordered(iter', "step", 0, played)
  BY <1>1, <1>2, <1>3, <1>7, TargetIs, ArrivesAt
<1>8. CASE StepOnGroup
  <2>1. Target # None /\ pc' = "down" /\ d' = d /\ played' = played /\ iter' = [Unpushed EXCEPT !.tree = Target]
    BY <1>1, <1>3, <1>8 DEF StepOnGroup, SetIt
  <2>2. iter'.tree = Target /\ iter'.loop = iter.loop /\ iter'.stack = iter.stack
    BY <1>1, <1>4, <2>1 DEF Iterators
  <2>3. Ordered(iter', "step", 0, played)
    BY <1>7, <2>1, <2>2
  <2>4. Now(iter'.tree, "down", d) = Now(iter'.tree, "step", 0)
    BY DEF Now
  <2>5. Ordered(iter', "down", d, played)
    BY <2>3, <2>4, OrderedSame
  <2> QED BY <1>1, <2>1, <2>5 DEF Orderly
<1>9. CASE StepToEntry
  <2>1. /\ Target # None /\ ~IsGroup(Target) /\ pc' = "returned" /\ d' = d /\ played' = played + 1
        /\ iter' = [Unpushed EXCEPT !.tree = Target, !.pushed = (@ \/ who = "iter")]
    BY <1>1, <1>3, <1>9 DEF StepToEntry, SetIt
  <2>2. iter'.tree = Target /\ iter'.loop = iter.loop /\ iter'.stack = iter.stack
    BY <1>1, <1>4, <2>1 DEF Iterators
  <2>3. Ordered(iter', "step", 0, played)
    BY <1>7, <2>1, <2>2
  <2>4. Ordered(iter', "returned", d, played + 1) /\ EntryIs(iter'.tree, played + 1)
    BY <1>3, <2>1, <2>2, <2>3, BeginsEntry
  <2> QED BY <1>1, <2>1, <2>4 DEF Orderly
<1> QED BY <1>5, <1>6, <1>8, <1>9

LEMMA ClimbOrdered ==
  ASSUME NoEndlessLoops, Types, InOrder, played \in Nat, UpAtTop \/ Up \/ Down
  PROVE  Orderly(iter', pc', d', result', played') /\ played' \in Nat
<1>1. /\ It = iter /\ iter \in Iterators /\ iter.tree \in Nodes /\ Len(iter.stack) = Depth[iter.tree]
      /\ d \in {0, 1} /\ pc \in {"up", "down"} /\ Ordered(iter, pc, d, played)
  BY WalkOrdered DEF Walk, UpAtTop, Up, Down, Moving
<1>2. who = "iter" /\ iter' \in Iterators /\ played' = played
  <2>1. who = "iter"
    BY <1>1 DEF InOrder
  <2>2. Walk
    BY DEF Walk
  <2>3. played' = played
    BY DEF UpAtTop, Up, Down, Moving, history
  <2> QED BY <2>1, <2>2, <2>3, WalkStays
<1>3. pc = "up" => d = 1
  BY <1>1 DEF InOrder
<1>4. CASE UpAtTop
  <2>1. pc = "up" /\ pc' = "returned" /\ d' = d /\ result' = "end" /\ iter' = [iter EXCEPT !.file = -1]
    BY <1>1, <1>2, <1>4 DEF UpAtTop, Moving, SetIt
  <2>2. iter'.tree = iter.tree /\ iter'.loop = iter.loop /\ iter'.stack = iter.stack
    BY <1>1, <2>1 DEF Iterators
  <2>3. Now(iter.tree, "returned", d) = Now(iter.tree, "up", d)
    BY DEF Now
  <2>4. Ordered(iter', "returned", d, played)
    <3>1. Ordered(iter, "up", d, played)
      BY <1>1, <2>1
    <3> QED BY <2>2, <2>3, <3>1, OrderedSame
  <2> QED BY <1>1, <1>2, <2>1, <2>4 DEF Orderly
<1>5. CASE Up
  <2>1. /\ pc = "up" /\ pc' = "step" /\ d' = d /\ Tree[iter.tree].parent # None
        /\ iter' = [iter EXCEPT !.tree = Tree[iter.tree].parent, !.file = -1, !.loop = iter.stack[Len(iter.stack)],
                                !.stack = SubSeq(iter.stack, 1, Len(iter.stack) - 1)]
    BY <1>1, <1>2, <1>5 DEF Up, Moving, SetIt, Iterators
  <2>2. /\ iter'.tree = Tree[iter.tree].parent /\ iter'.loop = iter.stack[Len(iter.stack)]
        /\ iter'.stack = SubSeq(iter.stack, 1, Len(iter.stack) - 1)
    BY <1>1, <2>1 DEF Iterators
  <2>3. iter.tree # Root
    BY <2>1, TreeAssumption
  <2>4. Ordered(iter', "step", 1, played)
    BY <1>1, <1>2, <1>3, <2>1, <2>2, <2>3, GoesUp
  <2> QED BY <1>2, <1>3, <2>1, <2>4 DEF Orderly
<1>6. CASE Down
  <2>1. /\ pc = "down" /\ pc' = "step" /\ d' = 0
        /\ iter' = [iter EXCEPT !.tree = Tree[iter.tree].kids[1], !.file = -1, !.loop = Tree[iter.tree].loop - 1,
                                !.stack = Append(iter.stack, iter.loop)]
    <3>1. d >= 0 /\ pc = "down" /\ pc' = "step" /\ d' = 0
      BY <1>1, <1>6 DEF Down, Moving
    <3>2. iter' = [iter EXCEPT !.tree = IF d >= 0 THEN Tree[iter.tree].kids[1] ELSE Tree[iter.tree].kids[Len(Tree[iter.tree].kids)],
                               !.file = -1, !.loop = Tree[iter.tree].loop - 1, !.stack = Append(@, iter.loop)]
      BY <1>1, <1>2, <1>6 DEF Down, SetIt
    <3> QED BY <1>1, <3>1, <3>2 DEF Iterators
  <2>2. /\ iter'.tree = Tree[iter.tree].kids[1] /\ iter'.loop = Tree[iter.tree].loop - 1
        /\ iter'.stack = Append(iter.stack, iter.loop)
    BY <1>1, <2>1 DEF Iterators
  <2>3. IsGroup(iter.tree)
    BY <1>2, <2>1 DEF Types, LevelInv, PoppedInTime
  <2>4. Ordered(iter', "step", 0, played)
    BY <1>1, <1>2, <2>1, <2>2, <2>3, GoesDown
  <2> QED BY <1>2, <2>1, <2>4 DEF Orderly
<1> QED BY <1>4, <1>5, <1>6

LEMMA WalkInOrder == NoEndlessLoops /\ Types /\ InOrder /\ Walk => InOrder'
<1> SUFFICES ASSUME NoEndlessLoops, Types, InOrder, Walk PROVE InOrder'
  OBVIOUS
<1>1. pc \in {"step", "up", "down"} /\ UNCHANGED <<who, after, eof, step>>
  <2>1. CASE Loop \/ StepUp \/ StepOnGroup \/ StepToEntry
    BY <2>1 DEF Loop, StepUp, StepOnGroup, StepToEntry, Stepping, command
  <2>2. CASE UpAtTop \/ Up \/ Down
    BY <2>2 DEF UpAtTop, Up, Down, Moving, command
  <2> QED BY <2>1, <2>2 DEF Walk
<1>2. CASE played \in Nat
  <2>1. Orderly(iter', pc', d', result', played') /\ played' \in Nat
    BY <1>2, StepOrdered, ClimbOrdered DEF Walk
  <2>2. who' = "iter" /\ after' \in {"play", "up", "begin", "source"} /\ eof' = 1 /\ step' = 1
    BY <1>1, <1>2 DEF InOrder
  <2> QED BY <2>1, <2>2 DEF InOrder, Orderly, Unstarted
<1>3. CASE played \notin Nat
  <2>1. played = Disturbed
    BY <1>1, <1>3 DEF InOrder
  <2>2. played' = Disturbed
    <3>1. CASE Loop \/ StepUp \/ StepOnGroup
      BY <2>1, <3>1 DEF Loop, StepUp, StepOnGroup
    <3>2. CASE StepToEntry
      BY <2>1, <3>2 DEF StepToEntry
    <3>3. CASE UpAtTop \/ Up \/ Down
      BY <2>1, <3>3 DEF UpAtTop, Up, Down, Moving, history
    <3> QED BY <3>1, <3>2, <3>3 DEF Walk
  <2> QED BY <2>2 DEF InOrder, Disturbed, Unstarted
<1> QED BY <1>2, <1>3

\* With an entry begun and no command given, the player asks for its sources, and then for the
\* entry after it.
LEMMA PlayerInOrder == Types /\ InOrder /\ (Stepped \/ GetSource \/ NextFile \/ StepOn \/ File) => InOrder'
<1> SUFFICES ASSUME Types, InOrder, Stepped \/ GetSource \/ NextFile \/ StepOn \/ File PROVE InOrder'
  OBVIOUS
<1>1. pc \in {"returned", "next", "source", "playing"} /\ played' = played
  BY DEF Stepped, GetSource, NextFile, StepOn, File, EndOfFile, OpenFails, history
<1>2. CASE played \notin Nat
  <2>1. played' = Disturbed
    BY <1>1, <1>2 DEF InOrder
  <2> QED BY <2>1 DEF InOrder, Disturbed, Unstarted
<1>3. CASE played \in Nat
  <2>1. /\ who = "iter" /\ after \in {"play", "up", "begin", "source"} /\ eof = 1 /\ step = 1 /\ Ordered(iter, pc, d, played)
        /\ pc \in {"next", "source", "playing"} \/ (pc = "returned" /\ result = "entry") => EntryIs(iter.tree, played)
    BY <1>1, <1>3 DEF InOrder
  <2>2. iter \in Iterators /\ played # Unstarted
    BY <1>1, <1>3 DEF Types, LevelInv, Balanced, Unstarted
  <2>3. ASSUME NEW j, j.tree = iter.tree, j.stack = iter.stack, j.loop = iter.loop,
               NEW place \in {"step", "next", "source", "playing"}, NEW dir, place = "step" => dir = 1
        PROVE  Ordered(j, place, dir, played)
    <3>1. Now(iter.tree, place, dir) = Now(iter.tree, pc, d)
      BY <1>1, <2>3 DEF Now
    <3> QED BY <2>1, <2>3, <3>1, OrderedSame
  <2>4. CASE Stepped
    <3>1. pc = "returned" /\ UNCHANGED <<who, d, after, result>> /\ eof' = 1 /\ step' = 1
      BY <2>1, <2>4 DEF Stepped
    <3>2. CASE result = "entry"
      <4>1. pc' = "source" /\ iter' = iter
        BY <2>4, <3>2 DEF Stepped
      <4>2. Ordered(iter', "source", d', played)
        BY <2>3, <4>1
      <4> QED BY <1>1, <1>3, <2>1, <2>2, <3>1, <3>2, <4>1, <4>2 DEF InOrder
    <3>3. CASE result # "entry"
      <4>1. pc' = "idle"
        BY <2>4, <3>3 DEF Stepped
      <4>2. result = "end"
        BY <2>1, <3>1, <3>3 DEF Types, LevelInv, PoppedInTime
      <4>3. iter.tree = Root
        BY <2>1, <3>1, <4>2, EndsAtRoot DEF Types
      <4>4. played = Len(Unrolled)
        BY <2>1, <3>1, <4>3, AllBegun
      <4> QED BY <1>1, <1>3, <4>1, <4>4 DEF InOrder
    <3> QED BY <3>2, <3>3
  <2>5. CASE GetSource
    <3>1. pc = "source" /\ eof' = eof /\ step' = step
      BY <2>5 DEF GetSource, command
    <3>2. CASE NextSource(iter, eof) = -1
      <4>1. pc' = "step" /\ who' = "iter" /\ d' = 1 /\ after' = "source" /\ iter' = iter
        BY <2>1, <2>5, <3>2 DEF GetSource, Run
      <4>2. Ordered(iter', "step", 1, played)
        BY <2>3, <4>1
      <4> QED BY <1>1, <1>3, <2>1, <2>2, <3>1, <4>1, <4>2 DEF InOrder
    <3>3. CASE NextSource(iter, eof) # -1
      <4>1. pc' = "playing" /\ UNCHANGED <<who, d, after, result>> /\ iter' = [iter EXCEPT !.file = NextSource(iter, eof)]
        BY <2>5, <3>3 DEF GetSource
      <4>2. iter'.tree = iter.tree /\ iter'.stack = iter.stack /\ iter'.loop = iter.loop
        BY <2>2, <4>1 DEF Iterators
      <4>3. Ordered(iter', "playing", d', played)
        BY <2>3, <4>2
      <4> QED BY <1>1, <1>3, <2>1, <2>2, <3>1, <4>1, <4>2, <4>3 DEF InOrder
    <3> QED BY <3>2, <3>3
  <2>6. CASE EndOfFile
    <3>1. /\ pc = "playing" /\ pc' = "next" /\ who' = "iter" /\ d' = 1 /\ after' = "play" /\ iter' = iter
          /\ eof' = 1 /\ step' = 1
      BY <2>1, <2>6 DEF EndOfFile, Run
    <3>2. Ordered(iter', "next", 1, played)
      BY <2>3, <3>1
    <3> QED BY <1>1, <1>3, <2>1, <2>2, <3>1, <3>2 DEF InOrder
  <2>7. CASE OpenFails
    <3>1. pc = "playing" /\ pc' = "source" /\ UNCHANGED <<who, d, after, result, iter, step>> /\ eof' = 1
      BY <2>7 DEF OpenFails
    <3>2. Ordered(iter', "source", d', played)
      BY <2>3, <3>1
    <3> QED BY <1>1, <1>3, <2>1, <2>2, <3>1, <3>2 DEF InOrder
  <2>8. CASE NextFile
    <3>1. pc = "next" /\ pc' = "playing" /\ UNCHANGED <<who, d, after, result, iter, step>> /\ eof' = 1
      BY <2>8 DEF NextFile
    <3>2. Ordered(iter', "playing", d', played)
      BY <2>3, <3>1
    <3> QED BY <1>1, <1>3, <2>1, <2>2, <3>1, <3>2 DEF InOrder
  <2>9. CASE StepOn
    <3>1. pc = "next" /\ pc' = "step" /\ UNCHANGED <<who, d, after, result, iter, eof, step>>
      BY <2>9 DEF StepOn, command
    <3>2. d = 1
      BY <1>3, <3>1 DEF InOrder
    <3>3. Ordered(iter', "step", 1, played)
      BY <2>3, <3>1
    <3> QED BY <1>1, <1>3, <2>1, <2>2, <3>1, <3>2, <3>3 DEF InOrder
  <2> QED BY <2>4, <2>5, <2>6, <2>7, <2>8, <2>9 DEF File
<1> QED BY <1>2, <1>3

\* A list begins with all of it to come, and after a command the order is not claimed.
LEMMA UserInOrder == Types /\ InOrder /\ (User \/ Probed \/ Unwound) => InOrder'
<1> SUFFICES ASSUME Types, InOrder, User \/ Probed \/ Unwound PROVE InOrder'
  OBVIOUS
<1>2. CASE played' = Disturbed
  BY <1>2 DEF InOrder, Disturbed, Unstarted
<1>1. CASE Begin
  <2>1. /\ iter' = [NoIter EXCEPT !.tree = Root] /\ pc' = "step" /\ who' = "iter" /\ d' = 0 /\ after' = "begin"
        /\ eof' = 1 /\ step' = step /\ played' = IF step = 1 THEN 0 ELSE Disturbed
    BY <1>1 DEF Begin, Run
  <2>2. iter'.tree = Root /\ iter'.loop = 0
    BY <2>1 DEF NoIter
  <2>3. Ordered(iter', "step", 0, 0)
    BY <2>2, AllToCome
  <2> QED BY <1>2, <2>1, <2>3 DEF InOrder, Unstarted
<1>3. CASE Probed \/ Unwound
  <2>1. pc = "returned" /\ played' = played /\ (who = "copy" \/ after \in {"stop", "load"})
    BY <1>3 DEF Probed, Unwound, history
  <2>2. played = Disturbed
    BY <2>1 DEF InOrder
  <2> QED BY <1>2, <2>1, <2>2
<1>4. CASE pc = "idle" /\ pc' = pc /\ played' = played
  BY <1>4 DEF InOrder, Disturbed, Unstarted
<1>5. ASSUME NEW n \in Steps, NEW up \in BOOLEAN, NEW force \in BOOLEAN, CmdStep(n, up, force) PROVE played' = Disturbed
  BY <1>5, StepBegins
<1>6. ASSUME NEW v, CmdSource(v) \/ CmdUnwind(v) PROVE played' = Disturbed
  BY <1>6 DEF CmdSource, CmdUnwind, Commanded
<1>7. ASSUME NEW name, NEW value, SetWhilePlaying(name, value) \/ WriteWhilePlaying(name, value) PROVE played' = Disturbed
  BY <1>7 DEF SetWhilePlaying, WriteWhilePlaying, Commanded
<1>8. ASSUME NEW name, NEW value, SetWhileIdle(name, value) \/ WriteWhileIdle(name, value)
      PROVE  pc = "idle" /\ pc' = pc /\ played' = played
  BY <1>8 DEF SetWhileIdle, WriteWhileIdle, call
<1>9. ASSUME NEW n \in 0 .. Following, Browse(n) PROVE InOrder'
  BY <1>9 DEF Browse, call, InOrder
<1> QED BY <1>1, <1>2, <1>3, <1>4, <1>5, <1>6, <1>7, <1>8, <1>9 DEF User

LEMMA OrderStep == NoEndlessLoops /\ Types /\ InOrder /\ [Next]_vars => InOrder'
<1>1. InOrder /\ UNCHANGED vars => InOrder'
  BY DEF InOrder, vars, call, command, history
<1> QED BY <1>1, WalkInOrder, PlayerInOrder, UserInOrder DEF Next, Player

\* On any tree in which no list plays for ever, from a play_tree_step of 1 until the user gives a
\* command, and with what the browser plays between two entries apart, the entries
\* begin in the order of the tree, each group as often as play_tree_iter_step counts its loop,
\* none left out and none twice, and the list is at its end when every one has been played.
THEOREM TreeOrder == ASSUME NoEndlessLoops PROVE Spec => []InTreeOrder
<1>1. Init => InOrder
  BY DEF Init, InOrder, Unstarted
<1>2. InOrder => InTreeOrder
  <2> SUFFICES ASSUME InOrder PROVE InTreeOrder
    OBVIOUS
  <2>1. pc = "playing" /\ played >= 0 => EntryIs(iter.tree, played)
    BY DEF InOrder
  <2>2. pc = "idle" /\ played >= 0 => played = Len(Unrolled)
    BY DEF InOrder
  <2> QED BY <2>1, <2>2 DEF InTreeOrder, EntryIs
<1>3. Types /\ InOrder /\ [Next]_vars => InOrder'
  BY OrderStep
<1> QED BY <1>1, <1>2, <1>3, TypesAlways, PTL DEF Spec
=============================================================================
