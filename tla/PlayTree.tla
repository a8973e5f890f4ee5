-------------------------------- MODULE PlayTree --------------------------------
(***************************************************************************)
(* The play tree's iterator (src/mplayer/playtree.c), the options it sets  *)
(* for each group and entry, and the player that steps it: the end of a    *)
(* file, the play tree commands with the copies they try first, stopping,  *)
(* loading a list and options changed while playing (mplayer.c, command.c).*)
(*                                                                         *)
(* The tree is a constant, cleaned up: every group has an entry somewhere  *)
(* below it.  Random order is not modelled.  An action is one pass of      *)
(* play_tree_iter_step, up_step or down_step, which call one another last. *)
(* The console's player may take the file that follows in the menu's file  *)
(* browser (libmenu/menu_filesel.c) where others step to the next entry.   *)
(***************************************************************************)
EXTENDS MConfig, SequencesExt

CONSTANTS
  Tree,       \* of each node: parent, kids, loop, files (0 of a group), params
  Steps,      \* the numbers of play tree step commands
  UserActs,   \* bound: commands, choices in the browser and changes of options, in all
  Following,  \* bound: files that follow the chosen one in the browser's list
  MayAlias    \* the user names aliases

None == 0
Root == 1
Nodes == DOMAIN Tree

ASSUME TreeAssumption ==
  /\ Root \in Nodes /\ None \notin Nodes /\ Tree[Root].parent = None /\ Tree[Root].kids # <<>>
  /\ \A x \in Nodes :
       /\ x # Root => /\ Tree[x].parent \in Nodes
                      /\ \E i \in 1 .. Len(Tree[Tree[x].parent].kids) : Tree[Tree[x].parent].kids[i] = x
       /\ Tree[x].kids \in Seq(Nodes) /\ IsInjective(Tree[x].kids)
       /\ \A i \in 1 .. Len(Tree[x].kids) : Tree[Tree[x].kids[i]].parent = x
       /\ Tree[x].files \in Nat /\ (Tree[x].files = 0 <=> Tree[x].kids # <<>>) /\ Tree[x].loop \in Int
       /\ Tree[x].params \in Seq(Names \X Values)
  /\ Steps \subseteq Int \ {0} /\ UserActs \in Nat /\ Following \in Nat /\ MayAlias \in BOOLEAN

\* Every way up ends at the root, and every way down: the depth of a node is a number, and that of
\* some node the greatest.
Depth[x \in Nodes] == IF x = Root THEN 0 ELSE Depth[Tree[x].parent] + 1

ASSUME DepthAssumption ==
  /\ \A x \in Nodes : /\ Depth[x] \in Nat
                      /\ Depth[x] = IF x = Root THEN 0 ELSE Depth[Tree[x].parent] + 1
  /\ \E y \in Nodes : \A x \in Nodes : Depth[x] <= Depth[y]

VARIABLES
  \* the configuration, the player's iterator, the copy a command tries
  cfg, iter, copy,
  \* the call that runs: its place, whose iterator it is, d, what it is for, its result
  pc, who, d, after, result,
  \* mpctx->eof as a direction, play_tree_step, the number of the command a copy tries,
  \* and how many files are still to come in the browser's list (next_file, current_list)
  eof, step, asked, browse,
  \* history: values of the variables when nothing plays; options the user changed since the
  \* entry began; the entry a copy found; entries begun with no command given; commands
  base, touched, promised, played, acts

call    == <<pc, who, d, after, result>>
command == <<eof, step, asked, browse>>
history == <<base, touched, promised, played, acts>>
vars    == <<cfg, iter, copy, call, command, history>>

NoIter == [tree |-> None, loop |-> 0, stack |-> <<>>, file |-> -1, pushed |-> FALSE]
Disturbed == -1
Unstarted == -2

Init ==
  /\ \E v \in Values : cfg = NewConfig(v) /\ base = [o \in Options |-> v]
  /\ iter = NoIter /\ copy = NoIter
  /\ pc = "idle" /\ who = "iter" /\ d = 0 /\ after = "play" /\ result = "end"
  /\ eof = 1 /\ step = 1 /\ asked = 1 /\ browse = 0
  /\ touched = {} /\ promised = None /\ played = Unstarted /\ acts = 0

------------------------------------------------------------------------------
(* play_tree_iter_step.                                                     *)

Siblings(x) == IF Tree[x].parent = None THEN <<x>> ELSE Tree[Tree[x].parent].kids
Place(x) == CHOOSE i \in 1 .. Len(Siblings(x)) : Siblings(x)[i] = x
IsGroup(x) == Tree[x].files = 0

It == IF who = "iter" THEN iter ELSE copy
SetIt(i) == IF who = "iter" THEN iter' = i /\ UNCHANGED copy ELSE copy' = i /\ UNCHANGED iter

\* Only the player's iterator has a configuration.
Configured(c) == IF who = "iter" THEN c ELSE cfg

\* play_tree_iter_push_params.
PushParams(c, x) == SetOptions(Push(c), Tree[x].params)

\* The options of the entry that was playing go first.
EntryPopped == IF It.pushed THEN Configured(Pop(cfg)) ELSE cfg
Unpushed == [It EXCEPT !.pushed = FALSE, !.file = -1]

\* The sibling d further, and what is left of d when there is none.
Target == LET i == Place(It.tree) + d IN
          IF i \in 1 .. Len(Siblings(It.tree)) THEN Siblings(It.tree)[i] ELSE None
Remaining == LET i == Place(It.tree) IN
             IF d > 0 THEN d - (Len(Siblings(It.tree)) - i) - 1 ELSE d + (i - 1) + 1
Onward == IF d > 0 THEN (IF Remaining = 0 THEN 1 ELSE Remaining)
                   ELSE (IF Remaining = 0 THEN -1 ELSE Remaining)

ParentLoop == IF Tree[It.tree].parent = None THEN 0 ELSE Tree[Tree[It.tree].parent].loop
MustLoop ==
  /\ ParentLoop # 0
  /\ \/ d > 0 /\ It.loop # 0
     \/ d < 0 /\ (It.loop < 0 \/ It.loop < ParentLoop)

Stepping == pc = "step" /\ UNCHANGED <<who, after, command, base, promised, acts>>

\* Mutant: a loop is not counted.
LoopUncounted ==
  /\ Stepping /\ Target = None /\ MustLoop
  /\ LET s == Siblings(It.tree) IN
     SetIt([Unpushed EXCEPT !.tree = IF d > 0 THEN s[1] ELSE s[Len(s)]])
  /\ cfg' = EntryPopped /\ d' = 0
  /\ UNCHANGED <<pc, result, touched, played>>
\* No next one: the group again, from its first entry, or backwards from its last.
Loop ==
  /\ Stepping /\ Target = None /\ MustLoop
  /\ LET s == Siblings(It.tree) IN
     SetIt([Unpushed EXCEPT
              !.tree = IF d > 0 THEN s[1] ELSE s[Len(s)],
              !.loop = IF d > 0 THEN (IF @ > 0 THEN @ - 1 ELSE @)
                                ELSE (IF @ >= 0 /\ @ < ParentLoop THEN @ + 1 ELSE @)])
  /\ cfg' = EntryPopped /\ d' = 0
  /\ UNCHANGED <<pc, result, touched, played>>

StepUp ==
  /\ Stepping /\ Target = None /\ ~MustLoop
  /\ SetIt(Unpushed) /\ cfg' = EntryPopped
  /\ pc' = "up" /\ d' = Onward
  /\ UNCHANGED <<result, touched, played>>

\* A group: stop on it when winding up, else down into it.
StepOnGroup ==
  /\ Stepping /\ Target # None /\ IsGroup(Target)
  /\ SetIt([Unpushed EXCEPT !.tree = Target]) /\ cfg' = EntryPopped
  /\ IF after \in {"stop", "load"} THEN pc' = "returned" /\ result' = "node" ELSE pc' = "down" /\ UNCHANGED result
  /\ UNCHANGED <<d, touched, played>>

StepToEntry ==
  /\ Stepping /\ Target # None /\ ~IsGroup(Target)
  /\ SetIt([Unpushed EXCEPT !.tree = Target, !.pushed = (@ \/ who = "iter")])
  /\ cfg' = Configured(PushParams(EntryPopped, Target))
  /\ pc' = "returned" /\ result' = "entry"
  /\ touched' = IF who = "iter" THEN {} ELSE touched
  /\ played' = IF who = "iter" /\ played # Disturbed THEN played + 1 ELSE played
  /\ UNCHANGED d

------------------------------------------------------------------------------
(* play_tree_iter_up_step and down_step.                                    *)

Moving(place) == pc = place /\ UNCHANGED <<who, after, command, history>>

UpAtTop ==
  /\ Moving("up") /\ Tree[It.tree].parent = None
  /\ SetIt([It EXCEPT !.file = -1])
  /\ pc' = "returned" /\ result' = "end"
  /\ UNCHANGED <<cfg, d>>

\* Mutant: the options of the group stay.
UpWithOptions ==
  /\ Moving("up") /\ Tree[It.tree].parent # None
  /\ SetIt([It EXCEPT !.tree = Tree[@].parent, !.file = -1, !.loop = It.stack[Len(It.stack)],
                      !.stack = SubSeq(@, 1, Len(@) - 1)])
  /\ UNCHANGED <<cfg, d, result>> /\ pc' = "step"
\* The loop count and the options of the group above come back.
Up ==
  /\ Moving("up") /\ Tree[It.tree].parent # None
  /\ SetIt([It EXCEPT !.tree = Tree[@].parent, !.file = -1, !.loop = It.stack[Len(It.stack)],
                      !.stack = SubSeq(@, 1, Len(@) - 1)])
  /\ cfg' = Configured(Pop(cfg))
  /\ pc' = "step" /\ UNCHANGED <<d, result>>

\* Mutant: the first time through is not counted.
DownUncounted ==
  /\ Moving("down")
  /\ LET kids == Tree[It.tree].kids IN
     SetIt([It EXCEPT !.tree = IF d >= 0 THEN kids[1] ELSE kids[Len(kids)], !.file = -1,
                      !.loop = Tree[It.tree].loop, !.stack = Append(@, It.loop)])
  /\ cfg' = Configured(PushParams(cfg, It.tree))
  /\ pc' = "step" /\ d' = 0 /\ UNCHANGED result
Down ==
  /\ Moving("down")
  /\ LET kids == Tree[It.tree].kids IN
     SetIt([It EXCEPT !.tree = IF d >= 0 THEN kids[1] ELSE kids[Len(kids)], !.file = -1,
                      !.loop = Tree[It.tree].loop - 1, !.stack = Append(@, It.loop)])
  /\ cfg' = Configured(PushParams(cfg, It.tree))
  /\ pc' = "step" /\ d' = 0 /\ UNCHANGED result

------------------------------------------------------------------------------
(* The player: load_next_file, and the commands.                            *)

\* Mutant: the copy does not get the loop count.
CopyWithoutStack(i) == [i EXCEPT !.loop = 0]
\* play_tree_iter_new_copy.
NewCopy(i) == i

Run(place, whose, dir, purpose) ==
  /\ pc' = place /\ who' = whose /\ d' = dir /\ after' = purpose /\ UNCHANGED result

\* What the player's own walks are for: the step to the next entry, an up step, the first entry of a
\* list, the entry after the last source.
Loading == {"play", "up", "begin", "source"}

\* A new iterator on the tree, at the start or when a list is loaded.  A number that the browser's
\* file left in play_tree_step is still there.
Begin ==
  /\ pc = "idle" /\ acts < UserActs
  /\ iter' = [NoIter EXCEPT !.tree = Root]
  /\ Run("step", "iter", 0, "begin")
  /\ eof' = 1 /\ played' = (IF step = 1 THEN 0 ELSE Disturbed) /\ acts' = acts + 1
  /\ UNCHANGED <<cfg, copy, step, asked, browse, base, touched, promised>>

Sign(n) == IF n > 0 THEN 1 ELSE -1

\* eof is PT_NEXT_ENTRY, PT_PREV_ENTRY or PT_UP_..., and the file is left.
Leave(up, n) ==
  /\ eof' = Sign(n)
  /\ IF up THEN Run("up", "iter", n, "up") /\ UNCHANGED step
     ELSE Run(IF n > 0 THEN "next" ELSE "step", "iter", n, "play") /\ step' = n

\* The copy found an entry, or none.  When the file had ended before the command was read, the
\* number the copy could not go becomes play_tree_step all the same.
Probed ==
  /\ pc = "returned" /\ who = "copy"
  /\ \/ /\ result = "entry"
        /\ Leave(after = "probe up", asked) /\ promised' = copy.tree
     \/ /\ result # "entry"
        /\ pc' = "playing" /\ UNCHANGED <<eof, step, who, d, after, result, promised>>
     \/ /\ result # "entry" /\ after = "probe"
        /\ step' = asked /\ eof' = 1 /\ Run("next", "iter", asked, "play") /\ UNCHANGED promised
  /\ copy' = NoIter
  /\ UNCHANGED <<cfg, iter, asked, browse, base, touched, played, acts>>

\* check_play_next_file: in the console build the file that follows in the browser plays, and the
\* iterator and play_tree_step stay as they are.
NextFile ==
  /\ pc = "next" /\ browse > 0
  /\ pc' = "playing" /\ browse' = browse - 1 /\ eof' = 1 /\ promised' = None
  /\ UNCHANGED <<cfg, iter, copy, who, d, after, result, step, asked, base, touched, played, acts>>

\* There is none, or it is in another directory, or the browser is not to play on, or the stream
\* had an error: load_next_file.
StepOn ==
  /\ pc = "next" /\ pc' = "step"
  /\ UNCHANGED <<cfg, iter, copy, who, d, after, result, command, history>>

\* load_next_file: an entry, or the end, with which the iterator is freed.
Stepped ==
  /\ pc = "returned" /\ who = "iter" /\ after \in Loading
  /\ IF result = "entry" THEN pc' = "source" /\ UNCHANGED iter
                         ELSE pc' = "idle" /\ iter' = NoIter
  /\ eof' = (IF after = "source" THEN eof ELSE 1)
  /\ step' = (IF after = "play" THEN 1 ELSE step)
  /\ promised' = None
  /\ UNCHANGED <<cfg, copy, who, d, after, result, asked, browse, base, touched, played, acts>>

\* stop and loadfile: up, until the top is reached.
Unwound ==
  /\ pc = "returned" /\ after \in {"stop", "load"}
  /\ \/ result # "end" /\ Run("up", "iter", 0, after) /\ UNCHANGED iter
     \/ result = "end" /\ after = "stop" /\ pc' = "idle" /\ iter' = NoIter
        /\ UNCHANGED <<who, d, after, result>>
     \/ result = "end" /\ after = "load" /\ iter' = [iter EXCEPT !.tree = Root]
        /\ Run("step", "iter", 0, "begin")
  /\ UNCHANGED <<cfg, copy, command, history>>

\* play_tree_iter_get_file, forwards or backwards.
NextSource(i, dir) ==
  LET n == Tree[i.tree].files IN
  IF i.file >= n - 1 THEN None - 1
  ELSE IF dir > 0 THEN i.file + 1 ELSE IF i.file <= 0 THEN n - 1 ELSE i.file - 1

GetSource ==
  /\ pc = "source"
  /\ LET f == NextSource(iter, eof) IN
     IF f = -1 THEN Run("step", "iter", eof, "source") /\ UNCHANGED iter
               ELSE iter' = [iter EXCEPT !.file = f] /\ pc' = "playing" /\ UNCHANGED <<who, d, after, result>>
  /\ UNCHANGED <<cfg, copy, command, history>>

\* eof is PT_NEXT_ENTRY: the file is at its end, or could not be opened.
EndOfFile ==
  /\ pc = "playing"
  /\ Run("next", "iter", step, "play") /\ eof' = 1
  /\ UNCHANGED <<cfg, iter, copy, step, asked, browse, history>>

\* The file is left with eof still 0, as when it has no demuxer: the next source of the entry.
OpenFails ==
  /\ pc = "playing"
  /\ eof' = 1 /\ pc' = "source"
  /\ UNCHANGED <<cfg, iter, copy, who, d, after, result, step, asked, browse, history>>

Commanded == pc = "playing" /\ acts < UserActs /\ acts' = acts + 1 /\ played' = Disturbed

\* pt_step n and pt_up_step n, forced or not.
CmdStep(n, up, force) ==
  /\ Commanded
  /\ asked' = (IF up THEN Sign(n) ELSE n)
  /\ IF force THEN Leave(up, asked') /\ UNCHANGED copy
     ELSE Run(IF up THEN "up" ELSE "step", "copy", asked', IF up THEN "probe up" ELSE "probe")
          /\ copy' = NewCopy(iter) /\ UNCHANGED <<eof, step>>
  /\ UNCHANGED <<cfg, iter, browse, base, touched, promised>>

\* alt_src_step.
CmdSource(v) ==
  /\ Commanded /\ Tree[iter.tree].files > 1
  /\ v > 0 \/ iter.file > 1
  /\ eof' = Sign(v) /\ pc' = "source"
  /\ UNCHANGED <<cfg, iter, copy, who, d, after, result, step, asked, browse, base, touched, promised>>

CmdUnwind(purpose) ==
  /\ Commanded
  /\ Run("up", "iter", 0, purpose) /\ eof' = 1
  /\ UNCHANGED <<cfg, iter, copy, step, asked, browse, base, touched, promised>>

\* A file is chosen in the browser with n behind it in the list; the command to load it is queued.
Browse(n) ==
  /\ pc \in {"idle", "playing"} /\ acts < UserActs /\ acts' = acts + 1
  /\ browse' = n
  /\ UNCHANGED <<cfg, iter, copy, call, eof, step, asked, base, touched, promised, played>>

\* m_config_set_option while a file plays, or by the general options before the first one does.
SetWhilePlaying(name, value) ==
  /\ Commanded /\ (name \in Aliases => MayAlias)
  /\ cfg' = SetOption(cfg, name, value)
  /\ touched' = touched \cup {Variable(name)}
  /\ UNCHANGED <<iter, copy, call, command, base, promised>>

WriteWhilePlaying(o, value) ==
  /\ Commanded
  /\ cfg' = WriteVariable(cfg, o, value) /\ touched' = touched \cup {o}
  /\ UNCHANGED <<iter, copy, call, command, base, promised>>

SetWhileIdle(name, value) ==
  /\ pc = "idle" /\ played = Unstarted /\ acts < UserActs /\ acts' = acts + 1
  /\ cfg' = SetOption(cfg, name, value)
  /\ base' = [base EXCEPT ![Variable(name)] = value]
  /\ UNCHANGED <<iter, copy, call, command, touched, promised, played>>

WriteWhileIdle(o, value) ==
  /\ pc = "idle" /\ acts < UserActs /\ acts' = acts + 1
  /\ cfg' = WriteVariable(cfg, o, value) /\ base' = [base EXCEPT ![o] = value]
  /\ UNCHANGED <<iter, copy, call, command, touched, promised, played>>

Walk == Loop \/ StepUp \/ StepOnGroup \/ StepToEntry \/ UpAtTop \/ Up \/ Down
Player == Probed \/ NextFile \/ StepOn \/ Stepped \/ Unwound \/ GetSource
File == EndOfFile \/ OpenFails
User ==
  \/ Begin
  \/ \E n \in Steps, up \in BOOLEAN, force \in BOOLEAN : CmdStep(n, up, force)
  \/ \E v \in {1, -1} : CmdSource(v)
  \/ \E purpose \in {"stop", "load"} : CmdUnwind(purpose)
  \/ \E n \in 0 .. Following : Browse(n)
  \/ \E name \in Names, value \in Values : SetWhilePlaying(name, value) \/ SetWhileIdle(name, value)
  \/ \E o \in Options, value \in Values : WriteWhilePlaying(o, value) \/ WriteWhileIdle(o, value)

Next == Walk \/ Player \/ File \/ User

Spec == Init /\ [][Next]_vars

\* A file ends or fails, and the player goes on to the next one.
FairSpec == Spec /\ WF_vars(Walk \/ Player) /\ WF_vars(File)

------------------------------------------------------------------------------
(* Properties.                                                              *)

Iterators == [tree : Nodes \cup {None}, loop : Int, stack : Seq(Int), file : {-1} \cup Nat, pushed : BOOLEAN]

TypeOK ==
  /\ cfg.lvl \in Nat \ {0} /\ cfg.set \subseteq Names
  /\ \A o \in Options : /\ cfg.var[o] \in Values /\ {0, 1} \subseteq Levels(cfg, o)
                        /\ \A l \in Levels(cfg, o) : l \in 0 .. cfg.lvl /\ cfg.saved[o][l] \in Values
  /\ iter \in Iterators /\ copy \in Iterators
  /\ pc \in {"idle", "step", "up", "down", "returned", "next", "source", "playing"}
  /\ who \in {"iter", "copy"} /\ d \in Int /\ result \in {"entry", "node", "end"}
  /\ eof \in {1, -1} /\ step \in Int \ {0} /\ asked \in Int \ {0} /\ browse \in 0 .. Following
  /\ touched \subseteq Options /\ promised \in Nodes \cup {None}

\* Every level of the configuration belongs to a group the iterator is in, or to the entry that
\* plays: none is popped twice, none stays behind, whatever way the tree is left.
LevelsAreGroups ==
  cfg.lvl = 1 + Len(iter.stack) + (IF iter.pushed THEN 1 ELSE 0)

\* What o is for x: the last of the values x sets it to, or what it is for the group of x.
Settings(x, o) == {i \in 1 .. Len(Tree[x].params) : Variable(Tree[x].params[i][1]) = o}
Expected(x, o) ==
  LET value[y \in Nodes] ==
        IF Settings(y, o) # {} THEN Tree[y].params[Highest(Settings(y, o))][2]
        ELSE IF y = Root THEN base[o] ELSE value[Tree[y].parent]
  IN value[x]

\* "mplayer [options] file1 [specific options] {group} [group-specific options]": an entry plays
\* with its own options over those of its groups over the general ones, but for what the user
\* changed since it began, and after the last one the general ones are back.  A file the browser
\* plays after an entry has that entry's options.
OptionsAreOfEntry ==
  /\ pc = "playing" => \A o \in Options \ touched : cfg.var[o] = Expected(iter.tree, o)
  /\ pc = "idle" => cfg.var = base

\* What a copy of the iterator finds for a command is what the player then steps to, if it steps:
\* the console's player may answer a step forwards with the browser's next file instead, and then
\* the iterator stays on its entry (NextFile withdraws the promise).
CopyTellsTruth ==
  pc = "returned" /\ who = "iter" /\ promised # None => result = "entry" /\ iter.tree = promised

\* The entries of the tree, each group as often as its loop says.
Times(x) == IF Tree[x].loop > 1 THEN Tree[x].loop ELSE 1
Unrolled ==
  LET below[x \in Nodes] ==
        IF ~IsGroup(x) THEN <<x>>
        ELSE LET pass == FlattenSeq([i \in 1 .. Len(Tree[x].kids) |-> below[Tree[x].kids[i]]])
             IN FlattenSeq([n \in 1 .. Times(x) |-> pass])
  IN below[Root]

\* Without commands the entries come in the order of the tree, each group as often as it is to
\* loop, none left out and none twice, and then the list is at its end; files of the browser may
\* play between two of them.  A list begun with a number left over in play_tree_step (the browser's
\* file answered a step by it) is excepted: its first end of a file steps by that number.
InTreeOrder ==
  /\ pc = "playing" /\ played >= 0 =>
       played \in 1 .. Len(Unrolled) /\ iter.tree = Unrolled[played]
  /\ pc = "idle" /\ played >= 0 => played = Len(Unrolled)

\* However the user steps, up, back or past the ends, with files of the browser between, the list
\* comes to its end.
ListEnds == <>[](pc = "idle")
=============================================================================
