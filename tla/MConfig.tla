-------------------------------- MODULE MConfig --------------------------------
(***************************************************************************)
(* The stack of option values of src/mplayer/m_config.c.                   *)
(*                                                                         *)
(* A configuration is a record: the level; for each option the save slots, *)
(* as a function from their levels to the values in them (the slot in use  *)
(* is that of the highest level); the variable the option points to; and   *)
(* the names with M_CFG_OPT_SET.  An alias is a second name of a variable  *)
(* that another option has: it keeps the pointer to the slot which that    *)
(* option had when the alias was registered, at level 1.                   *)
(***************************************************************************)
EXTENDS Integers, Sequences

CONSTANTS
  Options,     \* the options that are saved, each with a variable of its own
  Aliases,     \* further names of these variables
  OwnerOf,     \* of each alias, the option that has its variable
  OldOptions,  \* the options with M_OPT_OLD
  Values

ASSUME ConfigAssumption ==
  /\ Aliases \cap Options = {} /\ OwnerOf \in [Aliases -> Options]
  /\ OldOptions \subseteq Options

Names == Options \cup Aliases

Highest(levels) == CHOOSE l \in levels : \A k \in levels : k <= l

\* m_config_new and m_config_add_option: slots for the default, level 0, and level 1.
NewConfig(default) ==
  [lvl |-> 1, saved |-> [o \in Options |-> [l \in {0, 1} |-> default]],
   var |-> [o \in Options |-> default], set |-> {}]

Levels(c, o) == DOMAIN c.saved[o]
Top(c, o) == Highest(Levels(c, o))

\* Mutant: what the variables are when a level begins is not saved.
PushUnsaved(c) ==
  LET pushed == {o \in Options : o \in OldOptions => o \in c.set} IN
  [lvl   |-> c.lvl + 1,
   saved |-> [o \in Options |->
                IF o \in pushed
                THEN [l \in Levels(c, o) \cup {c.lvl + 1} |->
                        IF l = c.lvl + 1 THEN c.var[o] ELSE c.saved[o][l]]
                ELSE c.saved[o]],
   var   |-> c.var,
   set   |-> c.set \ pushed]
\* m_config_push: the slot in use takes the variable's value, and so does a new one.  An old
\* option is left out unless it has been set.
Push(c) ==
  LET pushed == {o \in Options : o \in OldOptions => o \in c.set} IN
  [lvl   |-> c.lvl + 1,
   saved |-> [o \in Options |->
                IF o \in pushed
                THEN [l \in Levels(c, o) \cup {c.lvl + 1} |->
                        IF l \in {Top(c, o), c.lvl + 1} THEN c.var[o] ELSE c.saved[o][l]]
                ELSE c.saved[o]],
   var   |-> c.var,
   set   |-> c.set \ pushed]

\* Mutant: the slot of the level that ends stays.
PopKeepsSlots(c) == [c EXCEPT !.lvl = @ - 1]
\* m_config_pop: the slots of the level go; where there was one, the variable gets the value
\* of the slot below.
Pop(c) ==
  LET kept(o) == {l \in Levels(c, o) : l < c.lvl} IN
  [lvl   |-> c.lvl - 1,
   saved |-> [o \in Options |-> [l \in kept(o) |-> c.saved[o][l]]],
   var   |-> [o \in Options |-> IF kept(o) # Levels(c, o) THEN c.saved[o][Highest(kept(o))]
                                                          ELSE c.var[o]],
   set   |-> c.set]

Variable(name) == IF name \in Aliases THEN OwnerOf[name] ELSE name
Slot(c, name)  == IF name \in Aliases THEN 1 ELSE Top(c, name)

\* m_config_set_option for each name and value of a list in turn: into the option's slot, and
\* from there to the variable.  The last one of a variable, or a slot, stays.
SetOptions(c, params) ==
  [lvl   |-> c.lvl,
   saved |-> [o \in Options |-> [l \in Levels(c, o) |->
                LET mine == {i \in 1 .. Len(params) : Variable(params[i][1]) = o /\ Slot(c, params[i][1]) = l}
                IN IF mine = {} THEN c.saved[o][l] ELSE params[Highest(mine)][2]]],
   var   |-> [o \in Options |->
                LET mine == {i \in 1 .. Len(params) : Variable(params[i][1]) = o}
                IN IF mine = {} THEN c.var[o] ELSE params[Highest(mine)][2]],
   set   |-> c.set \cup {params[i][1] : i \in 1 .. Len(params)}]
SetOption(c, name, value) == SetOptions(c, << <<name, value>> >>)

\* A property of the player, or a key, writes the variable itself.
WriteVariable(c, o, value) == [c EXCEPT !.var[o] = value]
=============================================================================
