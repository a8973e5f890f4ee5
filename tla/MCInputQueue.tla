----------------------------- MODULE MCInputQueue -----------------------------
(***************************************************************************)
(* An instance of InputQueue for TLC: a key, a mouse button and a remote   *)
(* control; a ring of four codes, a key_down of one place instead of 32,   *)
(* so that a combination of two keys writes behind it, and a queue of two  *)
(* commands instead of 100.                                                *)
(***************************************************************************)
EXTENDS InputQueue

MCKey    == <<Single("key")>>
MCButton == <<Single("button")>>
MCChord  == <<Single("key"), Single("button")>>
MCDouble == <<Double("button")>>

MCBindings == {MCKey, MCButton, MCChord, MCDouble}
MCKept     == {MCButton, MCChord}
MCPause    == {MCKey}
MCForced   == {MCChord}
MCEaten    == {MCDouble}
MCMenu     == {MCKey, MCDouble}
MCSlave    == {MCButton}
==============================================================================
