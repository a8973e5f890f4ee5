------------------------------- MODULE MCCache2 -------------------------------
(***************************************************************************)
(* Instances of Cache2 for TLC.  The geometry keeps the ratios of the      *)
(* code: 16 sectors at least, fill limit 8, default chunk 4, back 1/4,     *)
(* here 8 : 4 : 2 : 1/4 with a sector of one byte, or 4 : 2 : 1 with two.  *)
(***************************************************************************)
EXTENDS Cache2

\* Byte positions the player seeks to: back to the start, near, far, past the end
MCSeekTargets == {0, 5, 11}
MCFewTargets  == {0}
MCJumpTargets == {2}
MCNoTargets   == {}
==============================================================================
