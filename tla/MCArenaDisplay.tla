---------------------------- MODULE MCArenaDisplay ----------------------------
(***************************************************************************)
(* Instances of ArenaDisplay for TLC: one two-frame GS2 pattern and one    *)
(* single-frame GS16 pattern, so that every change of pattern is a change  *)
(* of block size and index 2 is always out of range.                       *)
(***************************************************************************)
EXTENDS ArenaDisplay

MCFrames == [p \in Patterns |-> IF p = 1 THEN 2 ELSE 1]
MCGray   == [p \in Patterns |-> IF p = 1 THEN "gs2" ELSE "gs16"]
==============================================================================
