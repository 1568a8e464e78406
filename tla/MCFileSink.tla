----------------------------- MODULE MCFileSink -----------------------------
(* Instances of FileSink for TLC: two sinks, which are alike.                 *)
EXTENDS FileSink, TLC
Alike == Permutations(Sinks)
=============================================================================
