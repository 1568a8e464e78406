--------------------------- MODULE MCSharedQueue ---------------------------
(* Instances of SharedQueue for TLC. *)
EXTENDS SharedQueue, TLC

CONSTANTS p1, p2, k1, k2
============================================================================
