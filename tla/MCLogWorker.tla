---------------------------- MODULE MCLogWorker ----------------------------
(* Instances of LogWorker for TLC: two clients, one or two sinks. *)
EXTENDS LogWorker

CONSTANTS c1, c2, s1, s2
============================================================================
