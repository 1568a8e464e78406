---------------------------- MODULE MCFatalPath ----------------------------
(* Instances of FatalPath for TLC. *)
EXTENDS FatalPath

CONSTANTS t1, t2, abrt, segv
============================================================================
