----------------------------- MODULE MCFrontEnd -----------------------------
(* Instances of FrontEnd for TLC: two threads with a worker each, the first   *)
(* of which is static in the main run.                                        *)
EXTENDS FrontEnd
CONSTANTS t1, t2, w1, w2
MCOwner == [w \in Workers |-> IF w = w1 THEN t1 ELSE t2]
=============================================================================
