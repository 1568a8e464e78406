------------------------------ MODULE FifoQueue ------------------------------
(* What an Active object needs of its queue: items leave it in the order in   *)
(* which they were put in, each of them once.  The queue is a log of all that *)
(* was ever put, with a head that counts what was taken, as in LogWorker.     *)
EXTENDS Naturals, Sequences

CONSTANT Items
VARIABLES log, head

vars == <<log, head>>

Init == log = <<>> /\ head = 0

Put(x) == log' = Append(log, x) /\ UNCHANGED head
Take == head < Len(log) /\ head' = head + 1 /\ UNCHANGED log

Next == (\E x \in Items : Put(x)) \/ Take

Spec == Init /\ [][Next]_vars
=============================================================================
