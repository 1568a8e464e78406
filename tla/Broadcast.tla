------------------------------ MODULE Broadcast ------------------------------
(****************************************************************************)
(* What a LogWorker promises its sinks, without queues and threads: the      *)
(* messages are accepted one after the other, sinks come and go, and each    *)
(* sink that is a member is given the messages after the one it came with,   *)
(* in order and without a gap.  A message is a number, given in the order of *)
(* acceptance.                                                               *)
(****************************************************************************)
EXTENDS Integers

CONSTANT Sinks

VARIABLES
  accepted,  \* the messages accepted, but for those that were discarded
  members,   \* the sinks that are given messages
  since,     \* per sink: what it is given is later than this; 0: never a member
  given      \* per sink: the messages it was given, in their order

vars == <<accepted, members, since, given>>

Init ==
  /\ accepted = {}
  /\ members = {}
  /\ since = [s \in Sinks |-> 0]
  /\ given = [s \in Sinks |-> {}]

\* A message is accepted behind all others.
Accept ==
  /\ \E m \in accepted' :
       /\ \A a \in accepted : a < m
       /\ accepted' = accepted \cup {m}
  /\ UNCHANGED <<members, since, given>>

\* A sink becomes a member, once, for messages nobody was given yet.
Join(s) ==
  /\ s \notin members /\ since[s] = 0
  /\ members' = members \cup {s}
  /\ since'[s] \in Nat \ {0}
  /\ since' = [since EXCEPT ![s] = since'[s]]
  /\ \A t \in Sinks : \A m \in given[t] : m < since'[s]
  /\ UNCHANGED <<accepted, given>>

Due(s) == {m \in accepted \ given[s] : m > since[s]}

\* A member is given the first message that it was not given.
Deliver(s, m) ==
  /\ s \in members
  /\ m \in Due(s) /\ \A n \in Due(s) \cup given[s] : n < m => n \in given[s]
  /\ given' = [given EXCEPT ![s] = @ \cup {m}]
  /\ UNCHANGED <<accepted, members, since>>

\* A member goes; it was given all that any other was given since it came.
Leave(s) ==
  /\ s \in members
  /\ \A t \in Sinks : \A m \in given[t] : m > since[s] => m \in given[s]
  /\ members' = members \ {s}
  /\ UNCHANGED <<accepted, since, given>>

\* The last messages, which nobody was given, are dropped.
Discard ==
  /\ accepted' \subseteq accepted
  /\ \A m \in accepted \ accepted' :
       /\ \A a \in accepted' : a < m
       /\ \A s \in Sinks : m \notin given[s]
  /\ UNCHANGED <<members, since, given>>

Next ==
  \/ Accept \/ Discard
  \/ \E s \in Sinks :
       \/ Join(s) \/ Leave(s)
       \/ \E m \in accepted : Deliver(s, m)

Spec == Init /\ [][Next]_vars
=============================================================================
