----------------------------- MODULE SharedQueue -----------------------------
(****************************************************************************)
(* shared_queue<T> (src/src/g3log/shared_queue.hpp): a std::queue behind a   *)
(* mutex, with a condition variable on which wait_and_pop sleeps.  It is the *)
(* mailbox of every Active object (src/src/g3log/active.hpp).                *)
(*                                                                          *)
(* A critical section is one step, taken by a thread that holds the mutex    *)
(* and leaves it free; acquiring the mutex is a step of its own, and so is   *)
(* notify_one, which push calls after it has unlocked.                       *)
(****************************************************************************)
EXTENDS Naturals, Sequences, FiniteSets

CONSTANTS
  Producers,  \* threads that push
  Consumers,  \* threads that pop
  MaxPush,    \* bound: items one producer pushes
  MaxTry,     \* bound: calls of try_and_pop by one consumer
  None        \* nobody holds the mutex

ASSUME QueueAssumption ==
  /\ Producers \cap Consumers = {}
  /\ None \notin Producers \cup Consumers
  /\ IsFiniteSet(Producers) /\ IsFiniteSet(Consumers)
  /\ MaxPush \in Nat /\ MaxTry \in Nat

VARIABLES
  queue,    \* queue_
  mutex,    \* the holder of m_
  waiting,  \* threads asleep in data_cond_.wait
  pc,       \* per thread: where it is in a member function
  pushed,   \* per producer: items it has pushed or is pushing
  tried,    \* per consumer: calls of try_and_pop
  taken     \* auxiliary: every item popped so far, in the order of the pops

vars == <<queue, mutex, waiting, pc, pushed, tried, taken>>

Threads == Producers \cup Consumers
\* The k-th item that producer p pushes.
Items == Producers \X (1 .. MaxPush)
Current(p) == <<p, pushed[p]>>

Init ==
  /\ queue = <<>>
  /\ mutex = None
  /\ waiting = {}
  /\ pc = [t \in Threads |-> "idle"]
  /\ pushed = [p \in Producers |-> 0]
  /\ tried = [c \in Consumers |-> 0]
  /\ taken = <<>>

\* A thread calls a member function, which first asks for the mutex.
Push(p) ==
  /\ pc[p] = "idle"
  /\ pushed[p] < MaxPush
  /\ pushed' = [pushed EXCEPT ![p] = @ + 1]
  /\ pc' = [pc EXCEPT ![p] = "push"]
  /\ UNCHANGED <<queue, mutex, waiting, tried, taken>>

WaitAndPop(c) ==
  /\ pc[c] = "idle"
  /\ pc' = [pc EXCEPT ![c] = "pop"]
  /\ UNCHANGED <<queue, mutex, waiting, pushed, tried, taken>>

TryAndPop(c) ==
  /\ pc[c] = "idle"
  /\ tried[c] < MaxTry
  /\ tried' = [tried EXCEPT ![c] = @ + 1]
  /\ pc' = [pc EXCEPT ![c] = "try"]
  /\ UNCHANGED <<queue, mutex, waiting, pushed, taken>>

\* The mutex is given to a thread that asks for it, or that woke up in wait.
Lock(t) ==
  /\ pc[t] \in {"push", "pop", "try"}
  /\ t \notin waiting
  /\ mutex = None
  /\ mutex' = t
  /\ UNCHANGED <<queue, waiting, pc, pushed, tried, taken>>

\* Fault: the item goes to the wrong end.
EnqueueFront(p) == queue' = <<Current(p)>> \o queue
Enqueue(p) == queue' = Append(queue, Current(p))

PushLocked(p) ==
  /\ mutex = p /\ pc[p] = "push"
  /\ Enqueue(p)
  /\ mutex' = None
  /\ pc' = [pc EXCEPT ![p] = "notify"]
  /\ UNCHANGED <<waiting, pushed, tried, taken>>

\* Fault: the push wakes a sleeper only if its item is alone in the queue.
NotifyFirstOnly ==
  IF Len(queue) # 1 \/ waiting = {}
  THEN UNCHANGED waiting
  ELSE \E c \in waiting : waiting' = waiting \ {c}

\* Fault: the push wakes nobody.
NotifyNobody == UNCHANGED waiting

\* notify_one: one of the sleepers, if any, will ask for the mutex.
NotifyOne ==
  IF waiting = {} THEN UNCHANGED waiting
  ELSE \E c \in waiting : waiting' = waiting \ {c}

\* push, after its lock_guard is gone.
Notify(p) ==
  /\ pc[p] = "notify"
  /\ NotifyOne
  /\ pc' = [pc EXCEPT ![p] = "idle"]
  /\ UNCHANGED <<queue, mutex, pushed, tried, taken>>

\* The loop of wait_and_pop: wait puts the thread to sleep and frees the mutex
\* in one step.
Sleep(c) ==
  /\ mutex = c
  /\ pc[c] = "pop"
  /\ queue = <<>>
  /\ waiting' = waiting \cup {c}
  /\ mutex' = None
  /\ UNCHANGED <<queue, pc, pushed, tried, taken>>

\* Both pops move the front of the queue out.
PopFront(c) ==
  /\ queue # <<>>
  /\ taken' = Append(taken, Head(queue))
  /\ queue' = Tail(queue)
  /\ mutex' = None
  /\ pc' = [pc EXCEPT ![c] = "idle"]
  /\ UNCHANGED <<waiting, pushed, tried>>

PopLocked(c) == mutex = c /\ pc[c] = "pop" /\ PopFront(c)
TryLocked(c) == mutex = c /\ pc[c] = "try" /\ PopFront(c)

\* try_and_pop of an empty queue.
TryFails(c) ==
  /\ mutex = c
  /\ pc[c] = "try"
  /\ queue = <<>>
  /\ mutex' = None
  /\ pc' = [pc EXCEPT ![c] = "idle"]
  /\ UNCHANGED <<queue, waiting, pushed, tried, taken>>

\* A condition variable may wake a sleeper that nobody notified.
SpuriousWakeup(c) ==
  /\ c \in waiting
  /\ waiting' = waiting \ {c}
  /\ UNCHANGED <<queue, mutex, pc, pushed, tried, taken>>

ProducerContinue(p) == Lock(p) \/ PushLocked(p) \/ Notify(p)
ConsumerContinue(c) ==
  Lock(c) \/ Sleep(c) \/ PopLocked(c) \/ TryLocked(c) \/ TryFails(c)

Next ==
  \/ \E p \in Producers : Push(p) \/ ProducerContinue(p)
  \/ \E c \in Consumers :
       WaitAndPop(c) \/ TryAndPop(c) \/ ConsumerContinue(c) \/ SpuriousWakeup(c)

Spec == Init /\ [][Next]_vars

\* Threads run, and a free mutex is given to a thread that keeps asking for it.
\* Active::run calls wait_and_pop again and again; nobody has to push, to poll
\* or to be woken without cause.
Fairness ==
  /\ \A p \in Producers : SF_vars(Lock(p)) /\ WF_vars(PushLocked(p) \/ Notify(p))
  /\ \A c \in Consumers :
       /\ WF_vars(WaitAndPop(c))
       /\ SF_vars(Lock(c))
       /\ WF_vars(Sleep(c) \/ PopLocked(c) \/ TryLocked(c) \/ TryFails(c))

FairSpec == Spec /\ Fairness
----------------------------------------------------------------------------
(* Properties.                                                               *)

TypeOK ==
  /\ queue \in Seq(Items)
  /\ mutex \in Threads \cup {None}
  /\ waiting \subseteq Consumers
  /\ pc \in [Threads -> {"idle", "push", "notify", "pop", "try"}]
  /\ pushed \in [Producers -> 0 .. MaxPush]
  /\ tried \in [Consumers -> 0 .. MaxTry]
  /\ taken \in Seq(Items)

\* No wakeup is lost: while threads sleep in wait_and_pop, every item in the
\* queue has a push that is still to notify, or a thread that is on its way to
\* pop it (the notify_one outside the lock, shared_queue.hpp:38-44).
Notifiers == {p \in Producers : pc[p] = "notify"}
Awake == {c \in Consumers : pc[c] \in {"pop", "try"} /\ c \notin waiting}
NoLostWakeup ==
  waiting # {} => Len(queue) <= Cardinality(Notifiers) + Cardinality(Awake)

\* What the queue promises: first in, first out, nothing lost, nothing twice,
\* with all that was put in <- what was popped and what is in the queue.
Fifo == INSTANCE FifoQueue WITH log <- taken \o queue, head <- Len(taken)
FifoSpec == Fifo!Spec

\* Every item pushed is popped, as long as some thread calls wait_and_pop.
EveryItemTaken ==
  \A p \in Producers, k \in 1 .. MaxPush :
    pushed[p] >= k ~> \E i \in DOMAIN taken : taken[i] = <<p, k>>
=============================================================================
