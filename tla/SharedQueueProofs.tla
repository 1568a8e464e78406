-------------------------- MODULE SharedQueueProofs --------------------------
(* What is proved of SharedQueue for all finite sets of threads and all       *)
(* bounds: its types, that no wakeup is lost, and that it is a FIFO queue.    *)
EXTENDS SharedQueue, FiniteSetTheorems, TLAPS

\* A sleeper is inside wait_and_pop.
SleepersPop == \A c \in waiting : pc[c] = "pop"
\* Nobody sleeps with the mutex.
HolderAwake == mutex \notin waiting
\* A thread inside push has an item to push.
PushHasItem == \A p \in Producers : pc[p] = "push" => pushed[p] # 0

\* NoLostWakeup alone is not inductive: a notified thread counts as awake only
\* because it is inside wait_and_pop, and a thread that pops only because it is
\* not asleep.
IInv == TypeOK /\ SleepersPop /\ HolderAwake /\ PushHasItem /\ NoLostWakeup

Shape == TypeOK /\ SleepersPop /\ HolderAwake /\ PushHasItem

----------------------------------------------------------------------------
(* Sequences.                                                                *)

LEMMA HeadTailType ==
  ASSUME NEW S, NEW q \in Seq(S), q # <<>>
  PROVE  Head(q) \in S /\ Tail(q) \in Seq(S) /\ Len(Tail(q)) = Len(q) - 1
         /\ Len(q) \in Nat \ {0}
  OBVIOUS

LEMMA ConcatLen ==
  ASSUME NEW S, NEW q \in Seq(S), NEW r \in Seq(S)
  PROVE  q \o r \in Seq(S) /\ Len(q \o r) = Len(q) + Len(r)
  OBVIOUS

LEMMA ConcatAppend ==
  ASSUME NEW S, NEW q \in Seq(S), NEW r \in Seq(S), NEW x \in S
  PROVE  q \o Append(r, x) = Append(q \o r, x)
  OBVIOUS

LEMMA ConcatHeadTail ==
  ASSUME NEW S, NEW q \in Seq(S), NEW r \in Seq(S), r # <<>>
  PROVE  Append(q, Head(r)) \o Tail(r) = q \o r
  OBVIOUS

----------------------------------------------------------------------------
(* The shape of the state.                                                   *)

LEMMA ShapeStep == Shape /\ [Next]_vars => Shape'
<1> SUFFICES ASSUME Shape, [Next]_vars PROVE Shape'
  OBVIOUS
<1> USE QueueAssumption
    DEF Shape, TypeOK, SleepersPop, HolderAwake, PushHasItem, Threads, Items
<1>1. ASSUME NEW p \in Producers, Push(p) PROVE Shape'
  BY <1>1 DEF Push
<1>2. ASSUME NEW p \in Producers, PushLocked(p) PROVE Shape'
  <2>1. Current(p) \in Items
    BY <1>2 DEF PushLocked, Current
  <2> QED
    BY <1>2, <2>1 DEF PushLocked, Enqueue
<1>3. ASSUME NEW p \in Producers, Notify(p) PROVE Shape'
  BY <1>3 DEF Notify, NotifyOne
<1>4. ASSUME NEW t \in Threads, Lock(t) PROVE Shape'
  BY <1>4 DEF Lock
<1>5. ASSUME NEW c \in Consumers, WaitAndPop(c) PROVE Shape'
  BY <1>5 DEF WaitAndPop
<1>6. ASSUME NEW c \in Consumers, TryAndPop(c) PROVE Shape'
  BY <1>6 DEF TryAndPop
<1>7. ASSUME NEW c \in Consumers, Sleep(c) PROVE Shape'
  BY <1>7 DEF Sleep
<1>8. ASSUME NEW c \in Consumers, mutex = c, PopFront(c) PROVE Shape'
  <2>1. Head(queue) \in Items /\ Tail(queue) \in Seq(Items)
    BY <1>8, HeadTailType DEF PopFront
  <2>2. taken' \in Seq(Items) /\ queue' \in Seq(Items)
    BY <1>8, <2>1 DEF PopFront
  <2> QED
    BY <1>8, <2>2 DEF PopFront
<1>9. ASSUME NEW c \in Consumers, TryFails(c) PROVE Shape'
  BY <1>9 DEF TryFails
<1>10. ASSUME NEW c \in Consumers, SpuriousWakeup(c) PROVE Shape'
  BY <1>10 DEF SpuriousWakeup
<1>11. CASE UNCHANGED vars
  BY <1>11 DEF vars
<1> QED
  BY <1>1, <1>2, <1>3, <1>4, <1>5, <1>6, <1>7, <1>8, <1>9, <1>10, <1>11
     DEF Next, ProducerContinue, ConsumerContinue, PopLocked, TryLocked

----------------------------------------------------------------------------
(* The two sets that NoLostWakeup counts.                                    *)

LEMMA CountsFinite ==
  /\ IsFiniteSet(Notifiers) /\ Cardinality(Notifiers) \in Nat
  /\ IsFiniteSet(Awake) /\ Cardinality(Awake) \in Nat
<1>1. Notifiers \subseteq Producers /\ Awake \subseteq Consumers
  BY DEF Notifiers, Awake
<1> QED
  BY <1>1, QueueAssumption, FS_Subset, FS_CardinalityType

LEMMA WakeupStep == IInv /\ [Next]_vars => NoLostWakeup'
<1> SUFFICES ASSUME IInv, [Next]_vars PROVE NoLostWakeup'
  OBVIOUS
<1>1. Shape /\ NoLostWakeup
  BY DEF IInv, Shape
<1>2. /\ IsFiniteSet(Notifiers) /\ Cardinality(Notifiers) \in Nat
      /\ IsFiniteSet(Awake) /\ Cardinality(Awake) \in Nat
  BY CountsFinite
<1>3. Len(queue) \in Nat
  BY <1>1 DEF Shape, TypeOK
<1>4. ASSUME Notifiers' = Notifiers, Awake' = Awake, waiting' = waiting,
             queue' = queue
      PROVE  NoLostWakeup'
  BY <1>1, <1>4 DEF NoLostWakeup
<1>5. ASSUME NEW c \in Consumers, c \notin Awake, Awake' = Awake \cup {c},
             Notifiers' = Notifiers, queue' = queue, waiting' \subseteq waiting
      PROVE  NoLostWakeup'
  <2>1. Cardinality(Awake') = Cardinality(Awake) + 1
    BY <1>2, <1>5, FS_AddElement
  <2> QED
    BY <1>1, <1>2, <1>3, <1>5, <2>1 DEF NoLostWakeup
<1>6. ASSUME NEW c \in Consumers, mutex = c, PopFront(c),
             pc[c] \in {"pop", "try"}
      PROVE  NoLostWakeup'
  <2>1. c \in Awake
    BY <1>1, <1>6 DEF Awake, Shape, HolderAwake
  <2>2. Awake' = Awake \ {c}
    BY <1>1, <1>6 DEF Awake, PopFront, Shape, TypeOK, Threads
  <2>3. Notifiers' = Notifiers
    BY <1>1, <1>6, QueueAssumption DEF Notifiers, PopFront, Shape, TypeOK, Threads
  <2>4. Cardinality(Awake') = Cardinality(Awake) - 1
    BY <1>2, <2>1, <2>2, FS_RemoveElement
  <2>5. Len(queue') = Len(queue) - 1
    BY <1>1, <1>6, HeadTailType DEF PopFront, Shape, TypeOK
  <2> QED
    BY <1>1, <1>2, <1>3, <1>6, <2>3, <2>4, <2>5 DEF NoLostWakeup, PopFront
<1> USE QueueAssumption
<1>7. ASSUME NEW p \in Producers, Push(p) PROVE NoLostWakeup'
  BY <1>1, <1>4, <1>7 DEF Push, Notifiers, Awake, Shape, TypeOK, Threads
<1>8. ASSUME NEW p \in Producers, PushLocked(p) PROVE NoLostWakeup'
  <2>1. p \notin Notifiers /\ Notifiers' = Notifiers \cup {p}
    BY <1>1, <1>8 DEF PushLocked, Notifiers, Shape, TypeOK, Threads
  <2>2. Awake' = Awake /\ waiting' = waiting
    BY <1>1, <1>8 DEF PushLocked, Awake, Shape, TypeOK, Threads
  <2>3. Cardinality(Notifiers') = Cardinality(Notifiers) + 1
    BY <1>2, <2>1, FS_AddElement
  <2>4. Len(queue') = Len(queue) + 1
    BY <1>1, <1>8 DEF PushLocked, Enqueue, Shape, TypeOK
  <2> QED
    BY <1>1, <1>2, <1>3, <2>2, <2>3, <2>4 DEF NoLostWakeup
<1>9. ASSUME NEW p \in Producers, Notify(p) PROVE NoLostWakeup'
  <2>1. CASE waiting = {}
    BY <1>9, <2>1 DEF Notify, NotifyOne, NoLostWakeup
  <2>2. CASE waiting # {}
    <3>1. PICK c \in waiting : waiting' = waiting \ {c}
      BY <1>9, <2>2 DEF Notify, NotifyOne
    <3>2. c \in Consumers /\ c \notin Awake /\ Awake' = Awake \cup {c}
      BY <1>1, <1>9, <3>1
      DEF Notify, Awake, Shape, TypeOK, SleepersPop, Threads
    <3>3. p \in Notifiers /\ Notifiers' = Notifiers \ {p}
      BY <1>1, <1>9 DEF Notify, Notifiers, Shape, TypeOK, Threads
    <3>4. /\ Cardinality(Awake') = Cardinality(Awake) + 1
          /\ Cardinality(Notifiers') = Cardinality(Notifiers) - 1
      BY <1>2, <3>2, <3>3, FS_AddElement, FS_RemoveElement
    <3>5. Len(queue') <= Cardinality(Notifiers') + Cardinality(Awake')
      BY <1>1, <1>2, <1>3, <1>9, <2>2, <3>4 DEF NoLostWakeup, Notify
    <3> QED
      BY <3>5 DEF NoLostWakeup
  <2> QED
    BY <2>1, <2>2
<1>10. ASSUME NEW t \in Threads, Lock(t) PROVE NoLostWakeup'
  BY <1>4, <1>10 DEF Lock, Notifiers, Awake
<1>11. ASSUME NEW c \in Consumers, WaitAndPop(c) \/ TryAndPop(c)
       PROVE  NoLostWakeup'
  <2>1. c \notin Awake /\ Awake' = Awake \cup {c} /\ Notifiers' = Notifiers
    BY <1>1, <1>11
    DEF WaitAndPop, TryAndPop, Awake, Notifiers, Shape, TypeOK, SleepersPop, Threads
  <2> QED
    BY <1>5, <1>11, <2>1 DEF WaitAndPop, TryAndPop
<1>12. ASSUME NEW c \in Consumers, Sleep(c) \/ TryFails(c) PROVE NoLostWakeup'
  <2>1. Len(queue') = 0
    BY <1>12 DEF Sleep, TryFails
  <2>2. /\ IsFiniteSet(Notifiers') /\ Cardinality(Notifiers') \in Nat
        /\ IsFiniteSet(Awake') /\ Cardinality(Awake') \in Nat
    <3>1. Notifiers' \subseteq Producers /\ Awake' \subseteq Consumers
      BY DEF Notifiers, Awake
    <3> QED
      BY <3>1, FS_Subset, FS_CardinalityType
  <2> QED
    BY <2>1, <2>2 DEF NoLostWakeup
<1>13. ASSUME NEW c \in Consumers, SpuriousWakeup(c) PROVE NoLostWakeup'
  <2>1. c \notin Awake /\ Awake' = Awake \cup {c} /\ Notifiers' = Notifiers
    BY <1>1, <1>13
    DEF SpuriousWakeup, Awake, Notifiers, Shape, TypeOK, SleepersPop, Threads
  <2> QED
    BY <1>5, <1>13, <2>1 DEF SpuriousWakeup
<1>14. CASE UNCHANGED vars
  BY <1>4, <1>14 DEF vars, Notifiers, Awake
<1> QED
  BY <1>6, <1>7, <1>8, <1>9, <1>10, <1>11, <1>12, <1>13, <1>14
     DEF Next, ProducerContinue, ConsumerContinue, PopLocked, TryLocked, Threads

----------------------------------------------------------------------------
(* The theorems.                                                             *)

LEMMA InitInv == Init => IInv
  BY QueueAssumption
  DEF Init, IInv, TypeOK, SleepersPop, HolderAwake, PushHasItem, NoLostWakeup,
      Threads, Items

\* The inductive invariant holds in every reachable state.
THEOREM Inductive == Spec => []IInv
<1>1. IInv /\ [Next]_vars => IInv'
  BY ShapeStep, WakeupStep DEF IInv, Shape
<1> QED
  BY InitInv, <1>1, PTL DEF Spec

\* Each variable of the queue keeps its type, whatever its threads do.
THEOREM TypeCorrect == Spec => []TypeOK
<1>1. IInv => TypeOK
  BY DEF IInv
<1> QED
  BY Inductive, <1>1, PTL

\* No wakeup is lost: no item is left in the queue to a sleeping thread without
\* a notify_one or a popping thread under way (shared_queue.hpp:38-78).
THEOREM WakeupNotLost == Spec => []NoLostWakeup
<1>1. IInv => NoLostWakeup
  BY DEF IInv
<1> QED
  BY Inductive, <1>1, PTL

LEMMA FifoInit == Init => Fifo!Init
  BY DEF Init, Fifo!Init

LEMMA FifoStep == TypeOK /\ PushHasItem /\ [Next]_vars => [Fifo!Next]_Fifo!vars
<1> SUFFICES ASSUME TypeOK, PushHasItem, [Next]_vars PROVE [Fifo!Next]_Fifo!vars
  OBVIOUS
<1>1. queue \in Seq(Items) /\ taken \in Seq(Items)
  BY DEF TypeOK
<1>2. CASE UNCHANGED <<queue, taken>>
  BY <1>2 DEF Fifo!vars
<1>3. ASSUME NEW p \in Producers, PushLocked(p) PROVE Fifo!Next
  <2>1. Current(p) \in Items
    BY <1>3 DEF PushLocked, Current, PushHasItem, TypeOK, Items
  <2>2. taken' = taken /\ queue' = Append(queue, Current(p))
    BY <1>3 DEF PushLocked, Enqueue
  <2>3. taken' \o queue' = Append(taken \o queue, Current(p))
    BY <1>1, <2>1, <2>2, ConcatAppend
  <2>4. Fifo!Put(Current(p))
    BY <2>2, <2>3 DEF Fifo!Put
  <2> QED
    BY <2>1, <2>4 DEF Fifo!Next
<1>4. ASSUME NEW c \in Consumers, PopFront(c) PROVE Fifo!Next
  <2>1. /\ queue # <<>>
        /\ taken' = Append(taken, Head(queue))
        /\ queue' = Tail(queue)
    BY <1>4 DEF PopFront
  <2>2. taken' \o queue' = taken \o queue
    BY <1>1, <2>1, ConcatHeadTail
  <2>3. Len(taken') = Len(taken) + 1
    BY <1>1, <2>1, HeadTailType
  <2>4. Len(taken) < Len(taken \o queue)
    BY <1>1, <2>1, HeadTailType, ConcatLen
  <2> QED
    BY <2>2, <2>3, <2>4 DEF Fifo!Next, Fifo!Take
<1> QED
  BY <1>2, <1>3, <1>4
  DEF Next, ProducerContinue, ConsumerContinue, Push, Notify, Lock, WaitAndPop,
      TryAndPop, Sleep, PopLocked, TryLocked, TryFails, SpuriousWakeup, vars

\* shared_queue is a FIFO queue: every push puts one item in, every pop takes
\* the next one out, and no other step of any thread touches either.
THEOREM QueueIsFifo == Spec => FifoSpec
<1>1. IInv => TypeOK /\ PushHasItem
  BY DEF IInv
<1> QED
  BY Inductive, FifoInit, FifoStep, <1>1, PTL DEF Spec, FifoSpec, Fifo!Spec
==============================================================================
