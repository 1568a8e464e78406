--------------------------- MODULE LogWorkerProofs ---------------------------
(* What is proved of LogWorker for every set of clients and sinks. *)
EXTENDS LogWorker, TLAPS

\* A client inside addSink or SinkHandle::call has a sink in its frame.
HeldOK ==
  \A c \in Clients :
    pc[c] \in {"addTest", "addSend", "addWait", "callSend", "drop"} => held[c] \in Sinks

TypeInv == TypeOK /\ HeldOK

\* A client inside addSink that has not sent the add task yet.
Adding(c) == pc[c] \in {"addTest", "addSend"}

\* A sequence without repetition.
Once(q) == \A j, k \in DOMAIN q : q[j] = q[k] => j = k

\* No add task is queued twice for one sink, and none is queued for a sink that
\* a client is still about to add.
AddOnce ==
  \A i, j \in DOMAIN bgLog : bgLog[i].op = "add" /\ bgLog[i] = bgLog[j] => i = j
NotQueued(s) == \A i \in DOMAIN bgLog : bgLog[i] # Task("add", s)
AddFresh ==
  /\ \A s \in Sinks : sinkPc[s] = "none" => NotQueued(s)
  /\ \A c \in Clients : Adding(c) => NotQueued(held[c]) /\ sinkPc[held[c]] # "none"
  /\ \A c, d \in Clients :
       Adding(c) /\ Adding(d) /\ held[c] = held[d] => c = d

\* regAt[s] is the position of the add task of s, once it has run.
RegOK ==
  \A s \in Sinks : regAt[s] # 0 =>
    regAt[s] \in 1 .. bgHead /\ bgLog[regAt[s]] = Task("add", s)
CutOK == \A s \in Sinks : cutAt[s] # 0 => regAt[s] # 0 /\ cutAt[s] \in 1 .. bgHead
\* _sinks holds each sink that was added and not cleared, and holds it once.
SinksOK ==
  /\ \A s \in Sinks : s \in Elems(sinks) <=> regAt[s] # 0 /\ cutAt[s] = 0
  /\ Once(sinks)

\* While the worker is in a loop over _sinks, it handles a message, and what is
\* left of the loop are sinks in _sinks, each once.
TodoOK ==
  /\ bgPc \in {"fanout", "fanoutFatal"} => bgHead > 0 /\ IsMsg(bgHead)
  /\ bgTodo # <<>> => bgPc \in {"fanout", "fanoutFatal"}
  /\ Elems(bgTodo) \subseteq Elems(sinks)
  /\ Once(bgTodo)
\* ~Active has joined the worker's thread before _sinks is destroyed.
ExitOK == owner \in {"dropSinks", "freed"} => bgPc = "exited"

IInv ==
  /\ TypeInv
  /\ AddOnce /\ AddFresh
  /\ RegOK /\ CutOK /\ SinksOK /\ TodoOK /\ ExitOK
  /\ DeliveryComplete /\ DeliveryOrdered

\* What is sent to the worker and to a sink is a task of theirs.
LEMMA TaskType ==
  /\ \A op \in {"save", "fatal", "clear", "done"} : Task(op, None) \in BgTask
  /\ \A s \in Sinks : Task("add", s) \in BgTask
  /\ \A t \in BgTask : t.op = "add" => t.sink \in Sinks /\ t = Task("add", t.sink)
BY DEF Task, BgTask

LEMMA EntryType ==
  /\ \A i \in Nat : MsgEntry(i) \in SinkTask
  /\ \A c \in Clients : CallEntry(c) \in SinkTask
  /\ DoneEntry \in SinkTask
  /\ \A e \in SinkTask : e.op = "call" => e.arg \in Clients
BY DEF SinkTask, MsgEntry, CallEntry, DoneEntry

\* Sequences, as far as these proofs need them.
LEMMA AppendType ==
  ASSUME NEW S, NEW q \in Seq(S), NEW e \in S
  PROVE  Append(q, e) \in Seq(S) /\ Len(Append(q, e)) = Len(q) + 1
OBVIOUS

LEMMA AppendAt ==
  ASSUME NEW S, NEW q \in Seq(S), NEW e \in S
  PROVE  /\ DOMAIN q = 1 .. Len(q)
         /\ DOMAIN Append(q, e) = 1 .. Len(q) + 1
         /\ \A i \in 1 .. Len(q) : Append(q, e)[i] = q[i]
         /\ Append(q, e)[Len(q) + 1] = e
OBVIOUS

LEMMA TailType ==
  ASSUME NEW S, NEW q \in Seq(S), q # <<>>
  PROVE  Head(q) \in S /\ Tail(q) \in Seq(S)
OBVIOUS

LEMMA AppendElems ==
  ASSUME NEW S, NEW q \in Seq(S), NEW e \in S
  PROVE  Elems(Append(q, e)) = Elems(q) \cup {e}
<1>1. /\ DOMAIN q = 1 .. Len(q)
      /\ DOMAIN Append(q, e) = 1 .. Len(q) + 1
      /\ \A i \in 1 .. Len(q) : Append(q, e)[i] = q[i]
      /\ Append(q, e)[Len(q) + 1] = e
  BY AppendAt
<1>2. Len(q) \in Nat
  OBVIOUS
<1>3. \A i \in 1 .. Len(q) + 1 : i \in 1 .. Len(q) \/ i = Len(q) + 1
  BY <1>2
<1>4. 1 .. Len(q) \subseteq 1 .. Len(q) + 1 /\ Len(q) + 1 \in 1 .. Len(q) + 1
  BY <1>2
<1> QED
  BY <1>1, <1>3, <1>4 DEF Elems

LEMMA AppendOnce ==
  ASSUME NEW S, NEW q \in Seq(S), NEW e \in S, Once(q), e \notin Elems(q)
  PROVE  Once(Append(q, e))
<1>1. /\ DOMAIN q = 1 .. Len(q)
      /\ DOMAIN Append(q, e) = 1 .. Len(q) + 1
      /\ \A i \in 1 .. Len(q) : Append(q, e)[i] = q[i]
      /\ Append(q, e)[Len(q) + 1] = e
  BY AppendAt
<1>2. Len(q) \in Nat
  OBVIOUS
<1>3. \A i \in 1 .. Len(q) + 1 : i \in 1 .. Len(q) \/ i = Len(q) + 1
  BY <1>2
<1> QED
  BY <1>1, <1>3 DEF Elems, Once

LEMMA TailOnce ==
  ASSUME NEW S, NEW q \in Seq(S), q # <<>>, Once(q)
  PROVE  /\ Once(Tail(q))
         /\ Elems(Tail(q)) = Elems(q) \ {Head(q)}
         /\ Head(q) \in Elems(q)
<1>1. /\ Len(q) \in Nat \ {0}
      /\ DOMAIN q = 1 .. Len(q)
      /\ DOMAIN Tail(q) = 1 .. Len(q) - 1
      /\ \A i \in 1 .. Len(q) - 1 : Tail(q)[i] = q[i + 1]
      /\ Head(q) = q[1]
  OBVIOUS
<1>2. \A i \in 1 .. Len(q) - 1 : i + 1 \in 1 .. Len(q) /\ i + 1 # 1
  BY <1>1
<1>3. Once(Tail(q))
  BY <1>1, <1>2 DEF Once
<1>4. ASSUME NEW i \in 1 .. Len(q), i # 1
      PROVE  i - 1 \in 1 .. Len(q) - 1 /\ q[i] = Tail(q)[i - 1]
  BY <1>1, <1>4
<1>5. 1 \in 1 .. Len(q)
  BY <1>1
<1>6. Elems(Tail(q)) \subseteq Elems(q) \ {Head(q)}
  BY <1>1, <1>2, <1>5 DEF Elems, Once
<1>7. Elems(q) \ {Head(q)} \subseteq Elems(Tail(q))
  <2> SUFFICES ASSUME NEW x \in Elems(q), x # Head(q) PROVE x \in Elems(Tail(q))
    OBVIOUS
  <2>1. PICK i \in 1 .. Len(q) : x = q[i]
    BY <1>1 DEF Elems
  <2>2. i - 1 \in DOMAIN Tail(q) /\ x = Tail(q)[i - 1]
    BY <1>1, <1>4, <2>1
  <2> QED
    BY <2>2 DEF Elems
<1> QED
  BY <1>1, <1>3, <1>5, <1>6, <1>7 DEF Elems

\* A thread sends a message to the worker, a reference is dropped, the worker
\* pops a task: what these parts of many steps do to the types.
LEMMA PushType ==
  ASSUME TypeOK, NEW op \in {"save", "fatal"}, Push(op)
  PROVE  /\ bgLog' \in Seq(BgTask)
         /\ bgHead \in 0 .. Len(bgLog')
         /\ proc' \in {"running", "killedByBg", "killedDirect", "undefined"}
<1>1. Task(op, None) \in BgTask
  BY TaskType
<1>2. /\ Append(bgLog, Task(op, None)) \in Seq(BgTask)
      /\ bgHead \in 0 .. Len(Append(bgLog, Task(op, None)))
  BY <1>1, AppendType DEF TypeOK
<1> QED
  BY <1>2 DEF TypeOK, Push

LEMMA ReleaseType ==
  ASSUME TypeOK, NEW t \in Destroyers, NEW s \in Sinks, NEW others, Release(t, s, others)
  PROVE  /\ sinkLog' \in [Sinks -> Seq(SinkTask)]
         /\ joining' \in [Destroyers -> Sinks \cup {None}]
<1>1. CASE others
  BY <1>1 DEF Release, TypeOK
<1>2. CASE ~others
  <2>1. Append(sinkLog[s], DoneEntry) \in Seq(SinkTask)
    BY EntryType, AppendType DEF TypeOK
  <2> QED
    BY <1>2, <2>1 DEF Release, TypeOK
<1> QED
  BY <1>1, <1>2

LEMMA DestroyFirstType ==
  ASSUME TypeOK, NEW t \in Destroyers, DestroyFirst(t)
  PROVE  /\ sinkLog' \in [Sinks -> Seq(SinkTask)]
         /\ joining' \in [Destroyers -> Sinks \cup {None}]
         /\ sinks' \in Seq(Sinks)
         /\ cutAt' \in [Sinks -> Nat]
<1>1. Head(sinks) \in Sinks /\ Tail(sinks) \in Seq(Sinks)
  BY TailType DEF DestroyFirst, TypeOK
<1>2. /\ sinkLog' \in [Sinks -> Seq(SinkTask)]
      /\ joining' \in [Destroyers -> Sinks \cup {None}]
  BY <1>1, ReleaseType DEF DestroyFirst
<1>3. cutAt' = [cutAt EXCEPT ![Head(sinks)] = bgHead] /\ sinks' = Tail(sinks)
  BY DEF DestroyFirst
<1>4. cutAt' \in [Sinks -> Nat]
  BY <1>1, <1>3 DEF TypeOK
<1> QED
  BY <1>1, <1>2, <1>3, <1>4

LEMMA PopType ==
  ASSUME TypeOK, NEW op, Pop(op)
  PROVE  /\ bgHead' = bgHead + 1
         /\ bgHead' \in 1 .. Len(bgLog)
         /\ bgLog[bgHead'] \in BgTask
         /\ bgLog[bgHead'].op = op
BY DEF TypeOK, Pop

\* Every variable keeps its type, and a client in addSink or call has a sink in
\* its frame.
LEMMA TypeStep == TypeInv /\ [Next]_vars => TypeInv'
<1> SUFFICES ASSUME TypeInv, [Next]_vars PROVE TypeInv'
  OBVIOUS
<1> USE ThreadsAssumption DEF TypeInv, TypeOK, HeldOK, Destroyers, Bg, Owner,
        clientVars, bgVars, sinkVars
<1>1. ASSUME NEW c \in Clients, LogCheck(c) PROVE TypeInv'
  BY <1>1 DEF LogCheck, Ready, Begin
<1>2. ASSUME NEW c \in Clients, FatalCheck(c) PROVE TypeInv'
  BY <1>2, SMTT(30) DEF FatalCheck, Ready, Begin
<1>3. ASSUME NEW c \in Clients, LogSave(c) PROVE TypeInv'
  BY <1>3, PushType DEF LogSave
<1>4. ASSUME NEW c \in Clients, FatalSave(c) PROVE TypeInv'
  BY <1>4, PushType DEF FatalSave
<1>5. ASSUME NEW c \in Clients, AddSend(c) PROVE TypeInv'
  <2>1. held[c] \in Sinks
    BY <1>5 DEF AddSend
  <2>2. /\ Append(bgLog, Task("add", held[c])) \in Seq(BgTask)
        /\ bgHead \in 0 .. Len(Append(bgLog, Task("add", held[c])))
    BY <2>1, TaskType, AppendType
  <2>3. /\ bgLog' \in Seq(BgTask)
        /\ bgHead \in 0 .. Len(bgLog')
        /\ proc' \in {"running", "killedByBg", "killedDirect", "undefined"}
    BY <1>5, <2>2 DEF AddSend
  <2>4. future' \in [Clients \cup Sinks \cup {Owner} -> {"none", "pending", "set", "broken"}]
    BY <1>5, <2>1 DEF AddSend
  <2> QED
    BY <1>5, <2>3, <2>4 DEF AddSend
<1>5a. ASSUME NEW c \in Clients, AddTest(c) PROVE TypeInv'
  <2>1. held[c] \in Sinks
    BY <1>5a DEF AddTest
  <2>2. future' \in [Clients \cup Sinks \cup {Owner} -> {"none", "pending", "set", "broken"}]
    BY <1>5a, <2>1 DEF AddTest
  <2>3. /\ \/ pc' = [pc EXCEPT ![c] = "addSend"]
           \/ pc' = [pc EXCEPT ![c] = "addWait"]
           \/ pc' = pc
        /\ UNCHANGED held
    BY <1>5a DEF AddTest
  <2>4. /\ pc' \in [Clients -> {"idle", "save", "fatal", "sleep", "addTest", "addSend",
                                 "addWait", "callSend", "drop", "callWait"}]
    BY <1>5a, <2>3
  <2>5. ASSUME NEW d \in Clients,
               pc'[d] \in {"addTest", "addSend", "addWait", "callSend", "drop"}
        PROVE  held'[d] \in Sinks
    <3>1. CASE d = c BY <2>1, <2>3, <3>1
    <3>2. CASE d # c BY <2>3, <2>5, <3>2
    <3> QED BY <3>1, <3>2
  <2> QED
    BY <1>5a, <2>2, <2>4, <2>5 DEF AddTest
<1>6. ASSUME NEW c \in Clients, AddWait(c) PROVE TypeInv'
  BY <1>6 DEF AddWait
<1>7. ASSUME NEW c \in Clients, CallSend(c) PROVE TypeInv'
  BY <1>7, EntryType, AppendType DEF CallSend
<1>8. ASSUME NEW c \in Clients, Drop(c) PROVE TypeInv'
  <2>1. held[c] \in Sinks
    BY <1>8 DEF Drop
  <2>2. /\ sinkLog' \in [Sinks -> Seq(SinkTask)]
        /\ joining' \in [Destroyers -> Sinks \cup {None}]
    <3>1. \E others : Release(c, held[c], others)
      BY <1>8 DEF Drop
    <3>2. c \in Destroyers
      OBVIOUS
    <3> QED
      BY <2>1, <3>1, <3>2, ReleaseType
  <2>3. /\ held' = [held EXCEPT ![c] = None]
        /\ pc' = [pc EXCEPT ![c] = IF future[c] = "pending" THEN "callWait" ELSE "idle"]
        /\ UNCHANGED <<logger, owner, proc, bgLog, calls, bgHead, bgPc, bgTodo, sinks,
                       regAt, cutAt, sinkHead, sinkPc, future>>
    BY <1>8 DEF Drop
  <2>4. /\ held' \in [Clients -> Sinks \cup {None}]
        /\ pc' \in [Clients -> {"idle", "save", "fatal", "sleep", "addTest", "addSend",
                                 "addWait", "callSend", "drop", "callWait"}]
        /\ HeldOK'
    BY <2>3
  <2> QED
    BY <2>2, <2>3, <2>4
<1>9. ASSUME NEW c \in Clients, CallWait(c) PROVE TypeInv'
  BY <1>9 DEF CallWait
<1>10. ASSUME NEW c \in Clients, Joined(c) PROVE TypeInv'
  BY <1>10 DEF Joined
<1>11. ASSUME NEW c \in Clients, NEW s \in Sinks, AddSink(c, s) PROVE TypeInv'
  <2>1. /\ pc' = [pc EXCEPT ![c] = "addTest"]
        /\ calls' = [calls EXCEPT ![c] = @ + 1] /\ calls[c] < MaxCalls
        /\ held' = [held EXCEPT ![c] = s]
        /\ sinkPc' = [sinkPc EXCEPT ![s] = "run"]
    BY <1>11 DEF AddSink, Ready, Begin
  <2>2. /\ pc' \in [Clients -> {"idle", "save", "fatal", "sleep", "addTest", "addSend",
                                 "addWait", "callSend", "drop", "callWait"}]
        /\ calls' \in [Clients -> 0 .. MaxCalls]
        /\ held' \in [Clients -> Sinks \cup {None}]
        /\ sinkPc' \in [Sinks -> {"none", "run", "fatal", "sleep", "exited"}]
    BY <2>1, SMTT(30)
  <2>3. HeldOK'
    BY <2>1
  <2>4. UNCHANGED <<logger, owner, proc, bgLog, bgHead, bgPc, bgTodo, sinks, regAt,
                    cutAt, sinkLog, sinkHead, future, joining>>
    BY <1>11 DEF AddSink
  <2> QED
    BY <2>2, <2>3, <2>4
<1>12. ASSUME NEW c \in Clients, NEW s \in Sinks, CallLock(c, s) PROVE TypeInv'
  <2>1. CASE Alive(s)
    <3>1. /\ pc' = [pc EXCEPT ![c] = "callSend"]
          /\ calls' = [calls EXCEPT ![c] = @ + 1] /\ calls[c] < MaxCalls
          /\ held' = [held EXCEPT ![c] = s]
      BY <1>12, <2>1 DEF CallLock, Ready, Begin
    <3> QED
      BY <1>12, <2>1, <3>1, SMTT(30) DEF CallLock
  <2>2. CASE ~Alive(s)
    <3>1. /\ pc' = [pc EXCEPT ![c] = "idle"]
          /\ calls' = [calls EXCEPT ![c] = @ + 1] /\ calls[c] < MaxCalls
          /\ future' = [future EXCEPT ![c] = "broken"]
      BY <1>12, <2>2 DEF CallLock, Ready, Begin
    <3> QED
      BY <1>12, <2>2, <3>1 DEF CallLock
  <2> QED
    BY <2>1, <2>2
<1>13. ASSUME NEW s \in Sinks, SinkRun(s) PROVE TypeInv'
  <2>1. sinkHead[s] + 1 \in 1 .. Len(sinkLog[s]) /\ NextEntry(s) \in SinkTask
    BY <1>13 DEF SinkRun, HasEntry, NextEntry
  <2>2. future' \in [Clients \cup Sinks \cup {Owner} -> {"none", "pending", "set", "broken"}]
    BY <1>13, <2>1, EntryType DEF SinkRun
  <2>3. sinkPc' \in [Sinks -> {"none", "run", "fatal", "sleep", "exited"}]
    BY <1>13 DEF SinkRun
  <2>4. sinkHead' \in [Sinks -> Nat]
    BY <1>13 DEF SinkRun
  <2> QED
    BY <1>13, <2>2, <2>3, <2>4 DEF SinkRun
<1>14. ASSUME NEW s \in Sinks, SinkFatalCheck(s) PROVE TypeInv'
  <2>1. sinkPc' \in [Sinks -> {"none", "run", "fatal", "sleep", "exited"}]
    BY <1>14 DEF SinkFatalCheck
  <2>2. sinkHead' \in [Sinks -> Nat]
    BY <1>14 DEF SinkFatalCheck
  <2> QED
    BY <1>14, <2>1, <2>2 DEF SinkFatalCheck
<1>15. ASSUME NEW s \in Sinks, SinkFatalSave(s) PROVE TypeInv'
  BY <1>15, PushType DEF SinkFatalSave
<1>16. CASE BgSave
  <2>1. bgHead' \in 0 .. Len(bgLog)
    BY <1>16, PopType, SMTT(30) DEF BgSave
  <2> QED
    BY <1>16, <2>1 DEF BgSave
<1>17. CASE BgFatal
  <2>1. bgHead' \in 0 .. Len(bgLog)
    BY <1>17, PopType DEF BgFatal
  <2> QED
    BY <1>17, <2>1 DEF BgFatal
<1>18. CASE BgSend
  <2>1. Head(bgTodo) \in Sinks /\ bgTodo' \in Seq(Sinks)
    BY <1>18, TailType DEF BgSend
  <2>2. Append(sinkLog[Head(bgTodo)], MsgEntry(bgHead)) \in Seq(SinkTask)
    BY <2>1, EntryType, AppendType
  <2>3. sinkLog' \in [Sinks -> Seq(SinkTask)]
    BY <1>18, <2>1, <2>2 DEF BgSend
  <2> QED
    BY <1>18, <2>1, <2>3 DEF BgSend
<1>19. CASE BgSent
  BY <1>19 DEF BgSent
<1>20. CASE BgAdd
  <2>1. bgHead' \in 1 .. Len(bgLog) /\ bgLog[bgHead + 1].sink \in Sinks
    BY <1>20, PopType, TaskType DEF BgAdd
  <2>2. sinks' \in Seq(Sinks)
    BY <1>20, <2>1, AppendType DEF BgAdd, PushBack
  <2>3. /\ regAt' \in [Sinks -> Nat]
        /\ future' \in [Clients \cup Sinks \cup {Owner} ->
                          {"none", "pending", "set", "broken"}]
    BY <1>20, <2>1 DEF BgAdd
  <2>4. UNCHANGED <<logger, owner, proc, bgLog, sinkLog, pc, held, calls, bgPc,
                    bgTodo, cutAt, sinkHead, sinkPc, joining>>
    BY <1>20 DEF BgAdd
  <2>5. bgHead' \in 0 .. Len(bgLog')
    BY <2>1, <2>4
  <2>6. HeldOK'
    BY <2>4
  <2> QED
    BY <2>2, <2>3, <2>4, <2>5, <2>6
<1>21. CASE BgClear
  <2>1. bgHead' \in 0 .. Len(bgLog)
    BY <1>21, PopType DEF BgClear
  <2> QED
    BY <1>21, <2>1 DEF BgClear
<1>22. CASE BgDestroy
  BY <1>22, DestroyFirstType DEF BgDestroy, DestroyFirst
<1>23. CASE BgCleared
  BY <1>23 DEF BgCleared
<1>24. CASE BgExit
  BY <1>24 DEF BgExit
<1>25. CASE BgDone
  <2>1. bgHead' \in 0 .. Len(bgLog)
    BY <1>25, PopType DEF BgDone
  <2> QED
    BY <1>25, <2>1 DEF BgDone
<1>26. CASE OwnerShutdown
  BY <1>26 DEF OwnerShutdown
<1>27. CASE OwnerClear
  BY <1>27, TaskType, AppendType DEF OwnerClear
<1>28. CASE OwnerReset
  BY <1>28, TaskType, AppendType DEF OwnerReset
<1>29. CASE OwnerJoin
  BY <1>29 DEF OwnerJoin
<1>30. CASE OwnerDestroy
  BY <1>30, DestroyFirstType DEF OwnerDestroy, DestroyFirst
<1>31. CASE OwnerFreed
  BY <1>31 DEF OwnerFreed
<1>32. CASE Joined(Bg)
  BY <1>32 DEF Joined
<1>33. CASE Joined(Owner)
  BY <1>33 DEF Joined
<1>34. CASE UNCHANGED vars
  BY <1>34 DEF vars
<1> QED
  BY <1>1, <1>2, <1>3, <1>4, <1>5, <1>5a, <1>6, <1>7, <1>8, <1>9, <1>10, <1>11,
     <1>12, <1>13, <1>14, <1>15, <1>16, <1>17, <1>18, <1>19, <1>20, <1>21, <1>22,
     <1>23, <1>24, <1>25, <1>26, <1>27, <1>28, <1>29, <1>30, <1>31, <1>32, <1>33,
     <1>34
  DEF Next, Step, ClientStart, ClientContinue, SinkStep, BgStep, OwnerContinue

----------------------------------------------------------------------------
(* Which steps touch which variables: the other steps leave them alone.      *)

LEMMA BgLogSteps ==
  ASSUME [Next]_vars
  PROVE  \/ UNCHANGED bgLog
         \/ \E c \in Clients : LogSave(c) \/ FatalSave(c) \/ AddSend(c)
         \/ \E s \in Sinks : SinkFatalSave(s)
         \/ OwnerClear \/ OwnerReset \/ OwnerJoin
BY DEF Next, Step, ClientStart, ClientContinue, SinkStep, BgStep, OwnerContinue, vars,
  LogCheck, FatalCheck, AddSink, AddTest, AddWait, CallLock, CallSend, Drop, CallWait,
  Joined, SinkRun, SinkFatalCheck, BgSave, BgFatal, BgSend, BgSent, BgAdd, BgClear, BgDestroy,
  DestroyFirst, BgCleared, BgExit, BgDone, OwnerShutdown, OwnerDestroy, OwnerFreed

LEMMA BgVarsSteps ==
  ASSUME [Next]_vars
  PROVE  \/ UNCHANGED bgVars
         \/ BgSave \/ BgFatal \/ BgSend \/ BgSent \/ BgAdd \/ BgClear \/ BgDestroy
         \/ BgCleared \/ BgDone \/ OwnerDestroy
BY DEF Next, Step, ClientStart, ClientContinue, SinkStep, BgStep, OwnerContinue, vars,
  LogCheck, FatalCheck, LogSave, FatalSave, AddSink, AddTest, AddSend, AddWait, CallLock,
  CallSend, Drop, CallWait, Joined, SinkRun, SinkFatalCheck, SinkFatalSave, BgExit,
  OwnerShutdown, OwnerClear, OwnerReset, OwnerJoin, OwnerFreed

LEMMA SinkLogSteps ==
  ASSUME [Next]_vars
  PROVE  \/ UNCHANGED sinkLog
         \/ \E c \in Clients : CallSend(c) \/ Drop(c)
         \/ BgSend \/ BgDestroy \/ OwnerDestroy
BY DEF Next, Step, ClientStart, ClientContinue, SinkStep, BgStep, OwnerContinue, vars,
  LogCheck, FatalCheck, LogSave, FatalSave, AddSink, AddTest, AddSend, AddWait, CallLock,
  CallWait, Joined, SinkRun, SinkFatalCheck, SinkFatalSave, BgSave, BgFatal, BgSent,
  BgAdd, BgClear, BgCleared, BgExit, BgDone, OwnerShutdown, OwnerClear, OwnerReset,
  OwnerJoin, OwnerFreed

LEMMA ClientSteps ==
  ASSUME [Next]_vars
  PROVE  \/ UNCHANGED <<pc, held>>
         \/ \E c \in Clients : \/ LogCheck(c) \/ FatalCheck(c) \/ LogSave(c) \/ FatalSave(c)
                              \/ AddTest(c) \/ AddSend(c) \/ AddWait(c) \/ CallSend(c) \/ Drop(c)
                              \/ CallWait(c)
                              \/ \E s \in Sinks : AddSink(c, s) \/ CallLock(c, s)
BY DEF Next, Step, ClientStart, ClientContinue, SinkStep, BgStep, OwnerContinue, vars,
  clientVars, Joined, SinkRun, SinkFatalCheck, SinkFatalSave, BgSave, BgFatal, BgSend,
  BgSent, BgAdd, BgClear, BgDestroy, DestroyFirst, BgCleared, BgExit, BgDone,
  OwnerShutdown, OwnerClear, OwnerReset, OwnerJoin, OwnerDestroy, OwnerFreed

LEMMA SinkPcSteps ==
  ASSUME [Next]_vars
  PROVE  \/ UNCHANGED sinkPc
         \/ \E s \in Sinks : SinkRun(s) \/ SinkFatalCheck(s) \/ SinkFatalSave(s)
         \/ \E c \in Clients, s \in Sinks : AddSink(c, s)
BY DEF Next, Step, ClientStart, ClientContinue, SinkStep, BgStep, OwnerContinue, vars,
  sinkVars, LogCheck, FatalCheck, LogSave, FatalSave, AddTest, AddSend, AddWait, CallLock,
  CallSend, Drop, CallWait, Joined, BgSave, BgFatal, BgSend, BgSent, BgAdd, BgClear,
  BgDestroy, DestroyFirst, BgCleared, BgExit, BgDone, OwnerShutdown, OwnerClear,
  OwnerReset, OwnerJoin, OwnerDestroy, OwnerFreed

\* A sink whose thread was started never looks new again.
LEMMA SinkStarted ==
  ASSUME TypeInv, [Next]_vars, NEW s \in Sinks, sinkPc'[s] = "none"
  PROVE  sinkPc[s] = "none"
BY SinkPcSteps DEF TypeInv, TypeOK, SinkRun, SinkFatalCheck, SinkFatalSave, AddSink

\* A client is about to send an add task only after it has made the sink.
LEMMA AddingFrom ==
  ASSUME TypeInv, [Next]_vars, NEW c \in Clients, Adding(c)'
  PROVE  \/ Adding(c) /\ held'[c] = held[c]
         \/ \E s \in Sinks : AddSink(c, s)
<1> USE DEF TypeInv, TypeOK, Adding
<1>1. CASE UNCHANGED <<pc, held>>
  BY <1>1
<1>2. ASSUME NEW d \in Clients,
             \/ LogSave(d) \/ FatalSave(d) \/ AddTest(d) \/ AddSend(d) \/ AddWait(d) \/ CallSend(d)
             \/ CallWait(d)
      PROVE  Adding(c) /\ held'[c] = held[c]
  BY <1>2 DEF LogSave, FatalSave, AddTest, AddSend, AddWait, CallSend, CallWait
<1>3. ASSUME NEW d \in Clients, LogCheck(d) \/ FatalCheck(d)
      PROVE  Adding(c) /\ held'[c] = held[c]
  BY <1>3 DEF LogCheck, FatalCheck, Ready, Begin
<1>4. ASSUME NEW d \in Clients, Drop(d)
      PROVE  Adding(c) /\ held'[c] = held[c]
  BY <1>4 DEF Drop
<1>5. ASSUME NEW d \in Clients, NEW s \in Sinks, CallLock(d, s)
      PROVE  Adding(c) /\ held'[c] = held[c]
  BY <1>5 DEF CallLock, Ready, Begin
<1>6. ASSUME NEW d \in Clients, NEW s \in Sinks, AddSink(d, s), c # d
      PROVE  Adding(c) /\ held'[c] = held[c]
  BY <1>6 DEF AddSink, Ready, Begin
<1> QED
  BY <1>1, <1>2, <1>3, <1>4, <1>5, <1>6, ClientSteps

\* The tasks the worker has taken stay as they are: the queue only grows at its
\* end, or loses, when it is destroyed, what was never taken.
LEMMA LogKept ==
  ASSUME TypeInv, [Next]_vars
  PROVE  \A i \in 1 .. bgHead :
           i \in DOMAIN bgLog /\ i \in DOMAIN bgLog' /\ bgLog'[i] = bgLog[i]
<1> DEFINE Same == bgLog' = bgLog
           Grows == \E t \in BgTask : bgLog' = Append(bgLog, t)
<1> USE DEF TypeInv, TypeOK
<1>1. CASE UNCHANGED bgLog
  BY <1>1
<1>2. CASE \E t \in BgTask : bgLog' = Append(bgLog, t)
  BY <1>2
<1>3. CASE OwnerJoin
  BY <1>3 DEF OwnerJoin
<1>4. ASSUME NEW c \in Clients, AddSend(c) PROVE Same \/ Grows
  BY <1>4, TaskType DEF AddSend, HeldOK
<1>5. ASSUME NEW op \in {"save", "fatal"}, Push(op) PROVE Same \/ Grows
  BY <1>5, TaskType DEF Push
<1>6. CASE OwnerClear \/ OwnerReset
  BY <1>6, <1>2, TaskType DEF OwnerClear, OwnerReset
<1> QED
  BY <1>1, <1>2, <1>3, <1>4, <1>5, <1>6, BgLogSteps DEF LogSave, FatalSave, SinkFatalSave

LEMMA OwnerSteps ==
  ASSUME [Next]_vars
  PROVE  \/ UNCHANGED owner
         \/ OwnerShutdown \/ OwnerClear \/ OwnerReset \/ OwnerJoin \/ OwnerFreed
BY DEF Next, Step, ClientStart, ClientContinue, SinkStep, BgStep, OwnerContinue, vars,
  LogCheck, FatalCheck, LogSave, FatalSave, AddSink, AddTest, AddSend, AddWait, CallLock,
  CallSend, Drop, CallWait, Joined, SinkRun, SinkFatalCheck, SinkFatalSave, BgSave,
  BgFatal, BgSend, BgSent, BgAdd, BgClear, BgDestroy, DestroyFirst, BgCleared, BgExit,
  BgDone, OwnerDestroy

\* A step of the worker's thread that pops a task pops one; the others pop none.
LEMMA HeadSteps ==
  ASSUME TypeInv, [Next]_vars
  PROVE  /\ bgHead' \in Nat /\ bgHead <= bgHead'
         /\ bgHead' \in 0 .. Len(bgLog)
<1> USE DEF TypeInv, TypeOK
<1>1. CASE UNCHANGED bgHead
  BY <1>1
<1>2. ASSUME NEW op, Pop(op) PROVE bgHead' = bgHead + 1 /\ bgHead' \in 1 .. Len(bgLog)
  BY <1>2, PopType
<1>3. bgHead' = bgHead \/ (bgHead' = bgHead + 1 /\ bgHead' \in 1 .. Len(bgLog))
  BY <1>2, BgVarsSteps DEF bgVars, BgSave, BgFatal, BgSend, BgSent, BgAdd, BgClear,
     BgDestroy, DestroyFirst, BgCleared, BgDone, OwnerDestroy
<1> QED
  BY <1>1, <1>3

----------------------------------------------------------------------------
(* Add tasks.                                                                *)

\* How the queue of the worker changes.
QueueGrows(t) == t \in BgTask /\ bgLog' = Append(bgLog, t)

LEMMA QueueSteps ==
  ASSUME TypeInv, [Next]_vars
  PROVE  \/ UNCHANGED bgLog
         \/ OwnerJoin
         \/ \E t \in BgTask : QueueGrows(t) /\ t.op # "add"
         \/ \E c \in Clients : AddSend(c) /\ QueueGrows(Task("add", held[c]))
<1> USE DEF TypeInv, HeldOK
<1>1. \A op \in {"save", "fatal", "clear", "done"} :
        Task(op, None) \in BgTask /\ Task(op, None).op # "add"
  BY TaskType DEF Task
<1>2. ASSUME NEW op \in {"save", "fatal"}, Push(op)
      PROVE  UNCHANGED bgLog \/ \E t \in BgTask : QueueGrows(t) /\ t.op # "add"
  BY <1>1, <1>2 DEF Push, QueueGrows
<1>3. CASE OwnerClear \/ OwnerReset
  BY <1>1, <1>3 DEF OwnerClear, OwnerReset, QueueGrows
<1>4. ASSUME NEW c \in Clients, AddSend(c)
      PROVE  UNCHANGED bgLog \/ QueueGrows(Task("add", held[c]))
  BY <1>4, TaskType DEF AddSend, QueueGrows
<1> QED
  BY <1>2, <1>3, <1>4, BgLogSteps DEF LogSave, FatalSave, SinkFatalSave

LEMMA QueueGrowsAt ==
  ASSUME TypeInv, NEW t, QueueGrows(t), NEW i \in DOMAIN bgLog'
  PROVE  \/ i \in DOMAIN bgLog /\ bgLog'[i] = bgLog[i]
         \/ i = Len(bgLog) + 1 /\ bgLog'[i] = t
<1>1. bgLog \in Seq(BgTask) /\ t \in BgTask /\ bgLog' = Append(bgLog, t)
  BY DEF TypeInv, TypeOK, QueueGrows
<1>2. /\ DOMAIN bgLog = 1 .. Len(bgLog)
      /\ DOMAIN bgLog' = 1 .. Len(bgLog) + 1
      /\ \A k \in 1 .. Len(bgLog) : bgLog'[k] = bgLog[k]
      /\ bgLog'[Len(bgLog) + 1] = t
  BY <1>1, AppendAt
<1>3. Len(bgLog) \in Nat
  BY <1>1
<1> QED
  BY <1>2, <1>3

LEMMA NotQueuedKept ==
  ASSUME TypeInv, [Next]_vars, NEW s \in Sinks, NotQueued(s),
         \A c \in Clients : AddSend(c) => held[c] # s
  PROVE  NotQueued(s)'
<1> USE DEF NotQueued
<1>1. CASE UNCHANGED bgLog
  BY <1>1
<1>2. ASSUME NEW t \in BgTask, QueueGrows(t), t # Task("add", s) PROVE NotQueued(s)'
  BY <1>2, QueueGrowsAt
<1>3. CASE OwnerJoin
  BY <1>3 DEF OwnerJoin, TypeInv, TypeOK
<1>4. \A t \in BgTask : t.op # "add" => t # Task("add", s)
  BY DEF Task
<1>5. ASSUME NEW c \in Clients, AddSend(c), QueueGrows(Task("add", held[c]))
      PROVE  Task("add", held[c]) # Task("add", s) /\ Task("add", held[c]) \in BgTask
  BY <1>5 DEF Task, QueueGrows
<1> QED
  BY <1>1, <1>2, <1>3, <1>4, <1>5, QueueSteps

LEMMA AddOnceStep ==
  ASSUME TypeInv, AddOnce, AddFresh, [Next]_vars
  PROVE  AddOnce'
<1> USE DEF AddOnce
<1>1. CASE UNCHANGED bgLog
  BY <1>1
<1>2. ASSUME NEW t \in BgTask, QueueGrows(t), t.op # "add" \/ \A i \in DOMAIN bgLog : bgLog[i] # t
      PROVE  AddOnce'
  BY <1>2, QueueGrowsAt
<1>3. CASE OwnerJoin
  BY <1>3 DEF OwnerJoin, TypeInv, TypeOK
<1>4. ASSUME NEW c \in Clients, AddSend(c), QueueGrows(Task("add", held[c]))
      PROVE  AddOnce'
  <2>1. NotQueued(held[c])
    BY <1>4 DEF AddFresh, Adding, AddSend
  <2> QED
    BY <1>2, <1>4, <2>1 DEF NotQueued, QueueGrows
<1> QED
  BY <1>1, <1>2, <1>3, <1>4, QueueSteps

LEMMA AddFreshStep ==
  ASSUME TypeInv, AddFresh, [Next]_vars
  PROVE  AddFresh'
<1> USE DEF TypeInv, TypeOK, HeldOK, AddFresh, Adding
<1>1. ASSUME NEW c \in Clients, AddSend(c) PROVE ~Adding(c)'
  BY <1>1 DEF AddSend
<1>2. ASSUME NEW c \in Clients, NEW s \in Sinks, AddSink(c, s)
      PROVE  sinkPc[s] = "none" /\ sinkPc'[s] = "run" /\ held'[c] = s
  BY <1>2 DEF AddSink
<1>3. ASSUME NEW s \in Sinks, sinkPc'[s] = "none" PROVE NotQueued(s)'
  <2>1. sinkPc[s] = "none"
    BY <1>3, SinkStarted
  <2>2. NotQueued(s) /\ \A c \in Clients : AddSend(c) => held[c] # s
    BY <2>1 DEF AddSend
  <2> QED
    BY <2>2, NotQueuedKept
<1>4. ASSUME NEW c \in Clients, Adding(c)'
      PROVE  NotQueued(held[c])' /\ sinkPc'[held'[c]] # "none"
  <2>1. CASE Adding(c) /\ held'[c] = held[c]
    <3>1. \A d \in Clients : AddSend(d) => held[d] # held[c]
      BY <1>1, <1>4, <2>1 DEF AddSend
    <3>2. NotQueued(held[c])' /\ sinkPc'[held[c]] # "none"
      BY <2>1, <3>1, SinkStarted, NotQueuedKept
    <3> QED
      BY <2>1, <3>2 DEF NotQueued
  <2>2. ASSUME NEW s \in Sinks, AddSink(c, s)
        PROVE  NotQueued(held[c])' /\ sinkPc'[held'[c]] # "none"
    <3>1. UNCHANGED bgLog
      BY <2>2 DEF AddSink
    <3> QED
      BY <1>2, <2>2, <3>1 DEF NotQueued
  <2> QED
    BY <1>4, <2>1, <2>2, AddingFrom
<1>5. ASSUME NEW c \in Clients, NEW d \in Clients,
             Adding(c)', Adding(d)', held'[c] = held'[d]
      PROVE  c = d
  <2>1. ASSUME NEW a \in Clients, NEW b \in Clients, NEW s \in Sinks, AddSink(a, s), a # b,
               Adding(b)', held'[b] = s
        PROVE  FALSE
    <3>1. Adding(b) /\ held[b] = s /\ sinkPc[s] = "none"
      BY <2>1 DEF AddSink, Begin
    <3> QED
      BY <3>1
  <2> SUFFICES ASSUME c # d PROVE FALSE
    OBVIOUS
  <2>2. ~\E s \in Sinks : AddSink(c, s)
    BY <1>2, <1>5, <2>1
  <2>3. ~\E s \in Sinks : AddSink(d, s)
    BY <1>2, <1>5, <2>1
  <2> QED
    BY <1>5, <2>2, <2>3, AddingFrom
<1> QED
  BY <1>3, <1>4, <1>5

----------------------------------------------------------------------------
(* _sinks and the window in which a sink belongs to it.                      *)

LEMMA ExitStep ==
  ASSUME TypeInv, ExitOK, [Next]_vars
  PROVE  ExitOK'
<1>1. bgPc = "exited" => bgPc' = "exited"
  BY BgVarsSteps DEF bgVars, BgSave, BgFatal, BgSend, BgSent, BgAdd, BgClear, BgDestroy,
     DestroyFirst, BgCleared, BgDone, OwnerDestroy, Pop
<1>2. owner' \in {"dropSinks", "freed"} => owner \in {"dropSinks", "freed"} \/ bgPc = "exited"
  BY OwnerSteps DEF OwnerShutdown, OwnerClear, OwnerReset, OwnerJoin, OwnerFreed
<1> QED
  BY <1>1, <1>2 DEF ExitOK

\* The sink of the add task that is run has not been in _sinks before.
LEMMA BgAddFresh ==
  ASSUME TypeInv, AddOnce, RegOK, CutOK, SinksOK, BgAdd, NEW s, s = bgLog[bgHead + 1].sink
  PROVE  /\ s \in Sinks /\ bgLog[bgHead + 1] = Task("add", s)
         /\ bgHead + 1 \in 1 .. Len(bgLog) /\ bgHead' = bgHead + 1
         /\ regAt[s] = 0 /\ cutAt[s] = 0 /\ s \notin Elems(sinks)
<1>1. /\ bgHead' = bgHead + 1
      /\ bgHead' \in 1 .. Len(bgLog)
      /\ bgLog[bgHead'] \in BgTask
      /\ bgLog[bgHead'].op = "add"
  BY PopType DEF BgAdd, TypeInv
<1>2. s \in Sinks /\ bgLog[bgHead + 1] = Task("add", s)
  BY <1>1, TaskType
<1>3. regAt[s] = 0
  <2> SUFFICES ASSUME regAt[s] # 0 PROVE FALSE
    OBVIOUS
  <2>1. regAt[s] \in 1 .. bgHead /\ bgLog[regAt[s]] = Task("add", s)
    BY <1>2 DEF RegOK
  <2>2. bgHead \in Nat /\ DOMAIN bgLog = 1 .. Len(bgLog) /\ Len(bgLog) \in Nat
    BY DEF TypeInv, TypeOK
  <2>3. regAt[s] \in DOMAIN bgLog /\ bgHead + 1 \in DOMAIN bgLog /\ regAt[s] # bgHead + 1
    BY <1>1, <2>1, <2>2
  <2> QED
    BY <1>1, <1>2, <2>1, <2>3 DEF AddOnce
<1> QED
  BY <1>1, <1>2, <1>3 DEF CutOK, SinksOK

LEMMA DestroyFirstIn ==
  ASSUME TypeInv, RegOK, SinksOK, NEW t, DestroyFirst(t)
  PROVE  /\ Head(sinks) \in Sinks
         /\ regAt[Head(sinks)] # 0 /\ cutAt[Head(sinks)] = 0
         /\ bgHead \in Nat \ {0} /\ UNCHANGED <<bgHead, regAt, bgTodo, bgPc, bgLog>>
         /\ cutAt' = [cutAt EXCEPT ![Head(sinks)] = bgHead]
         /\ Once(sinks') /\ Elems(sinks') = Elems(sinks) \ {Head(sinks)}
<1>1. sinks \in Seq(Sinks) /\ sinks # <<>> /\ Once(sinks) /\ bgHead \in Nat
  BY DEF TypeInv, TypeOK, SinksOK, DestroyFirst
<1>2. Head(sinks) \in Sinks
  BY <1>1, TailType
<1>3. Once(Tail(sinks)) /\ Elems(Tail(sinks)) = Elems(sinks) \ {Head(sinks)} /\ Head(sinks) \in Elems(sinks)
  BY <1>1, TailOnce
<1>4. regAt[Head(sinks)] # 0 /\ cutAt[Head(sinks)] = 0
  BY <1>2, <1>3 DEF SinksOK
<1>5. bgHead # 0
  BY <1>1, <1>2, <1>4 DEF RegOK
<1> QED
  BY <1>1, <1>2, <1>3, <1>4, <1>5 DEF DestroyFirst

LEMMA RegStep ==
  ASSUME TypeInv, AddOnce, RegOK, CutOK, SinksOK, [Next]_vars
  PROVE  RegOK'
<1>1. bgHead \in Nat /\ bgHead' \in Nat /\ bgHead <= bgHead'
  BY HeadSteps DEF TypeInv, TypeOK
<1>2. CASE BgAdd
  <2> DEFINE s == bgLog[bgHead + 1].sink
  <2>1. /\ s \in Sinks /\ bgLog[bgHead + 1] = Task("add", s) /\ bgHead' = bgHead + 1
    BY <1>2, BgAddFresh
  <2>2. bgLog' = bgLog /\ regAt' = [regAt EXCEPT ![s] = bgHead + 1]
    BY <1>2 DEF BgAdd
  <2>3. regAt'[s] = bgHead + 1 /\ \A r \in Sinks : r # s => regAt'[r] = regAt[r]
    BY <2>1, <2>2 DEF TypeInv, TypeOK
  <2> QED
    BY <1>1, <2>1, <2>2, <2>3 DEF RegOK
<1>3. CASE UNCHANGED regAt
  BY <1>1, <1>3, LogKept DEF RegOK
<1> QED
  BY <1>2, <1>3, BgVarsSteps DEF bgVars, BgSave, BgFatal, BgSend, BgSent, BgClear,
     BgDestroy, DestroyFirst, BgCleared, BgDone, OwnerDestroy

LEMMA CutStep ==
  ASSUME TypeInv, AddOnce, RegOK, CutOK, SinksOK, [Next]_vars
  PROVE  CutOK'
<1>1. bgHead \in Nat /\ bgHead' \in Nat /\ bgHead <= bgHead'
  BY HeadSteps DEF TypeInv, TypeOK
<1>2. ASSUME NEW t, DestroyFirst(t) PROVE CutOK'
  <2> DEFINE h == Head(sinks)
  <2>1. /\ h \in Sinks /\ regAt[h] # 0 /\ bgHead # 0 /\ bgHead' = bgHead /\ regAt' = regAt
        /\ cutAt' = [cutAt EXCEPT ![h] = bgHead]
    BY <1>2, DestroyFirstIn
  <2>2. cutAt'[h] = bgHead /\ \A r \in Sinks : r # h => cutAt'[r] = cutAt[r]
    BY <2>1 DEF TypeInv, TypeOK
  <2>3. bgHead \in 1 .. bgHead
    BY <1>1, <2>1
  <2> QED
    BY <2>1, <2>2, <2>3 DEF CutOK
<1>3. CASE BgAdd
  <2>1. bgHead + 1 # 0
    BY <1>1
  <2> QED
    BY <1>1, <1>3, <2>1 DEF BgAdd, CutOK, TypeInv, TypeOK
<1>4. CASE UNCHANGED <<cutAt, regAt>>
  BY <1>1, <1>4 DEF CutOK
<1> QED
  BY <1>2, <1>3, <1>4, BgVarsSteps DEF bgVars, BgSave, BgFatal, BgSend, BgSent, BgClear,
     BgDestroy, BgCleared, BgDone, OwnerDestroy

LEMMA SinksStep ==
  ASSUME TypeInv, AddOnce, RegOK, CutOK, SinksOK, [Next]_vars
  PROVE  SinksOK'
<1>1. ASSUME NEW t, DestroyFirst(t) PROVE SinksOK'
  BY <1>1, DestroyFirstIn DEF SinksOK, TypeInv, TypeOK
<1>2. CASE BgAdd
  <2> DEFINE s == bgLog[bgHead + 1].sink
  <2>1. /\ s \in Sinks /\ regAt[s] = 0 /\ cutAt[s] = 0 /\ s \notin Elems(sinks)
        /\ bgHead \in Nat /\ sinks \in Seq(Sinks) /\ Once(sinks)
    BY <1>2, BgAddFresh DEF SinksOK, TypeInv, TypeOK
  <2>2. sinks' = Append(sinks, s) /\ cutAt' = cutAt /\ regAt' = [regAt EXCEPT ![s] = bgHead + 1]
    BY <1>2 DEF BgAdd, PushBack
  <2>3. Elems(sinks') = Elems(sinks) \cup {s} /\ Once(sinks')
    BY <2>1, <2>2, AppendElems, AppendOnce
  <2>4. regAt'[s] # 0 /\ \A r \in Sinks : r # s => regAt'[r] = regAt[r]
    BY <2>1, <2>2 DEF TypeInv, TypeOK
  <2> QED
    BY <2>1, <2>2, <2>3, <2>4 DEF SinksOK
<1>3. CASE UNCHANGED <<sinks, cutAt, regAt>>
  BY <1>3 DEF SinksOK, Once, Elems
<1> QED
  BY <1>1, <1>2, <1>3, BgVarsSteps DEF bgVars, BgSave, BgFatal, BgSend, BgSent, BgClear,
     BgDestroy, BgCleared, BgDone, OwnerDestroy

\* The worker's thread is not in a loop when it pops, clears or has ended.
LEMMA TodoEmpty ==
  ASSUME TypeInv, TodoOK, bgPc \notin {"fanout", "fanoutFatal"}
  PROVE  bgTodo = <<>> /\ Elems(bgTodo) = {}
<1>1. bgTodo = <<>>
  BY DEF TodoOK
<1> QED
  BY <1>1 DEF Elems

LEMMA TodoStep ==
  ASSUME TypeInv, AddOnce, RegOK, CutOK, SinksOK, TodoOK, ExitOK, [Next]_vars
  PROVE  TodoOK'
<1>1. \A i \in 1 .. bgHead : IsMsg(i)' = IsMsg(i)
  BY LogKept DEF IsMsg
<1>2. ASSUME bgPc \notin {"fanout", "fanoutFatal"}, bgPc' \notin {"fanout", "fanoutFatal"},
             UNCHANGED bgTodo
      PROVE  TodoOK'
  BY <1>2, TodoEmpty DEF TodoOK, Once, Elems
<1>3. CASE BgSave \/ BgFatal
  <2>1. PICK op \in {"save", "fatal"} : Pop(op)
    BY <1>3 DEF BgSave, BgFatal
  <2>2. /\ bgPc' \in {"fanout", "fanoutFatal"} /\ bgTodo' = sinks
        /\ UNCHANGED <<bgLog, sinks>>
    BY <1>3 DEF BgSave, BgFatal
  <2>3. bgHead' > 0 /\ bgLog'[bgHead'].op = op
    BY <2>1, <2>2, PopType DEF TypeInv
  <2>4. IsMsg(bgHead)'
    BY <2>3 DEF IsMsg
  <2> QED
    BY <2>2, <2>3, <2>4 DEF TodoOK, SinksOK, Once, Elems
<1>4. CASE BgSend
  <2>1. bgTodo \in Seq(Sinks) /\ bgTodo # <<>> /\ bgTodo' = Tail(bgTodo)
    BY <1>4 DEF BgSend, TypeInv, TypeOK
  <2>2. Once(bgTodo') /\ Elems(bgTodo') = Elems(bgTodo) \ {Head(bgTodo)}
    BY <2>1, TailOnce DEF TodoOK
  <2>3. UNCHANGED <<bgPc, bgHead, sinks, bgLog>> /\ bgPc \in {"fanout", "fanoutFatal"}
    BY <1>4 DEF BgSend
  <2>4. Elems(sinks)' = Elems(sinks) /\ IsMsg(bgHead)' = IsMsg(bgHead)
    BY <2>3 DEF Elems, IsMsg
  <2> QED
    BY <2>2, <2>3, <2>4 DEF TodoOK
<1>5. CASE BgSent
  <2>1. bgTodo = <<>> /\ bgTodo' = <<>> /\ bgPc' \notin {"fanout", "fanoutFatal"}
    BY <1>5 DEF BgSent
  <2> QED
    BY <2>1 DEF TodoOK, Once, Elems
<1>6. CASE BgAdd \/ BgClear \/ BgDone \/ BgCleared
  BY <1>2, <1>6 DEF BgAdd, BgClear, BgDone, BgCleared, Pop
<1>7. CASE BgDestroy
  BY <1>2, <1>7 DEF BgDestroy, DestroyFirst
<1>8. CASE OwnerDestroy
  BY <1>2, <1>8 DEF OwnerDestroy, DestroyFirst, ExitOK
<1>9. CASE UNCHANGED bgVars
  <2>1. UNCHANGED <<bgPc, bgHead, sinks, bgTodo>>
    BY <1>9 DEF bgVars
  <2>2. bgHead > 0 => bgHead \in 1 .. bgHead
    BY DEF TypeInv, TypeOK
  <2>3. bgHead > 0 => IsMsg(bgHead)' = IsMsg(bgHead)
    BY <2>1, <2>2, LogKept DEF IsMsg
  <2> QED
    BY <2>1, <2>3 DEF TodoOK, Elems, Once
<1> QED
  BY <1>3, <1>4, <1>5, <1>6, <1>7, <1>8, <1>9, BgVarsSteps

----------------------------------------------------------------------------
(* What the sinks are sent.                                                  *)

LEMMA MsgsInAppend ==
  ASSUME NEW q \in Seq(SinkTask), NEW e \in SinkTask
  PROVE  MsgsIn(Append(q, e)) = IF e.op = "msg" THEN MsgsIn(q) \cup {e.arg} ELSE MsgsIn(q)
<1>1. /\ DOMAIN q = 1 .. Len(q)
      /\ DOMAIN Append(q, e) = 1 .. Len(q) + 1
      /\ \A i \in 1 .. Len(q) : Append(q, e)[i] = q[i]
      /\ Append(q, e)[Len(q) + 1] = e
  BY AppendAt
<1>2. Len(q) \in Nat
  OBVIOUS
<1>3. \A i : i \in 1 .. Len(q) + 1 <=> i \in 1 .. Len(q) \/ i = Len(q) + 1
  BY <1>2
<1> QED
  BY <1>1, <1>3 DEF MsgsIn

LEMMA InOrderAppend ==
  ASSUME NEW q \in Seq(SinkTask), NEW e \in SinkTask, InOrder(q),
         e.op = "msg" => \A i \in MsgsIn(q) : i < e.arg
  PROVE  InOrder(Append(q, e))
<1>1. /\ DOMAIN q = 1 .. Len(q)
      /\ DOMAIN Append(q, e) = 1 .. Len(q) + 1
      /\ \A i \in 1 .. Len(q) : Append(q, e)[i] = q[i]
      /\ Append(q, e)[Len(q) + 1] = e
  BY AppendAt
<1>2. Len(q) \in Nat
  OBVIOUS
<1>3. ASSUME NEW j \in 1 .. Len(q) + 1, NEW k \in 1 .. Len(q) + 1, j < k
      PROVE  j \in 1 .. Len(q) /\ (k \in 1 .. Len(q) \/ k = Len(q) + 1)
  BY <1>2, <1>3
<1>4. \A j \in 1 .. Len(q) : q[j].op = "msg" => q[j].arg \in MsgsIn(q)
  BY <1>1 DEF MsgsIn
<1> QED
  BY <1>1, <1>3, <1>4 DEF InOrder

\* Only bgSave and bgFatal send messages to a sink.
LEMMA SinkLogStep ==
  ASSUME TypeInv, [Next]_vars, ~BgSend, NEW s \in Sinks
  PROVE  \/ sinkLog'[s] = sinkLog[s]
         \/ \E e \in SinkTask : e.op # "msg" /\ sinkLog'[s] = Append(sinkLog[s], e)
<1> USE DEF TypeInv, TypeOK
<1>1. CASE UNCHANGED sinkLog
  BY <1>1
<1>2. ASSUME NEW c \in Clients, CallSend(c)
      PROVE  sinkLog'[s] = sinkLog[s] \/ sinkLog'[s] = Append(sinkLog[s], CallEntry(c))
  BY <1>2 DEF CallSend
<1>3. ASSUME NEW t, NEW r, NEW others, Release(t, r, others)
      PROVE  sinkLog'[s] = sinkLog[s] \/ sinkLog'[s] = Append(sinkLog[s], DoneEntry)
  BY <1>3 DEF Release
<1>4. DoneEntry \in SinkTask /\ DoneEntry.op # "msg"
  BY EntryType DEF DoneEntry
<1>5. \A c \in Clients : CallEntry(c) \in SinkTask /\ CallEntry(c).op # "msg"
  BY EntryType DEF CallEntry
<1>6. ASSUME NEW c \in Clients, Drop(c)
      PROVE  sinkLog'[s] = sinkLog[s] \/ sinkLog'[s] = Append(sinkLog[s], DoneEntry)
  BY <1>3, <1>6 DEF Drop
<1>7. ASSUME NEW t, DestroyFirst(t)
      PROVE  sinkLog'[s] = sinkLog[s] \/ sinkLog'[s] = Append(sinkLog[s], DoneEntry)
  BY <1>3, <1>7 DEF DestroyFirst
<1> QED
  BY <1>1, <1>2, <1>4, <1>5, <1>6, <1>7, SinkLogSteps DEF BgDestroy, OwnerDestroy

\* ... so that the messages it was sent stay the same.
LEMMA MsgsKept ==
  ASSUME TypeInv, [Next]_vars, ~BgSend, NEW s \in Sinks
  PROVE  MsgsIn(sinkLog'[s]) = MsgsIn(sinkLog[s])
<1>1. sinkLog[s] \in Seq(SinkTask)
  BY DEF TypeInv, TypeOK
<1>2. CASE sinkLog'[s] = sinkLog[s]
  BY <1>2
<1>3. ASSUME NEW e \in SinkTask, e.op # "msg", sinkLog'[s] = Append(sinkLog[s], e)
      PROVE  MsgsIn(sinkLog'[s]) = MsgsIn(sinkLog[s])
  BY <1>1, <1>3, MsgsInAppend
<1> QED
  BY <1>2, <1>3, SinkLogStep

\* What a sink was sent, and what it should have been sent, stay equal when
\* the worker's progress for it stays, or moves over a task that is no message.
LEMMA DeliveryQuiet ==
  ASSUME TypeInv, RegOK, CutOK, DeliveryComplete, [Next]_vars, ~BgSend,
         NEW s \in Sinks, regAt'[s] = regAt[s],
         regAt[s] # 0 => \/ Scanned(s)' = Scanned(s)
                         \/ Scanned(s)' = Scanned(s) + 1 /\ ~IsMsg(Scanned(s))'
  PROVE  MsgsIn(sinkLog'[s]) =
           IF regAt'[s] = 0 THEN {} ELSE {i \in regAt'[s] + 1 .. Scanned(s)' : IsMsg(i)'}
<1>1. MsgsIn(sinkLog'[s]) = MsgsIn(sinkLog[s])
  BY MsgsKept
<1>2. \A i \in 1 .. bgHead : IsMsg(i)' = IsMsg(i)
  BY LogKept DEF IsMsg
<1>3. bgHead \in Nat /\ regAt[s] \in Nat /\ cutAt[s] \in 0 .. bgHead
  BY DEF TypeInv, TypeOK, CutOK
<1>4. CASE regAt[s] = 0
  BY <1>1, <1>4 DEF DeliveryComplete
<1>5. CASE regAt[s] # 0
  <2> DEFINE Old == {i \in regAt[s] + 1 .. Scanned(s) : IsMsg(i)}
             New == {i \in regAt[s] + 1 .. Scanned(s)' : IsMsg(i)'}
  <2>1. Scanned(s) \in Int /\ Scanned(s) <= bgHead
    BY <1>3 DEF Scanned
  <2>2. \A i \in regAt[s] + 1 .. Scanned(s) : IsMsg(i)' = IsMsg(i)
    BY <1>2, <1>3, <2>1
  <2>3. CASE Scanned(s)' = Scanned(s)
    <3>1. regAt[s] + 1 .. Scanned(s)' = regAt[s] + 1 .. Scanned(s)
      BY <2>3
    <3>2. Old = New
      BY <2>2, <3>1
    <3> QED
      BY <1>1, <1>5, <3>2 DEF DeliveryComplete
  <2>4. CASE Scanned(s)' = Scanned(s) + 1 /\ ~IsMsg(Scanned(s))'
    <3>1. \A i \in Int : i \in regAt[s] + 1 .. Scanned(s) + 1
                         <=> \/ i \in regAt[s] + 1 .. Scanned(s)
                             \/ i = Scanned(s) + 1 /\ regAt[s] <= Scanned(s)
      BY <1>3, <2>1
    <3>2. bgLog'[Scanned(s) + 1].op \notin {"save", "fatal"}
      BY <2>4 DEF IsMsg
    <3>3. Old = New
      BY <1>3, <2>1, <2>2, <2>4, <3>1, <3>2 DEF IsMsg
    <3> QED
      BY <1>1, <1>5, <3>3 DEF DeliveryComplete
  <2> QED
    BY <1>5, <2>3, <2>4
<1> QED
  BY <1>4, <1>5

\* The sink that the loop comes to gets the message, and gets it after all it
\* was sent before.
LEMMA BgSendStep ==
  ASSUME TypeInv, RegOK, CutOK, SinksOK, TodoOK, DeliveryComplete, DeliveryOrdered, BgSend
  PROVE  DeliveryComplete' /\ DeliveryOrdered'
<1>0. PICK h : h = Head(bgTodo)
  OBVIOUS
<1>1. /\ bgTodo \in Seq(Sinks) /\ bgTodo # <<>> /\ bgTodo' = Tail(bgTodo)
      /\ UNCHANGED <<bgHead, bgLog, regAt, cutAt>>
      /\ sinkLog' = [sinkLog EXCEPT ![h] = Append(@, MsgEntry(bgHead))]
      /\ bgPc \in {"fanout", "fanoutFatal"}
  BY <1>0 DEF BgSend, TypeInv, TypeOK
<1>2. /\ h \in Sinks /\ h \in Elems(bgTodo)
      /\ Elems(bgTodo') = Elems(bgTodo) \ {h}
  BY <1>0, <1>1, TailType, TailOnce DEF TodoOK
<1>3. /\ bgHead \in Nat \ {0} /\ IsMsg(bgHead)
      /\ regAt[h] # 0 /\ cutAt[h] = 0 /\ regAt[h] \in 1 .. bgHead
  BY <1>1, <1>2 DEF TodoOK, SinksOK, RegOK, TypeInv, TypeOK
<1>4. regAt[h] # bgHead
  <2>1. bgLog[regAt[h]].op = "add"
    <3>1. bgLog[regAt[h]] = Task("add", h)
      BY <1>2, <1>3 DEF RegOK
    <3> QED
      BY <3>1 DEF Task
  <2> QED
    BY <1>3, <2>1 DEF IsMsg
<1>5. /\ sinkLog[h] \in Seq(SinkTask) /\ MsgEntry(bgHead) \in SinkTask
      /\ MsgEntry(bgHead).op = "msg" /\ MsgEntry(bgHead).arg = bgHead
      /\ sinkLog'[h] = Append(sinkLog[h], MsgEntry(bgHead))
      /\ \A s \in Sinks : s # h => sinkLog'[s] = sinkLog[s]
  BY <1>1, <1>2, <1>3, EntryType DEF TypeInv, TypeOK, MsgEntry
<1>6. MsgsIn(sinkLog[h]) = {i \in regAt[h] + 1 .. bgHead - 1 : IsMsg(i)}
  BY <1>2, <1>3 DEF DeliveryComplete, Scanned
<1>7. \A i : IsMsg(i)' = IsMsg(i)
  BY <1>1 DEF IsMsg
<1>8. MsgsIn(sinkLog'[h]) = {i \in regAt[h] + 1 .. bgHead : IsMsg(i)}
  <2>1. MsgsIn(sinkLog'[h]) = MsgsIn(sinkLog[h]) \cup {bgHead}
    BY <1>5, MsgsInAppend
  <2>2. \A i \in Int : i \in regAt[h] + 1 .. bgHead
                       <=> i \in regAt[h] + 1 .. bgHead - 1 \/ i = bgHead
    BY <1>3, <1>4
  <2> QED
    BY <1>3, <1>6, <2>1, <2>2
<1>9. DeliveryComplete'
  <2>1. Scanned(h)' = bgHead
    BY <1>1, <1>2, <1>3 DEF Scanned
  <2>2. \A s \in Sinks : s # h => Scanned(s)' = Scanned(s)
    BY <1>1, <1>2 DEF Scanned
  <2>3. MsgsIn(sinkLog'[h]) =
          IF regAt'[h] = 0 THEN {} ELSE {i \in regAt'[h] + 1 .. Scanned(h)' : IsMsg(i)'}
    BY <1>1, <1>3, <1>7, <1>8, <2>1
  <2>4. ASSUME NEW s \in Sinks, s # h
        PROVE  MsgsIn(sinkLog'[s]) =
          IF regAt'[s] = 0 THEN {} ELSE {i \in regAt'[s] + 1 .. Scanned(s)' : IsMsg(i)'}
    BY <1>1, <1>5, <1>7, <2>2, <2>4 DEF DeliveryComplete
  <2> QED
    BY <2>3, <2>4 DEF DeliveryComplete
<1>10. DeliveryOrdered'
  <2>1. InOrder(sinkLog'[h])
    BY <1>2, <1>3, <1>5, <1>6, InOrderAppend DEF DeliveryOrdered
  <2> QED
    BY <1>5, <2>1 DEF DeliveryOrdered
<1> QED
  BY <1>9, <1>10

LEMMA DeliveryStep ==
  ASSUME TypeInv, AddOnce, RegOK, CutOK, SinksOK, TodoOK, ExitOK,
         DeliveryComplete, DeliveryOrdered, [Next]_vars, ~BgSend
  PROVE  DeliveryComplete' /\ DeliveryOrdered'
<1>1. DeliveryOrdered'
  BY SinkLogStep, InOrderAppend DEF DeliveryOrdered, TypeInv, TypeOK
<1> DEFINE Quiet(s) == /\ regAt'[s] = regAt[s]
                       /\ regAt[s] # 0 => \/ Scanned(s)' = Scanned(s)
                                          \/ Scanned(s)' = Scanned(s) + 1 /\ ~IsMsg(Scanned(s))'
           Complete(s) == MsgsIn(sinkLog'[s]) =
             IF regAt'[s] = 0 THEN {} ELSE {i \in regAt'[s] + 1 .. Scanned(s)' : IsMsg(i)'}
<1> SUFFICES ASSUME NEW s \in Sinks PROVE Complete(s)
  BY <1>1 DEF DeliveryComplete
<1>2. Quiet(s) => Complete(s)
  BY DeliveryQuiet
<1>3. bgHead \in Nat
  BY DEF TypeInv, TypeOK
<1>4. CASE UNCHANGED bgVars \/ BgSent \/ BgCleared
  <2>1. UNCHANGED <<regAt, cutAt, bgHead, bgTodo>>
    BY <1>4 DEF bgVars, BgSent, BgCleared
  <2> QED
    BY <1>2, <2>1 DEF Scanned, Elems
<1>5. CASE BgSave \/ BgFatal
  <2>1. /\ bgHead' = bgHead + 1 /\ bgTodo' = sinks /\ UNCHANGED <<regAt, cutAt>>
        /\ bgPc = "idle"
    BY <1>5 DEF BgSave, BgFatal, Pop
  <2>2. Elems(bgTodo) = {}
    BY <2>1, TodoEmpty
  <2>3. regAt[s] # 0 => Scanned(s)' = Scanned(s)
    BY <1>3, <2>1, <2>2 DEF Scanned, SinksOK, Elems
  <2> QED
    BY <1>2, <2>1, <2>3
<1>6. CASE BgClear \/ BgDone
  <2>1. /\ bgHead' = bgHead + 1 /\ UNCHANGED <<regAt, cutAt, bgTodo, bgLog>> /\ bgPc = "idle"
        /\ bgLog[bgHead + 1].op \in {"clear", "done"}
    BY <1>6 DEF BgClear, BgDone, Pop
  <2>2. Elems(bgTodo) = {} /\ Elems(bgTodo') = {}
    BY <2>1, TodoEmpty
  <2>3. Scanned(s)' = Scanned(s) \/ (Scanned(s)' = Scanned(s) + 1 /\ Scanned(s)' = bgHead + 1)
    BY <1>3, <2>1, <2>2 DEF Scanned
  <2> QED
    BY <1>2, <2>1, <2>3 DEF IsMsg
<1>7. CASE BgAdd
  <2>1. PICK r : r = bgLog[bgHead + 1].sink
    OBVIOUS
  <2>2. /\ bgHead' = bgHead + 1 /\ UNCHANGED <<cutAt, bgTodo, bgLog>> /\ bgPc = "idle"
        /\ bgLog[bgHead + 1].op = "add"
        /\ regAt' = [regAt EXCEPT ![r] = bgHead + 1]
    BY <1>7, <2>1 DEF BgAdd, Pop
  <2>3. Elems(bgTodo) = {} /\ Elems(bgTodo') = {}
    BY <2>2, TodoEmpty
  <2>4. r \in Sinks /\ regAt[r] = 0 /\ cutAt[r] = 0
    BY <1>7, <2>1, BgAddFresh
  <2>5. CASE s = r
    <3>1. regAt'[s] = bgHead + 1 /\ Scanned(s)' = bgHead + 1
      BY <2>2, <2>3, <2>4, <2>5 DEF Scanned, TypeInv, TypeOK
    <3>2. MsgsIn(sinkLog'[s]) = {}
      <4>1. MsgsIn(sinkLog[s]) = {}
        BY <2>4, <2>5 DEF DeliveryComplete
      <4> QED
        BY <4>1, MsgsKept
    <3>3. regAt'[s] + 1 .. Scanned(s)' = {}
      BY <1>3, <3>1
    <3> QED
      BY <3>2, <3>3
  <2>6. CASE s # r
    <3>1. regAt'[s] = regAt[s]
      BY <2>2, <2>6 DEF TypeInv, TypeOK
    <3>2. Scanned(s)' = Scanned(s) \/ (Scanned(s)' = Scanned(s) + 1 /\ Scanned(s)' = bgHead + 1)
      BY <1>3, <2>2, <2>3 DEF Scanned
    <3> QED
      BY <1>2, <2>2, <3>1, <3>2 DEF IsMsg
  <2> QED
    BY <2>5, <2>6
<1>8. ASSUME NEW t, DestroyFirst(t), bgPc \notin {"fanout", "fanoutFatal"} PROVE Complete(s)
  <2>1. PICK h : h = Head(sinks)
    OBVIOUS
  <2>2. /\ h \in Sinks /\ cutAt[h] = 0 /\ bgHead # 0 /\ UNCHANGED <<bgHead, regAt, bgTodo>>
        /\ cutAt' = [cutAt EXCEPT ![h] = bgHead]
    BY <1>8, <2>1, DestroyFirstIn
  <2>3. Elems(bgTodo) = {} /\ Elems(bgTodo') = {}
    BY <1>8, <2>2, TodoEmpty
  <2>4. cutAt'[s] = IF s = h THEN bgHead ELSE cutAt[s]
    BY <2>2 DEF TypeInv, TypeOK
  <2>5. Scanned(s)' = Scanned(s)
    BY <2>2, <2>3, <2>4 DEF Scanned
  <2> QED
    BY <1>2, <2>2, <2>5
<1> QED
  BY <1>4, <1>5, <1>6, <1>7, <1>8, BgVarsSteps DEF BgDestroy, OwnerDestroy, ExitOK

----------------------------------------------------------------------------
(* The theorems.                                                             *)

LEMMA InitIInv == Init => IInv
<1> SUFFICES ASSUME Init PROVE IInv
  OBVIOUS
<1>1. TypeInv
  BY ThreadsAssumption DEF Init, TypeInv, TypeOK, HeldOK, Destroyers
<1>2. AddOnce /\ AddFresh
  BY DEF Init, AddOnce, AddFresh, Adding, NotQueued
<1>3. RegOK /\ CutOK /\ SinksOK /\ TodoOK /\ ExitOK
  BY DEF Init, RegOK, CutOK, SinksOK, TodoOK, ExitOK, Once, Elems
<1>4. DeliveryComplete /\ DeliveryOrdered
  BY DEF Init, DeliveryComplete, DeliveryOrdered, MsgsIn, InOrder
<1> QED
  BY <1>1, <1>2, <1>3, <1>4 DEF IInv

LEMMA NextIInv == IInv /\ [Next]_vars => IInv'
<1> SUFFICES ASSUME IInv, [Next]_vars PROVE IInv'
  OBVIOUS
<1> USE DEF IInv
<1>1. TypeInv'
  BY TypeStep
<1>2. AddOnce' /\ AddFresh'
  BY AddOnceStep, AddFreshStep
<1>3. RegOK' /\ CutOK' /\ SinksOK'
  BY RegStep, CutStep, SinksStep
<1>4. TodoOK' /\ ExitOK'
  BY TodoStep, ExitStep
<1>5. DeliveryComplete' /\ DeliveryOrdered'
  BY BgSendStep, DeliveryStep
<1> QED
  BY <1>1, <1>2, <1>3, <1>4, <1>5

\* The strengthening, as an invariant of the specification.
THEOREM Inductive == Spec => []IInv
  BY InitIInv, NextIInv, PTL DEF Spec

\* Every variable keeps its type, for any clients, sinks and number of calls.
THEOREM TypeCorrect == Spec => []TypeOK
<1>1. IInv => TypeOK
  BY DEF IInv, TypeInv
<1> QED
  BY <1>1, Inductive, PTL

\* Every sink is sent exactly the messages the worker accepted while the sink
\* was in _sinks (bgSave, bgFatal, addWrappedSink, ~LogWorker).
THEOREM DeliveryIsComplete == Spec => []DeliveryComplete
<1>1. IInv => DeliveryComplete
  BY DEF IInv
<1> QED
  BY <1>1, Inductive, PTL

\* Every sink is sent its messages in the order the worker accepted them, and
\* each of them once.
THEOREM DeliveryIsOrdered == Spec => []DeliveryOrdered
<1>1. IInv => DeliveryOrdered
  BY DEF IInv
<1> QED
  BY <1>1, Inductive, PTL

----------------------------------------------------------------------------
(* LogWorker implements Broadcast, for every set of clients and sinks.       *)

Messages == {i \in DOMAIN bgLog : IsMsg(i)}

\* What the variables of Broadcast are here.
LEMMA Mapped ==
  /\ B!vars = <<Messages, Elems(sinks), regAt, [s \in Sinks |-> MsgsIn(sinkLog[s])]>>
BY DEF B!vars, Messages

LEMMA InitRefines == Init => B!Init
BY DEF Init, B!Init, IsMsg, Elems, MsgsIn

\* What a sink was given is what it is due up to a task the worker has taken.
LEMMA GivenTaken ==
  ASSUME IInv, NEW s \in Sinks, NEW m \in MsgsIn(sinkLog[s])
  PROVE  m \in 1 .. bgHead /\ IsMsg(m) /\ m > regAt[s]
<1>1. bgHead \in Nat /\ regAt[s] \in Nat /\ cutAt[s] \in 0 .. bgHead
  BY DEF IInv, TypeInv, TypeOK, CutOK
<1>2. Scanned(s) \in Int /\ Scanned(s) <= bgHead
  BY <1>1 DEF Scanned
<1>3. m \in regAt[s] + 1 .. Scanned(s) /\ IsMsg(m)
  BY DEF IInv, DeliveryComplete
<1> QED
  BY <1>1, <1>2, <1>3

\* A sink in _sinks that the loop does not have before it was given all.
LEMMA GivenAll ==
  ASSUME IInv, NEW s \in Sinks, regAt[s] # 0, cutAt[s] = 0
  PROVE  MsgsIn(sinkLog[s]) = {i \in regAt[s] + 1 ..
           (IF s \in Elems(bgTodo) THEN bgHead - 1 ELSE bgHead) : IsMsg(i)}
BY DEF IInv, DeliveryComplete, Scanned

LEMMA TakenMessages ==
  ASSUME IInv, NEW i \in 1 .. bgHead
  PROVE  i \in DOMAIN bgLog /\ i \in Nat /\ i <= bgHead
BY DEF IInv, TypeInv, TypeOK

\* sink->send is a delivery.
LEMMA BgSendRefines ==
  ASSUME IInv, [Next]_vars, BgSend
  PROVE  \E s \in Sinks : \E m \in Messages : B!Deliver(s, m)
<1>0. PICK h : h = Head(bgTodo)
  OBVIOUS
<1>1. /\ bgTodo \in Seq(Sinks) /\ bgTodo # <<>>
      /\ UNCHANGED <<bgHead, bgLog, regAt, sinks>>
      /\ sinkLog' = [sinkLog EXCEPT ![h] = Append(@, MsgEntry(bgHead))]
      /\ bgPc \in {"fanout", "fanoutFatal"}
  BY <1>0 DEF BgSend, IInv, TypeInv, TypeOK
<1>2. h \in Sinks /\ h \in Elems(bgTodo)
  BY <1>0, <1>1, TailType, TailOnce DEF IInv, TodoOK
<1>3. /\ bgHead \in Nat \ {0} /\ IsMsg(bgHead)
      /\ h \in Elems(sinks) /\ regAt[h] # 0 /\ cutAt[h] = 0
      /\ regAt[h] \in 1 .. bgHead /\ bgLog[regAt[h]] = Task("add", h)
  BY <1>1, <1>2 DEF IInv, TodoOK, SinksOK, RegOK, TypeInv, TypeOK
<1>4. regAt[h] # bgHead
  BY <1>3 DEF IsMsg, Task
<1>5. MsgsIn(sinkLog[h]) = {i \in regAt[h] + 1 .. bgHead - 1 : IsMsg(i)}
  BY <1>2, <1>3, GivenAll
<1>6. bgHead \in Messages
  BY <1>3, TakenMessages DEF Messages
<1>7. /\ sinkLog[h] \in Seq(SinkTask) /\ MsgEntry(bgHead) \in SinkTask
      /\ MsgEntry(bgHead).op = "msg" /\ MsgEntry(bgHead).arg = bgHead
      /\ sinkLog'[h] = Append(sinkLog[h], MsgEntry(bgHead))
      /\ \A s \in Sinks : s # h => sinkLog'[s] = sinkLog[s]
  BY <1>1, <1>2, <1>3, EntryType DEF IInv, TypeInv, TypeOK, MsgEntry
<1>8. MsgsIn(sinkLog'[h]) = MsgsIn(sinkLog[h]) \cup {bgHead}
  BY <1>7, MsgsInAppend
<1> DEFINE given == [s \in Sinks |-> MsgsIn(sinkLog[s])]
           Due == {m \in Messages \ given[h] : m > regAt[h]}
<1>9. given' = [given EXCEPT ![h] = @ \cup {bgHead}]
  BY <1>2, <1>7, <1>8
<1>10. bgHead \in Due
  BY <1>2, <1>3, <1>4, <1>5, <1>6
<1>11. \A n \in Due \cup given[h] : n < bgHead => n \in given[h]
  <2> SUFFICES ASSUME NEW n \in Due, n < bgHead PROVE FALSE
    BY <1>2
  <2>1. n \in Nat /\ n > regAt[h] /\ IsMsg(n)
    BY DEF Messages, IInv, TypeInv, TypeOK
  <2>2. n \in regAt[h] + 1 .. bgHead - 1
    BY <1>3, <2>1
  <2>3. n \in MsgsIn(sinkLog[h])
    BY <1>5, <2>1, <2>2
  <2> QED
    BY <1>2, <2>3
<1>12. Messages' = Messages /\ Elems(sinks)' = Elems(sinks) /\ regAt' = regAt
  BY <1>1 DEF Messages, IsMsg, Elems
<1>13. B!Deliver(h, bgHead)
  BY <1>2, <1>3, <1>9, <1>10, <1>11, <1>12 DEF B!Deliver, B!Due, Messages
<1> QED
  BY <1>2, <1>6, <1>13

\* No other step changes what the sinks were given.
LEMMA GivenKept ==
  ASSUME IInv, [Next]_vars, ~BgSend
  PROVE  [s \in Sinks |-> MsgsIn(sinkLog[s])]' = [s \in Sinks |-> MsgsIn(sinkLog[s])]
BY MsgsKept DEF IInv

\* The task of addWrappedSink makes the sink a member.
LEMMA BgAddRefines ==
  ASSUME IInv, [Next]_vars, BgAdd
  PROVE  \E s \in Sinks : B!Join(s)
<1>0. PICK s : s = bgLog[bgHead + 1].sink
  OBVIOUS
<1>1. s \in Sinks /\ regAt[s] = 0 /\ s \notin Elems(sinks) /\ bgHead \in Nat
  <2>1. TypeInv /\ AddOnce /\ RegOK /\ CutOK /\ SinksOK
    BY DEF IInv
  <2>2. s \in Sinks /\ regAt[s] = 0 /\ s \notin Elems(sinks)
    BY <1>0, <2>1, BgAddFresh
  <2> QED
    BY <2>1, <2>2 DEF TypeInv, TypeOK
<1>2. /\ sinks' = Append(sinks, s) /\ regAt' = [regAt EXCEPT ![s] = bgHead + 1]
      /\ UNCHANGED bgLog /\ sinks \in Seq(Sinks)
  BY <1>0 DEF BgAdd, PushBack, IInv, TypeInv, TypeOK
<1>3. Elems(sinks)' = Elems(sinks) \cup {s}
  BY <1>1, <1>2, AppendElems
<1>4. regAt'[s] = bgHead + 1
  BY <1>1, <1>2 DEF IInv, TypeInv, TypeOK
<1>5. \A t \in Sinks : \A m \in MsgsIn(sinkLog[t]) : m < regAt'[s]
  BY <1>1, <1>4, GivenTaken
<1>6. ~BgSend
  BY DEF BgAdd, Pop, BgSend
<1>7. Messages' = Messages
  BY <1>2 DEF Messages, IsMsg
<1>8. regAt' = [regAt EXCEPT ![s] = regAt'[s]] /\ regAt'[s] \in Nat \ {0}
  <2>1. regAt' = [regAt EXCEPT ![s] = regAt'[s]]
    BY <1>2, <1>4, Zenon
  <2>2. bgHead + 1 \in Nat \ {0}
    BY <1>1
  <2> QED
    BY <1>4, <2>1, <2>2, Zenon
<1>9. [r \in Sinks |-> MsgsIn(sinkLog[r])]' = [r \in Sinks |-> MsgsIn(sinkLog[r])]
  BY <1>6, GivenKept
<1>10. B!Join(s)
  BY <1>1, <1>3, <1>5, <1>7, <1>8, <1>9 DEF B!Join, Messages
<1> QED
  BY <1>1, <1>10

\* clear, and the destruction of the vector, take a sink out.
LEMMA DestroyFirstRefines ==
  ASSUME IInv, [Next]_vars, NEW t, DestroyFirst(t), bgPc \notin {"fanout", "fanoutFatal"}
  PROVE  \E s \in Sinks : B!Leave(s)
<1>0. PICK h : h = Head(sinks)
  OBVIOUS
<1>1. /\ h \in Sinks /\ regAt[h] # 0 /\ cutAt[h] = 0 /\ UNCHANGED <<regAt, bgLog>>
      /\ Elems(sinks') = Elems(sinks) \ {h}
  BY <1>0, DestroyFirstIn DEF IInv
<1>2. h \in Elems(sinks)
  BY <1>1 DEF IInv, SinksOK
<1>3. h \notin Elems(bgTodo)
  BY TodoEmpty DEF IInv
<1>4. MsgsIn(sinkLog[h]) = {i \in regAt[h] + 1 .. bgHead : IsMsg(i)}
  BY <1>1, <1>3, GivenAll
<1>5. ASSUME NEW r \in Sinks, NEW m \in MsgsIn(sinkLog[r]), m > regAt[h]
      PROVE  m \in MsgsIn(sinkLog[h])
  <2>1. m \in 1 .. bgHead /\ IsMsg(m) /\ bgHead \in Nat /\ regAt[h] \in Nat
    BY <1>1, GivenTaken, SMTT(30) DEF IInv, TypeInv, TypeOK
  <2>2. m \in regAt[h] + 1 .. bgHead
    BY <1>5, <2>1
  <2> QED
    BY <1>4, <2>1, <2>2
<1>6. ~BgSend
  BY DEF BgSend
<1>7. Messages' = Messages
  BY <1>1 DEF Messages, IsMsg
<1> QED
  BY <1>1, <1>2, <1>5, <1>6, <1>7, GivenKept DEF B!Leave, Messages

\* The queue of the worker: a message is accepted, or dropped with the queue.
LEMMA QueueRefines ==
  ASSUME IInv, [Next]_vars, ~BgSend, UNCHANGED <<sinks, regAt>>
  PROVE  B!Accept \/ B!Discard \/ UNCHANGED B!vars
<1>1. /\ bgLog \in Seq(BgTask) /\ bgHead \in 0 .. Len(bgLog)
      /\ DOMAIN bgLog = 1 .. Len(bgLog) /\ Len(bgLog) \in Nat
  BY DEF IInv, TypeInv, TypeOK
<1>2. Elems(sinks)' = Elems(sinks)
  BY DEF Elems
<1> USE GivenKept
<1>3. ASSUME Messages' = Messages PROVE UNCHANGED B!vars
  BY <1>2, <1>3, Mapped DEF B!vars, Messages
<1>4. CASE UNCHANGED bgLog
  BY <1>3, <1>4 DEF Messages, IsMsg
<1>5. ASSUME NEW t \in BgTask, QueueGrows(t), t.op \notin {"save", "fatal"}
      PROVE  Messages' = Messages
  <2>1. /\ DOMAIN bgLog' = 1 .. Len(bgLog) + 1
        /\ \A i \in 1 .. Len(bgLog) : bgLog'[i] = bgLog[i]
        /\ bgLog'[Len(bgLog) + 1] = t
    BY <1>1, <1>5, AppendAt DEF QueueGrows
  <2> QED
    BY <1>1, <1>5, <2>1 DEF Messages, IsMsg
<1>6. ASSUME NEW t \in BgTask, QueueGrows(t), t.op \in {"save", "fatal"}
      PROVE  B!Accept
  <2> DEFINE m == Len(bgLog) + 1
  <2>1. /\ DOMAIN bgLog' = 1 .. m
        /\ \A i \in 1 .. Len(bgLog) : bgLog'[i] = bgLog[i]
        /\ bgLog'[m] = t
    BY <1>1, <1>6, AppendAt DEF QueueGrows
  <2>2. Messages' = Messages \cup {m}
    BY <1>1, <1>6, <2>1 DEF Messages, IsMsg
  <2>3. \A a \in Messages : a < m
    BY <1>1 DEF Messages
  <2> QED
    BY <1>2, <2>2, <2>3 DEF B!Accept, Messages
<1>7. CASE OwnerJoin
  <2>1. /\ bgLog' = SubSeq(bgLog, 1, bgHead) /\ DOMAIN bgLog' = 1 .. bgHead
        /\ \A i \in 1 .. bgHead : bgLog'[i] = bgLog[i]
    BY <1>1, <1>7 DEF OwnerJoin
  <2>2. Messages' = {i \in Messages : i <= bgHead}
    BY <1>1, <2>1 DEF Messages, IsMsg
  <2>3. ASSUME NEW m \in Messages \ Messages'
        PROVE  /\ \A a \in Messages' : a < m
               /\ \A s \in Sinks : m \notin MsgsIn(sinkLog[s])
    <3>1. m \in Nat /\ m > bgHead
      BY <1>1, <2>2, <2>3 DEF Messages
    <3>2. \A a \in Messages' : a \in Nat /\ a <= bgHead
      BY <1>1, <2>2 DEF Messages
    <3>3. ASSUME NEW s \in Sinks, m \in MsgsIn(sinkLog[s]) PROVE FALSE
      <4>1. m \in 1 .. bgHead
        BY <3>3, GivenTaken
      <4> QED
        BY <1>1, <3>1, <4>1
    <3> QED
      BY <1>1, <3>1, <3>2, <3>3
  <2> QED
    BY <1>2, <2>2, <2>3 DEF B!Discard, Messages
<1>8. ASSUME NEW x PROVE Task("add", x).op \notin {"save", "fatal"}
  BY DEF Task
<1>9. ASSUME NEW t, QueueGrows(t) PROVE t \in BgTask
  BY <1>9 DEF QueueGrows
<1>10. TypeInv
  BY DEF IInv
<1> QED
  BY <1>3, <1>4, <1>5, <1>6, <1>7, <1>8, <1>9, <1>10, QueueSteps

LEMMA StepRefines == IInv /\ [Next]_vars => [B!Next]_B!vars
<1> SUFFICES ASSUME IInv, [Next]_vars PROVE [B!Next]_B!vars
  OBVIOUS
<1>1. CASE BgSend
  BY <1>1, BgSendRefines DEF B!Next, Messages
<1>2. CASE BgAdd
  BY <1>2, BgAddRefines DEF B!Next
<1>3. CASE BgDestroy \/ OwnerDestroy
  <2>1. PICK t : DestroyFirst(t)
    BY <1>3 DEF BgDestroy, OwnerDestroy
  <2>2. bgPc \notin {"fanout", "fanoutFatal"}
    BY <1>3 DEF BgDestroy, OwnerDestroy, IInv, ExitOK
  <2> QED
    BY <2>1, <2>2, DestroyFirstRefines DEF B!Next
<1>4. CASE ~BgSend /\ UNCHANGED <<sinks, regAt>>
  BY <1>4, QueueRefines DEF B!Next
<1>5. BgSave \/ BgFatal \/ BgSent \/ BgClear \/ BgCleared \/ BgDone
      => UNCHANGED <<sinks, regAt>>
  BY DEF BgSave, BgFatal, BgSent, BgClear, BgCleared, BgDone
<1> QED
  BY <1>1, <1>2, <1>3, <1>4, <1>5, BgVarsSteps DEF bgVars

\* The worker is a broadcast to its sinks: whatever the threads do, each sink
\* is given the messages accepted between its coming and its going, in order,
\* without a gap (logworker.cpp, sink.hpp).
THEOREM LogWorkerIsBroadcast == Spec => BroadcastSpec
  BY InitRefines, StepRefines, Inductive, PTL DEF Spec, BroadcastSpec, B!Spec

----------------------------------------------------------------------------
(* Who owns a sink, who destroys it, and that shutdown and the end by a      *)
(* fatal event find the sinks flushed, for every set of clients and sinks.   *)

\* ~Sink has sent the quit task to s.
HasQuit(s) == \E k \in DOMAIN sinkLog[s] : sinkLog[s][k] = DoneEntry

\* A sink whose thread was started is owned by somebody or has been told to
\* quit, and a sink that was not started is neither.
Counted ==
  \A s \in Sinks :
    IF sinkPc[s] = "none" THEN ~Alive(s) /\ ~HasQuit(s)
    ELSE Alive(s) <=> ~HasQuit(s)

\* A sink's thread ends when it has run the quit task, which is the last one.
Ended ==
  \A s \in Sinks :
    sinkPc[s] = "exited" => HasQuit(s) /\ sinkHead[s] = Len(sinkLog[s])

\* Until then the thread that sent the quit task waits for it, and no other one.
Joins ==
  \A s \in Sinks :
    /\ \A t \in Destroyers : joining[t] = s =>
         HasQuit(s) /\ \A u \in Destroyers \ {t} : joining[u] # s
    /\ HasQuit(s) /\ sinkPc[s] # "exited" => \E t \in Destroyers : joining[t] = s

\* A client that waits in join() is not inside another call, and one that has a
\* sink in its frame is; the owner only joins while it destroys _sinks.
Busy ==
  /\ \A c \in Clients :
       /\ joining[c] # None => pc[c] \in {"idle", "callWait"}
       /\ held[c] # None => pc[c] \in {"addTest", "addSend", "addWait", "callSend", "drop"}
  /\ joining[Owner] # None => owner = "dropSinks"

\* The add task of s is not in the queue (any more).
NotWaiting(s) == \A i \in bgHead + 1 .. Len(bgLog) : bgLog[i] # Task("add", s)

\* A client waits for each add task in the queue and holds its sink meanwhile.
Awaited ==
  \A s \in Sinks : ~NotWaiting(s) =>
    /\ future[s] = "pending"
    /\ \E c \in Clients : pc[c] = "addWait" /\ held[c] = s

\* The worker's thread runs the clear task of ~LogWorker while bgPc says so.
Clearing == bgPc = "clear" => bgHead > 0 /\ bgLog[bgHead].op = "clear"

\* Once that task's future is ready, no sink added before it is in _sinks or
\* waited for by the worker's thread or the owner.
ClearDone ==
  future[Owner] = "set" =>
    /\ \E j \in 1 .. bgHead : bgLog[j].op = "clear"
    /\ \A s \in Sinks : AddedBeforeClear(s) =>
         s \notin Elems(sinks) /\ joining[Bg] # s /\ joining[Owner] # s

\* What can be said of one sink, for the steps below.
OneSink(s) ==
  /\ IF sinkPc[s] = "none" THEN ~Alive(s) /\ ~HasQuit(s)
     ELSE Alive(s) <=> ~HasQuit(s)
  /\ \A k \in DOMAIN sinkLog[s] : sinkLog[s][k] = DoneEntry => k = Len(sinkLog[s])
  /\ sinkPc[s] = "exited" => HasQuit(s) /\ sinkHead[s] = Len(sinkLog[s])
  /\ \A t \in Destroyers : joining[t] = s =>
       HasQuit(s) /\ \A u \in Destroyers \ {t} : joining[u] # s
  /\ HasQuit(s) /\ sinkPc[s] # "exited" => \E t \in Destroyers : joining[t] = s

Owned == \A s \in Sinks : OneSink(s)

LEMMA OwnedParts ==
  Owned <=> Counted /\ QuitIsLast /\ Ended /\ Joins
BY DEF Owned, OneSink, Counted, QuitIsLast, Ended, Joins

OInv ==
  /\ IInv
  /\ Owned /\ Busy /\ Awaited /\ Clearing /\ ClearDone /\ FatalFlushes

-----------------------------------------------------------------------------
(* What a step can do to a sink *)

\* A task appended to a sink's queue is its last.
LEMMA QueuedAt ==
  ASSUME TypeOK, NEW s \in Sinks, NEW e \in SinkTask,
         sinkLog'[s] = Append(sinkLog[s], e)
  PROVE  /\ HasQuit(s)' <=> HasQuit(s) \/ e = DoneEntry
         /\ ~HasQuit(s) => \A k \in DOMAIN sinkLog'[s] :
              sinkLog'[s][k] = DoneEntry => k = Len(sinkLog'[s])
<1>1. sinkLog[s] \in Seq(SinkTask) BY DEF TypeOK
<1>2. /\ DOMAIN sinkLog[s] = 1 .. Len(sinkLog[s])
      /\ DOMAIN sinkLog'[s] = 1 .. Len(sinkLog[s]) + 1
      /\ \A i \in 1 .. Len(sinkLog[s]) : sinkLog'[s][i] = sinkLog[s][i]
      /\ sinkLog'[s][Len(sinkLog[s]) + 1] = e
      /\ Len(sinkLog'[s]) = Len(sinkLog[s]) + 1
      /\ Len(sinkLog[s]) \in Nat
  BY <1>1, AppendAt, AppendType
<1>3. \A i \in 1 .. Len(sinkLog[s]) + 1 :
        i \in 1 .. Len(sinkLog[s]) \/ i = Len(sinkLog[s]) + 1
  BY <1>2
<1>4. /\ Len(sinkLog[s]) + 1 \in 1 .. Len(sinkLog[s]) + 1
      /\ 1 .. Len(sinkLog[s]) \subseteq 1 .. Len(sinkLog[s]) + 1
  BY <1>2
<1>5. QED BY <1>2, <1>3, <1>4 DEF HasQuit

\* A step that leaves the sink's owners, queue and thread as they are.
LEMMA SinkUntouched ==
  ASSUME NEW s \in Sinks, OneSink(s), Alive(s)' = Alive(s),
         sinkLog'[s] = sinkLog[s],
         \/ sinkPc'[s] = sinkPc[s]
         \/ sinkPc[s] \notin {"none", "exited"} /\ sinkPc'[s] \notin {"none", "exited"},
         sinkHead'[s] = sinkHead[s] \/ sinkPc'[s] # "exited",
         \A t \in Destroyers : joining'[t] = s <=> joining[t] = s
  PROVE  OneSink(s)'
<1>1. HasQuit(s)' = HasQuit(s) BY DEF HasQuit
<1>2. QED BY <1>1 DEF OneSink

\* Somebody who owns the sink sends it a task.
LEMMA SinkGiven ==
  ASSUME TypeOK, NEW s \in Sinks, OneSink(s), Alive(s), Alive(s)',
         NEW e \in SinkTask, e # DoneEntry,
         sinkLog'[s] = Append(sinkLog[s], e),
         sinkPc'[s] = sinkPc[s],
         \A t \in Destroyers : joining'[t] = s <=> joining[t] = s
  PROVE  OneSink(s)'
<1>1. ~HasQuit(s) BY DEF OneSink
<1>2. ~HasQuit(s)' BY <1>1, QueuedAt
<1>3. \A k \in DOMAIN sinkLog'[s] : sinkLog'[s][k] = DoneEntry => k = Len(sinkLog'[s])
  BY <1>1, QueuedAt
<1>4. QED BY <1>1, <1>2, <1>3 DEF OneSink

\* The last owner gives the sink up, sends the quit task and waits.
LEMMA SinkLeft ==
  ASSUME TypeOK, NEW s \in Sinks, OneSink(s), Alive(s), ~Alive(s)',
         NEW t \in Destroyers,
         sinkLog'[s] = Append(sinkLog[s], DoneEntry),
         sinkPc'[s] = sinkPc[s],
         joining'[t] = s, \A u \in Destroyers \ {t} : joining'[u] = joining[u]
  PROVE  OneSink(s)'
<1>1. ~HasQuit(s) BY DEF OneSink
<1>2. HasQuit(s)' BY QueuedAt, EntryType
<1>3. \A k \in DOMAIN sinkLog'[s] : sinkLog'[s][k] = DoneEntry => k = Len(sinkLog'[s])
  BY <1>1, QueuedAt, EntryType
<1>4. \A u \in Destroyers : joining[u] # s BY <1>1 DEF OneSink
<1>5. QED BY <1>1, <1>2, <1>3, <1>4 DEF OneSink

\* A thread gives up the sink h: it stays with the others, or is left.
LEMMA Released ==
  ASSUME TypeOK, Owned, NEW t \in Destroyers, joining[t] = None,
         NEW h \in Sinks, Alive(h), NEW others \in BOOLEAN, Release(t, h, others),
         others <=> Alive(h)',
         \A s \in Sinks \ {h} : Alive(s)' = Alive(s),
         UNCHANGED sinkVars
  PROVE  Owned'
<1>1. SUFFICES ASSUME NEW s \in Sinks PROVE OneSink(s)'
  BY DEF Owned
<1>2. OneSink(s) BY DEF Owned
<1>3. s # None BY ThreadsAssumption
<1>4. CASE others
  <2>1. UNCHANGED <<sinkLog, joining, sinkHead, sinkPc>>
    BY <1>4 DEF Release, sinkVars
  <2>2. Alive(s)' = Alive(s)
    <3>1. CASE s = h
      <4>1. Alive(h)' BY <1>4
      <4>2. Alive(h)' = TRUE /\ Alive(h) = TRUE BY <4>1 DEF Alive
      <4>3. QED BY <3>1, <4>2 DEF Alive
    <3>2. CASE s # h BY <3>2
    <3>3. QED BY <3>1, <3>2
  <2>3. QED BY <1>2, <2>1, <2>2, SinkUntouched
<1>5. CASE ~others
  <2>1. /\ sinkLog' = [sinkLog EXCEPT ![h] = Append(@, DoneEntry)]
        /\ joining' = [joining EXCEPT ![t] = h]
        /\ UNCHANGED <<sinkHead, sinkPc>>
    BY <1>5 DEF Release, sinkVars
  <2>2. /\ joining'[t] = h
        /\ \A u \in Destroyers \ {t} : joining'[u] = joining[u]
    BY <2>1 DEF TypeOK
  <2>3. CASE s = h
    <3>1. sinkLog'[h] = Append(sinkLog[h], DoneEntry) BY <2>1 DEF TypeOK
    <3>2. ~Alive(h)' BY <1>5
    <3>3. OneSink(h)' BY <1>2, <2>1, <2>2, <2>3, <3>1, <3>2, SinkLeft
    <3>4. QED BY <2>3, <3>3
  <2>4. CASE s # h
    <3>1. sinkLog'[s] = sinkLog[s] BY <2>1, <2>4 DEF TypeOK
    <3>2. \A u \in Destroyers : joining'[u] = s <=> joining[u] = s
      BY <1>3, <2>2, <2>4
    <3>3. QED BY <1>2, <2>1, <2>4, <3>1, <3>2, SinkUntouched
  <2>5. QED BY <2>3, <2>4
<1>6. QED BY <1>4, <1>5

-----------------------------------------------------------------------------
(* Owners, queues and threads of sinks *)

\* The steps that touch any of them.
LEMMA OwnedSteps ==
  ASSUME [Next]_vars
  PROVE  \/ UNCHANGED <<sinks, held, sinkLog, sinkHead, sinkPc, joining>>
         \/ \E c \in Clients : CallSend(c) \/ Drop(c)
         \/ \E c \in Clients, s \in Sinks : AddSink(c, s) \/ CallLock(c, s)
         \/ \E s \in Sinks : SinkRun(s) \/ SinkFatalCheck(s) \/ SinkFatalSave(s)
         \/ BgSend \/ BgAdd \/ BgDestroy \/ OwnerDestroy
         \/ \E t \in Destroyers : Joined(t)
BY DEF Next, Step, ClientStart, ClientContinue, SinkStep, BgStep, OwnerContinue, vars,
  clientVars, bgVars, sinkVars, Destroyers, LogCheck, FatalCheck, LogSave, FatalSave,
  AddTest, AddSend, AddWait, CallWait, BgSave, BgFatal, BgSent, BgClear, BgCleared, BgExit,
  BgDone, OwnerShutdown, OwnerClear, OwnerReset, OwnerJoin, OwnerFreed

\* A sink in _sinks or in the queue has a thread.
LEMMA AddedStarted ==
  ASSUME IInv, NEW s \in Sinks, regAt[s] # 0 \/ s \in Elems(sinks) \/ ~NotQueued(s)
  PROVE  sinkPc[s] # "none"
<1>1. s \in Elems(sinks) => regAt[s] # 0 BY DEF IInv, SinksOK
<1>2. regAt[s] # 0 => regAt[s] \in 1 .. bgHead /\ bgLog[regAt[s]] = Task("add", s)
  BY DEF IInv, RegOK
<1>3. bgHead \in 0 .. Len(bgLog) /\ DOMAIN bgLog = 1 .. Len(bgLog) /\ Len(bgLog) \in Nat
  BY DEF IInv, TypeInv, TypeOK
<1>4. regAt[s] # 0 => ~NotQueued(s) BY <1>2, <1>3 DEF NotQueued
<1>5. QED BY <1>1, <1>4 DEF IInv, AddFresh

LEMMA CallSendOwned ==
  ASSUME IInv, Owned, NEW c \in Clients, CallSend(c)
  PROVE  Owned'
<1> DEFINE h == held[c]
<1>1. /\ pc[c] = "callSend"
      /\ sinkLog' = [sinkLog EXCEPT ![h] = Append(@, CallEntry(c))]
      /\ UNCHANGED <<sinks, held, sinkHead, sinkPc, joining>>
  BY DEF CallSend, bgVars, sinkVars
<1>2. h \in Sinks BY <1>1 DEF IInv, TypeInv, HeldOK
<1>3. \A s \in Sinks : Alive(s)' = Alive(s) BY <1>1 DEF Alive, HeldByClient
<1>4. Alive(h) BY DEF Alive, HeldByClient
<1>5. Alive(h)' BY <1>1 DEF Alive, HeldByClient
<1>6. CallEntry(c) \in SinkTask /\ CallEntry(c) # DoneEntry
  BY EntryType DEF CallEntry, DoneEntry
<1>7. TypeOK BY DEF IInv, TypeInv
<1>8. ASSUME NEW s \in Sinks PROVE OneSink(s)'
  <2>1. OneSink(s) BY DEF Owned
  <2>2. CASE s = h
    <3>1. sinkLog'[s] = Append(sinkLog[s], CallEntry(c)) BY <1>1, <1>7, <2>2 DEF TypeOK
    <3>2. Alive(s) /\ Alive(s)' BY <1>1, <2>2 DEF Alive, HeldByClient
    <3>3. QED BY <1>1, <1>6, <1>7, <2>1, <3>1, <3>2, SinkGiven
  <2>3. CASE s # h
    <3>1. sinkLog'[s] = sinkLog[s] BY <1>1, <1>7, <2>3 DEF TypeOK
    <3>2. QED BY <1>1, <1>3, <2>1, <3>1, SinkUntouched
  <2>4. QED BY <2>2, <2>3
<1>9. QED BY <1>8 DEF Owned

LEMMA BgSendOwned ==
  ASSUME IInv, Owned, BgSend
  PROVE  Owned'
<1> DEFINE h == Head(bgTodo)
<1>1. /\ bgTodo # <<>>
      /\ sinkLog' = [sinkLog EXCEPT ![h] = Append(@, MsgEntry(bgHead))]
      /\ UNCHANGED <<sinks, held, sinkHead, sinkPc, joining>>
  BY DEF BgSend, clientVars, sinkVars
<1>2. TypeOK BY DEF IInv, TypeInv
<1>3. h \in Sinks /\ h \in Elems(sinks)
  <2>1. bgTodo \in Seq(Sinks) BY <1>2 DEF TypeOK
  <2>2. h \in Sinks /\ h \in Elems(bgTodo)
    BY <1>1, <2>1, TailOnce, TailType DEF IInv, TodoOK
  <2>3. QED BY <2>2 DEF IInv, TodoOK
<1>4. \A s \in Sinks : Alive(s)' = Alive(s) BY <1>1 DEF Alive, HeldByClient
<1>5. MsgEntry(bgHead) \in SinkTask /\ MsgEntry(bgHead) # DoneEntry
  BY <1>2, EntryType DEF MsgEntry, DoneEntry, TypeOK
<1>6. ASSUME NEW s \in Sinks PROVE OneSink(s)'
  <2>1. OneSink(s) BY DEF Owned
  <2>2. CASE s = h
    <3>1. sinkLog'[s] = Append(sinkLog[s], MsgEntry(bgHead)) BY <1>1, <1>2, <2>2 DEF TypeOK
    <3>2. Alive(s) /\ Alive(s)' BY <1>1, <1>3, <2>2 DEF Alive
    <3>3. QED BY <1>1, <1>2, <1>5, <2>1, <3>1, <3>2, SinkGiven
  <2>3. CASE s # h
    <3>1. sinkLog'[s] = sinkLog[s] BY <1>1, <1>2, <2>3 DEF TypeOK
    <3>2. QED BY <1>1, <1>4, <2>1, <3>1, SinkUntouched
  <2>4. QED BY <2>2, <2>3
<1>7. QED BY <1>6 DEF Owned

LEMMA DropOwned ==
  ASSUME IInv, Owned, Busy, NEW c \in Clients, Drop(c)
  PROVE  Owned'
<1>1. PICK h \in Sinks : h = held[c] BY DEF Drop, IInv, TypeInv, HeldOK
<1> DEFINE others == \/ h \in Elems(sinks)
                     \/ \E d \in Clients \ {c} : held[d] = h
<1>2. /\ pc[c] = "drop"
      /\ Release(c, h, others)
      /\ held' = [held EXCEPT ![c] = None]
      /\ UNCHANGED <<sinks, sinkVars>>
  BY <1>1 DEF Drop, bgVars
<1>3. TypeOK BY DEF IInv, TypeInv
<1>4. c \in Destroyers /\ joining[c] = None
  BY <1>2 DEF Busy, Destroyers
<1>5. Alive(h) BY <1>1 DEF Alive, HeldByClient
<1>6. None \notin Sinks BY ThreadsAssumption
<1>7. \A d \in Clients : held'[d] = IF d = c THEN None ELSE held[d]
  BY <1>2, <1>3 DEF TypeOK
<1>8. others <=> Alive(h)'
  BY <1>2, <1>6, <1>7 DEF Alive, HeldByClient
<1>9. \A s \in Sinks \ {h} : Alive(s)' = Alive(s)
  BY <1>1, <1>2, <1>6, <1>7 DEF Alive, HeldByClient
<1>10. others \in BOOLEAN OBVIOUS
<1> HIDE DEF others
<1>11. UNCHANGED sinkVars BY <1>2
<1>12. QED BY <1>2, <1>3, <1>4, <1>5, <1>8, <1>9, <1>10, <1>11, Released

LEMMA DestroyOwned ==
  ASSUME IInv, Owned, NEW t \in {Bg, Owner}, DestroyFirst(t)
  PROVE  Owned'
<1>1. PICK h \in Sinks : h = Head(sinks) BY DestroyFirstIn DEF IInv
<1> DEFINE others == HeldByClient(h)
<1>2. /\ joining[t] = None
      /\ Release(t, h, others)
      /\ UNCHANGED <<held, sinkVars>>
  BY <1>1 DEF DestroyFirst, clientVars
<1>3. TypeOK /\ Elems(sinks') = Elems(sinks) \ {h}
  BY <1>1, DestroyFirstIn DEF IInv, TypeInv
<1>4. t \in Destroyers BY DEF Destroyers
<1>5. h \in Elems(sinks)
  <2>1. sinks \in Seq(Sinks) /\ sinks # <<>> BY <1>3 DEF TypeOK, DestroyFirst
  <2>2. QED BY <1>1, <2>1, TailOnce DEF IInv, SinksOK
<1>6. Alive(h) BY <1>5 DEF Alive
<1>7. others <=> Alive(h)' BY <1>2, <1>3 DEF Alive, HeldByClient
<1>8. \A s \in Sinks \ {h} : Alive(s)' = Alive(s)
  BY <1>2, <1>3 DEF Alive, HeldByClient
<1>9. others \in BOOLEAN BY DEF HeldByClient
<1> HIDE DEF others
<1>10. UNCHANGED sinkVars BY <1>2
<1>11. QED BY <1>2, <1>3, <1>4, <1>6, <1>7, <1>8, <1>9, <1>10, Released

\* A new sink belongs to the client that made it.
LEMMA AddSinkOwned ==
  ASSUME IInv, Owned, Busy, NEW c \in Clients, NEW h \in Sinks, AddSink(c, h)
  PROVE  Owned'
<1>1. /\ pc[c] = "idle" /\ sinkPc[h] = "none"
      /\ sinkPc' = [sinkPc EXCEPT ![h] = "run"]
      /\ held' = [held EXCEPT ![c] = h]
      /\ UNCHANGED <<sinks, sinkLog, sinkHead, joining>>
  BY DEF AddSink, Ready, bgVars
<1>2. TypeOK BY DEF IInv, TypeInv
<1>3. held[c] = None BY <1>1 DEF Busy
<1>4. \A d \in Clients : held'[d] = IF d = c THEN h ELSE held[d]
  BY <1>1, <1>2 DEF TypeOK
<1>5. None \notin Sinks BY ThreadsAssumption
<1>6. ASSUME NEW s \in Sinks PROVE OneSink(s)'
  <2>1. OneSink(s) BY DEF Owned
  <2>2. CASE s = h
    <3>1. Alive(s)' BY <1>4, <2>2 DEF Alive, HeldByClient
    <3>2. ~HasQuit(s)' /\ ~HasQuit(s) BY <1>1, <2>1, <2>2 DEF OneSink, HasQuit
    <3>3. sinkPc'[s] = "run" BY <1>1, <1>2, <2>2 DEF TypeOK
    <3>4. QED BY <1>1, <2>1, <3>1, <3>2, <3>3 DEF OneSink
  <2>3. CASE s # h
    <3>1. Alive(s)' = Alive(s)
      BY <1>1, <1>3, <1>4, <1>5, <2>3 DEF Alive, HeldByClient
    <3>2. sinkPc'[s] = sinkPc[s] BY <1>1, <1>2, <2>3 DEF TypeOK
    <3>3. QED BY <1>1, <2>1, <3>1, <3>2, SinkUntouched
  <2>4. QED BY <2>2, <2>3
<1>7. QED BY <1>6 DEF Owned

\* A call only adds an owner to a sink that has one.
LEMMA CallLockOwned ==
  ASSUME IInv, Owned, Busy, NEW c \in Clients, NEW h \in Sinks, CallLock(c, h)
  PROVE  Owned'
<1>1. /\ pc[c] = "idle"
      /\ \/ Alive(h) /\ held' = [held EXCEPT ![c] = h]
         \/ UNCHANGED held
      /\ UNCHANGED <<sinks, sinkLog, sinkHead, sinkPc, joining>>
  BY DEF CallLock, Ready, bgVars, sinkVars
<1>2. TypeOK BY DEF IInv, TypeInv
<1>3. held[c] = None BY <1>1 DEF Busy
<1>4. None \notin Sinks BY ThreadsAssumption
<1>5. ASSUME NEW s \in Sinks PROVE Alive(s)' = Alive(s)
  <2>1. CASE UNCHANGED held BY <1>1, <2>1 DEF Alive, HeldByClient
  <2>2. CASE Alive(h) /\ held' = [held EXCEPT ![c] = h]
    <3>1. \A d \in Clients : held'[d] = IF d = c THEN h ELSE held[d]
      BY <1>2, <2>2 DEF TypeOK
    <3>2. CASE s = h
      <4>1. Alive(h)' /\ Alive(h) BY <2>2, <3>1 DEF Alive, HeldByClient
      <4>2. QED BY <3>2, <4>1 DEF Alive, HeldByClient
    <3>3. CASE s # h
      BY <1>1, <1>3, <1>4, <3>1, <3>3 DEF Alive, HeldByClient
    <3>4. QED BY <3>2, <3>3
  <2>3. QED BY <1>1, <2>1, <2>2
<1>6. QED BY <1>1, <1>5, SinkUntouched DEF Owned

\* A sink that enters _sinks is held by the client that waits for it.
LEMMA BgAddOwned ==
  ASSUME IInv, Owned, Awaited, BgAdd
  PROVE  Owned'
<1> DEFINE h == bgLog[bgHead + 1].sink
<1>1. /\ sinks' = Append(sinks, h)
      /\ UNCHANGED <<held, sinkLog, sinkHead, sinkPc, joining>>
  BY DEF BgAdd, PushBack, clientVars, sinkVars
<1>2. TypeOK BY DEF IInv, TypeInv
<1>3. /\ h \in Sinks /\ bgLog[bgHead + 1] = Task("add", h)
      /\ bgHead + 1 \in 1 .. Len(bgLog)
  BY BgAddFresh DEF IInv
<1>4. Elems(sinks') = Elems(sinks) \cup {h}
  BY <1>1, <1>2, <1>3, AppendElems DEF TypeOK
<1>5. ~NotWaiting(h)
  <2>1. bgHead + 1 \in bgHead + 1 .. Len(bgLog) BY <1>2, <1>3 DEF TypeOK
  <2>2. QED BY <1>3, <2>1 DEF NotWaiting
<1>6. HeldByClient(h) BY <1>3, <1>5 DEF Awaited, HeldByClient
<1>7. ASSUME NEW s \in Sinks PROVE Alive(s)' = Alive(s)
  <2>1. CASE s = h BY <1>1, <1>6, <2>1 DEF Alive, HeldByClient
  <2>2. CASE s # h BY <1>1, <1>4, <2>2 DEF Alive, HeldByClient
  <2>3. QED BY <2>1, <2>2
<1>8. QED BY <1>1, <1>7, SinkUntouched DEF Owned

\* A sink's thread ends with the quit task, when nothing is left in the queue.
LEMMA SinkStepOwned ==
  ASSUME IInv, Owned, NEW h \in Sinks,
         SinkRun(h) \/ SinkFatalCheck(h) \/ SinkFatalSave(h)
  PROVE  Owned'
<1>1. TypeOK BY DEF IInv, TypeInv
<1>2. UNCHANGED <<sinks, held, sinkLog, joining>>
  BY DEF SinkRun, SinkFatalCheck, SinkFatalSave, clientVars, bgVars
<1>3. \A s \in Sinks \ {h} : sinkPc'[s] = sinkPc[s] /\ sinkHead'[s] = sinkHead[s]
  BY <1>1 DEF SinkRun, SinkFatalCheck, SinkFatalSave, TypeOK
<1>4. \A s \in Sinks : Alive(s)' = Alive(s) BY <1>2 DEF Alive, HeldByClient
<1>5. OneSink(h) BY DEF Owned
<1>6. CASE SinkRun(h) /\ NextEntry(h).op = "done"
  <2>1. /\ sinkPc[h] = "run" /\ sinkPc'[h] = "exited"
        /\ sinkHead'[h] = sinkHead[h] + 1
        /\ sinkHead[h] < Len(sinkLog[h])
    BY <1>1, <1>6 DEF SinkRun, HasEntry, TypeOK
  <2>2. sinkHead[h] + 1 \in DOMAIN sinkLog[h] /\ sinkLog[h] \in Seq(SinkTask)
    BY <1>1, <2>1 DEF TypeOK
  <2>3. NextEntry(h) \in SinkTask BY <2>2 DEF NextEntry
  <2>4. NextEntry(h) = DoneEntry BY <1>6, <2>3 DEF SinkTask, DoneEntry
  <2>5. sinkHead[h] + 1 = Len(sinkLog[h]) /\ HasQuit(h)
    BY <1>5, <2>2, <2>4 DEF OneSink, HasQuit, NextEntry
  <2>6. HasQuit(h)' /\ ~Alive(h)' BY <1>2, <1>4, <1>5, <2>1, <2>5 DEF OneSink, HasQuit
  <2>7. OneSink(h)' BY <1>2, <1>5, <2>1, <2>5, <2>6 DEF OneSink
  <2>8. QED BY <1>2, <1>3, <1>4, <2>7, SinkUntouched DEF Owned
<1>7. CASE ~(SinkRun(h) /\ NextEntry(h).op = "done")
  <2>1. /\ sinkPc[h] \notin {"none", "exited"} /\ sinkPc'[h] \notin {"none", "exited"}
    BY <1>1, <1>7 DEF SinkRun, SinkFatalCheck, SinkFatalSave, TypeOK
  <2>2. OneSink(h)' BY <1>2, <1>4, <1>5, <2>1, SinkUntouched
  <2>3. QED BY <1>2, <1>3, <1>4, <2>2, SinkUntouched DEF Owned
<1>8. QED BY <1>6, <1>7

LEMMA JoinedOwned ==
  ASSUME IInv, Owned, NEW t \in Destroyers, Joined(t)
  PROVE  Owned'
<1>1. /\ joining[t] # None /\ sinkPc[joining[t]] = "exited"
      /\ joining' = [joining EXCEPT ![t] = None]
      /\ UNCHANGED <<sinks, held, sinkLog, sinkHead, sinkPc>>
  BY DEF Joined, clientVars, bgVars, sinkVars
<1>2. \A u \in Destroyers : joining'[u] = IF u = t THEN None ELSE joining[u]
  BY <1>1 DEF IInv, TypeInv, TypeOK
<1>3. None \notin Sinks BY ThreadsAssumption
<1>4. ASSUME NEW s \in Sinks PROVE OneSink(s)'
  <2>1. OneSink(s) /\ Alive(s)' = Alive(s) BY <1>1 DEF Owned, Alive, HeldByClient
  <2>2. CASE joining[t] = s
    <3>1. HasQuit(s)' = HasQuit(s) BY <1>1 DEF HasQuit
    <3>2. sinkPc[s] = "exited" BY <1>1, <2>2
    <3>3. \A u \in Destroyers : joining'[u] # s
      BY <1>2, <1>3, <2>1, <2>2 DEF OneSink
    <3>4. QED BY <1>1, <2>1, <3>1, <3>2, <3>3 DEF OneSink
  <2>3. CASE joining[t] # s
    <3>1. \A u \in Destroyers : joining'[u] = s <=> joining[u] = s
      BY <1>2, <1>3, <2>3
    <3>2. QED BY <1>1, <2>1, <3>1, SinkUntouched
  <2>4. QED BY <2>2, <2>3
<1>5. QED BY <1>4 DEF Owned

LEMMA OwnedStep ==
  ASSUME IInv, Owned, Busy, Awaited, [Next]_vars
  PROVE  Owned'
<1>1. CASE UNCHANGED <<sinks, held, sinkLog, sinkHead, sinkPc, joining>>
  <2>1. \A s \in Sinks : Alive(s)' = Alive(s) BY <1>1 DEF Alive, HeldByClient
  <2>2. QED BY <1>1, <2>1, SinkUntouched DEF Owned
<1>2. CASE BgDestroy BY <1>2, DestroyOwned DEF BgDestroy
<1>3. CASE OwnerDestroy BY <1>3, DestroyOwned DEF OwnerDestroy
<1>4. QED
  BY <1>1, <1>2, <1>3, OwnedSteps, CallSendOwned, DropOwned, AddSinkOwned,
     CallLockOwned, SinkStepOwned, BgSendOwned, BgAddOwned, JoinedOwned

-----------------------------------------------------------------------------
(* Who is busy with what *)

\* The steps that touch what Busy speaks of.
LEMMA BusySteps ==
  ASSUME [Next]_vars
  PROVE  \/ UNCHANGED <<pc, held, joining, owner>>
         \/ \E c \in Clients :
              \/ LogCheck(c) \/ FatalCheck(c) \/ LogSave(c) \/ FatalSave(c)
              \/ AddTest(c) \/ AddSend(c) \/ AddWait(c) \/ CallSend(c) \/ Drop(c) \/ CallWait(c)
              \/ \E s \in Sinks : AddSink(c, s) \/ CallLock(c, s)
         \/ BgDestroy \/ OwnerShutdown \/ OwnerClear \/ OwnerReset \/ OwnerJoin
         \/ OwnerDestroy \/ OwnerFreed
         \/ \E t \in Destroyers : Joined(t)
BY DEF Next, Step, ClientStart, ClientContinue, SinkStep, BgStep, OwnerContinue, vars,
  clientVars, Destroyers, SinkRun, SinkFatalCheck, SinkFatalSave, BgSave, BgFatal,
  BgSend, BgSent, BgAdd, BgClear, BgCleared, BgExit, BgDone

LEMMA BusyStep ==
  ASSUME TypeInv, Busy, [Next]_vars
  PROVE  Busy'
<1>1. TypeOK BY DEF TypeInv
<1>2. /\ {Bg, Owner} \cap Clients = {} /\ None \notin Sinks /\ Bg # Owner
      /\ Owner \in Destroyers /\ Clients \subseteq Destroyers
  BY ThreadsAssumption DEF Bg, Owner, Destroyers
<1>3. CASE UNCHANGED <<pc, held, joining, owner>> BY <1>3 DEF Busy
<1>4. ASSUME NEW c \in Clients,
             \/ LogCheck(c) \/ FatalCheck(c) \/ LogSave(c) \/ FatalSave(c)
             \/ AddTest(c) \/ AddSend(c) \/ AddWait(c) \/ CallSend(c) \/ CallWait(c)
             \/ \E s \in Sinks : AddSink(c, s) \/ CallLock(c, s)
      PROVE  Busy'
  <2>1. /\ UNCHANGED <<joining, owner>>
        /\ \A d \in Clients \ {c} : pc'[d] = pc[d] /\ held'[d] = held[d]
    BY <1>1, <1>4 DEF LogCheck, FatalCheck, LogSave, FatalSave, AddTest, AddSend, AddWait,
       CallSend, CallWait, AddSink, CallLock, Begin, clientVars, TypeOK
  <2>2. joining[c] # None => pc'[c] \in {"idle", "callWait"}
    BY <1>1, <1>4 DEF Busy, LogCheck, FatalCheck, LogSave, FatalSave, AddTest, AddSend, AddWait,
       CallSend, CallWait, AddSink, CallLock, Ready, Begin, TypeOK
  <2>3. held'[c] # None => pc'[c] \in {"addTest", "addSend", "addWait", "callSend", "drop"}
    BY <1>1, <1>4 DEF Busy, LogCheck, FatalCheck, LogSave, FatalSave, AddTest, AddSend, AddWait,
       CallSend, CallWait, AddSink, CallLock, Ready, Begin, clientVars, TypeOK
  <2>4. QED BY <2>1, <2>2, <2>3 DEF Busy
<1>5. ASSUME NEW c \in Clients, Drop(c) PROVE Busy'
  <2>1. /\ UNCHANGED owner
        /\ \A d \in Clients \ {c} : pc'[d] = pc[d] /\ held'[d] = held[d]
        /\ pc'[c] \in {"idle", "callWait"} /\ held'[c] = None
    BY <1>1, <1>5 DEF Drop, TypeOK
  <2>2. \A u \in Destroyers \ {c} : joining'[u] = joining[u]
    BY <1>1, <1>5 DEF Drop, Release, TypeOK
  <2>3. QED BY <1>2, <2>1, <2>2 DEF Busy
<1>6. CASE BgDestroy \/ OwnerDestroy
  <2>1. UNCHANGED <<pc, held, owner>>
    BY <1>6 DEF BgDestroy, OwnerDestroy, DestroyFirst, clientVars
  <2>2. \A u \in Clients : joining'[u] = joining[u]
    BY <1>1, <1>2, <1>6 DEF BgDestroy, OwnerDestroy, DestroyFirst, Release, TypeOK
  <2>3. joining'[Owner] = joining[Owner] \/ owner = "dropSinks"
    BY <1>1, <1>2, <1>6 DEF BgDestroy, OwnerDestroy, DestroyFirst, Release, TypeOK
  <2>4. QED BY <2>1, <2>2, <2>3 DEF Busy
<1>7. CASE OwnerShutdown \/ OwnerClear \/ OwnerReset \/ OwnerJoin \/ OwnerFreed
  BY <1>7 DEF Busy, OwnerShutdown, OwnerClear, OwnerReset, OwnerJoin, OwnerFreed, clientVars
<1>8. ASSUME NEW t \in Destroyers, Joined(t) PROVE Busy'
  <2>1. /\ UNCHANGED <<pc, held, owner>>
        /\ \A u \in Destroyers : joining'[u] # None => joining'[u] = joining[u]
    BY <1>1, <1>8 DEF Joined, clientVars, TypeOK
  <2>2. QED BY <1>2, <2>1 DEF Busy
<1>9. QED BY <1>3, <1>4, <1>5, <1>6, <1>7, <1>8, BusySteps

-----------------------------------------------------------------------------
(* addSink waits for its task *)

\* What the worker's thread has still to run of the queue.
LEMMA WaitingQueued ==
  ASSUME TypeInv, NEW s \in Sinks, NotQueued(s)
  PROVE  NotWaiting(s)
BY DEF TypeInv, TypeOK, NotQueued, NotWaiting

\* A task that waits after a step waited before it, or was just sent.
LEMMA WaitingBefore ==
  ASSUME TypeInv, [Next]_vars, NEW s \in Sinks, ~NotWaiting(s)'
  PROVE  \/ ~NotWaiting(s)
         \/ \E c \in Clients :
              AddSend(c) /\ QueueGrows(Task("add", held[c])) /\ held[c] = s
<1>1. PICK i \in bgHead' + 1 .. Len(bgLog') : bgLog'[i] = Task("add", s)
  BY DEF NotWaiting
<1>2. TypeOK /\ bgHead \in Nat /\ bgHead' \in Nat /\ bgHead <= bgHead'
  <2>1. bgHead' \in Nat /\ bgHead <= bgHead' BY HeadSteps
  <2>2. TypeOK BY DEF TypeInv
  <2>3. bgHead \in Nat BY <2>2 DEF TypeOK
  <2>4. QED BY <2>1, <2>2, <2>3
<1>3. bgLog' \in Seq(BgTask) /\ Len(bgLog) \in Nat /\ Len(bgLog') \in Nat
  <2>1. TypeInv' BY TypeStep
  <2>2. bgLog' \in Seq(BgTask) BY <2>1 DEF TypeInv, TypeOK
  <2>3. QED BY <1>2, <2>2 DEF TypeOK
<1>4. i \in Nat /\ i > bgHead /\ i \in DOMAIN bgLog'
  <2>1. DOMAIN bgLog' = 1 .. Len(bgLog') BY <1>3
  <2>2. i \in bgHead' + 1 .. Len(bgLog') BY <1>1
  <2>3. i \in Nat /\ i > bgHead /\ i \in 1 .. Len(bgLog') 
    <3>1. ASSUME NEW a \in Nat, NEW b \in Nat, NEW n \in Nat, a <= b, NEW j \in b + 1 .. n
          PROVE  j \in Nat /\ j > a /\ j \in 1 .. n
      BY <3>1
    <3>2. /\ bgHead \in Nat /\ bgHead' \in Nat /\ Len(bgLog') \in Nat
          /\ bgHead <= bgHead'
      BY <1>2, <1>3
    <3>3. QED BY <2>2, <3>1, <3>2
  <2>4. QED BY <2>1, <2>3
<1>5. i \in DOMAIN bgLog /\ bgLog[i] = bgLog'[i] => ~NotWaiting(s)
  <2>1. DOMAIN bgLog = 1 .. Len(bgLog) BY DEF TypeInv, TypeOK
  <2>2. QED BY <1>1, <1>2, <1>3, <1>4, <2>1 DEF NotWaiting
<1>6. CASE UNCHANGED bgLog BY <1>4, <1>5, <1>6
<1>7. CASE OwnerJoin
  <2>1. bgLog' = SubSeq(bgLog, 1, bgHead) /\ bgHead \in 0 .. Len(bgLog)
    BY <1>2, <1>7 DEF OwnerJoin, TypeOK
  <2>2. Len(bgLog') = bgHead BY <1>2, <2>1 DEF TypeOK
  <2>3. QED BY <1>1, <1>2, <1>4, <2>2
<1>8. CASE \E t \in BgTask : QueueGrows(t) /\ t.op # "add"
  <2>1. PICK t \in BgTask : QueueGrows(t) /\ t.op # "add" BY <1>8
  <2>2. Task("add", s).op = "add" BY DEF Task
  <2>3. QED BY <1>1, <1>4, <1>5, <2>1, <2>2, QueueGrowsAt
<1>9. CASE \E c \in Clients : AddSend(c) /\ QueueGrows(Task("add", held[c]))
  <2>1. PICK c \in Clients : AddSend(c) /\ QueueGrows(Task("add", held[c])) BY <1>9
  <2>2. Task("add", held[c]) = Task("add", s) => held[c] = s BY DEF Task
  <2>3. QED BY <1>1, <1>4, <1>5, <2>1, <2>2, QueueGrowsAt
<1>10. QED BY <1>6, <1>7, <1>8, <1>9, QueueSteps

\* The steps that touch the futures of addSink.
LEMMA FutureSteps ==
  ASSUME [Next]_vars
  PROVE  \/ UNCHANGED future
         \/ \E c \in Clients : AddTest(c) \/ AddSend(c) \/ CallSend(c)
         \/ \E c \in Clients, s \in Sinks : CallLock(c, s)
         \/ \E s \in Sinks : SinkRun(s)
         \/ BgAdd \/ BgCleared \/ OwnerClear \/ OwnerJoin
BY DEF Next, Step, ClientStart, ClientContinue, SinkStep, BgStep, OwnerContinue, vars,
  LogCheck, FatalCheck, LogSave, FatalSave, AddSink, AddWait, Drop, CallWait, Joined,
  SinkFatalCheck, SinkFatalSave, BgSave, BgFatal, BgSend, BgSent, BgClear, BgDestroy,
  DestroyFirst, BgExit, BgDone, OwnerShutdown, OwnerReset, OwnerDestroy, OwnerFreed

\* Only these steps answer or fail addSink's call for s: the worker's Active is
\* found gone, its task is sent, is run, or dies with the queue.
LEMMA FutureKept ==
  ASSUME TypeInv, [Next]_vars, NEW s \in Sinks,
         \A c \in Clients : AddTest(c) \/ AddSend(c) => held[c] # s,
         BgAdd => bgLog[bgHead + 1].sink # s, ~OwnerJoin
  PROVE  future'[s] = future[s]
<1>1. TypeOK BY DEF TypeInv
<1>2. s \notin Clients /\ s # Owner BY ThreadsAssumption
<1>3. CASE UNCHANGED future BY <1>3
<1>4. CASE \E c \in Clients : AddTest(c) \/ AddSend(c) \/ CallSend(c)
  BY <1>1, <1>2, <1>4 DEF AddTest, AddSend, CallSend, TypeOK
<1>5. CASE \E c \in Clients, h \in Sinks : CallLock(c, h)
  BY <1>1, <1>2, <1>5 DEF CallLock, TypeOK
<1>6. ASSUME NEW h \in Sinks, SinkRun(h) PROVE future'[s] = future[s]
  <2>1. sinkHead[h] + 1 \in DOMAIN sinkLog[h] /\ sinkLog[h] \in Seq(SinkTask)
    BY <1>1, <1>6 DEF SinkRun, HasEntry, TypeOK
  <2>2. NextEntry(h) \in SinkTask BY <2>1 DEF NextEntry
  <2>3. NextEntry(h).op = "call" => NextEntry(h).arg \in Clients
    BY <2>2, EntryType
  <2>4. QED BY <1>1, <1>2, <1>6, <2>3 DEF SinkRun, TypeOK
<1>7. CASE BgAdd BY <1>1, <1>7 DEF BgAdd, TypeOK
<1>8. CASE BgCleared \/ OwnerClear BY <1>1, <1>2, <1>8 DEF BgCleared, OwnerClear, TypeOK
<1>9. QED BY <1>3, <1>4, <1>5, <1>6, <1>7, <1>8, FutureSteps

\* The worker's thread runs the only add task of a sink.
LEMMA AddedLeaves ==
  ASSUME TypeInv, AddOnce, BgAdd, NEW h \in Sinks, bgLog[bgHead + 1].sink = h
  PROVE  NotWaiting(h)'
<1>1. /\ bgHead' = bgHead + 1 /\ bgHead' \in 1 .. Len(bgLog)
      /\ bgLog[bgHead'] \in BgTask /\ bgLog[bgHead'].op = "add"
      /\ UNCHANGED bgLog
  BY PopType DEF BgAdd, TypeInv
<1>2. bgLog[bgHead'] = Task("add", h) BY <1>1, TaskType
<1>3. DOMAIN bgLog = 1 .. Len(bgLog) /\ Len(bgLog) \in Nat /\ bgHead \in Nat
  BY DEF TypeInv, TypeOK
<1>4. ASSUME NEW i \in bgHead' + 1 .. Len(bgLog) PROVE bgLog[i] # Task("add", h)
  <2>1. i \in DOMAIN bgLog /\ i # bgHead' /\ bgHead' \in DOMAIN bgLog
    BY <1>1, <1>3
  <2>2. QED BY <1>1, <1>2, <2>1 DEF AddOnce
<1>5. \A i \in bgHead' + 1 .. Len(bgLog') : bgLog'[i] # Task("add", h)
  BY <1>1, <1>4
<1>6. QED BY <1>5 DEF NotWaiting

\* A client that has sent an add task leaves addSink only with its answer.
LEMMA AwaitingKept ==
  ASSUME TypeInv, [Next]_vars, NEW c \in Clients, pc[c] = "addWait",
         future[held[c]] = "pending"
  PROVE  pc'[c] = "addWait" /\ held'[c] = held[c]
<1>1. TypeOK BY DEF TypeInv
<1>2. ASSUME NEW d \in Clients,
             \/ LogCheck(d) \/ FatalCheck(d) \/ LogSave(d) \/ FatalSave(d)
             \/ AddTest(d) \/ AddSend(d) \/ AddWait(d) \/ CallSend(d) \/ Drop(d) \/ CallWait(d)
             \/ \E s \in Sinks : AddSink(d, s) \/ CallLock(d, s)
      PROVE  pc'[c] = "addWait" /\ held'[c] = held[c]
  <2>1. d # c
    BY <1>2 DEF LogCheck, FatalCheck, LogSave, FatalSave, AddTest, AddSend, AddWait, CallSend,
       Drop, CallWait, AddSink, CallLock, Ready
  <2>2. pc'[c] = pc[c] /\ held'[c] = held[c]
    BY <1>1, <1>2, <2>1, ZenonT(40) DEF LogCheck, FatalCheck, LogSave, FatalSave, AddTest,
       AddSend, AddWait, CallSend, Drop, CallWait, AddSink, CallLock, Begin, clientVars, TypeOK
  <2>3. QED BY <2>2
<1>3. CASE UNCHANGED <<pc, held>> BY <1>3
<1>4. QED BY <1>2, <1>3, ClientSteps

LEMMA AwaitedStep ==
  ASSUME IInv, Awaited, [Next]_vars
  PROVE  Awaited'
<1>1. SUFFICES ASSUME NEW s \in Sinks, ~NotWaiting(s)'
               PROVE  /\ future'[s] = "pending"
                      /\ \E c \in Clients : pc'[c] = "addWait" /\ held'[c] = s
  BY DEF Awaited
<1>2. TypeInv /\ TypeOK BY DEF IInv, TypeInv
<1>3. ASSUME NEW c \in Clients, AddSend(c), QueueGrows(Task("add", held[c])), held[c] = s
      PROVE  /\ future'[s] = "pending"
             /\ \E d \in Clients : pc'[d] = "addWait" /\ held'[d] = s
  <2>1. bgLog' # bgLog
    <3>1. bgLog' = Append(bgLog, Task("add", held[c])) /\ Task("add", held[c]) \in BgTask
      BY <1>3 DEF QueueGrows
    <3>2. Len(bgLog') = Len(bgLog) + 1 /\ Len(bgLog) \in Nat
      BY <1>2, <3>1, AppendType DEF TypeOK
    <3>3. QED BY <3>2
  <2>2. pc'[c] = "addWait" /\ held'[c] = s /\ future'[s] = "pending"
    BY <1>2, <1>3, <2>1 DEF AddSend, TypeOK
  <2>3. QED BY <2>2
<1>4. CASE ~NotWaiting(s) /\ \A c \in Clients : AddSend(c) => held[c] # s
  <2>1. PICK c \in Clients : pc[c] = "addWait" /\ held[c] = s BY <1>4 DEF Awaited
  <2>2. future[s] = "pending" BY <1>4 DEF Awaited
  <2>3. BgAdd => bgLog[bgHead + 1].sink # s BY <1>1, <1>2, AddedLeaves DEF IInv
  <2>4. ~OwnerJoin
    <3>1. ASSUME OwnerJoin PROVE FALSE
      <4>1. Len(bgLog') = bgHead /\ bgHead' = bgHead /\ bgHead \in Nat
        BY <1>2, <3>1 DEF OwnerJoin, bgVars, TypeOK
      <4>2. bgHead' + 1 .. Len(bgLog') = {} BY <4>1
      <4>3. QED BY <1>1, <4>2 DEF NotWaiting
    <3>2. QED BY <3>1
  <2>5. future'[s] = "pending"
    <3>1. ASSUME NEW d \in Clients, AddTest(d) PROVE held[d] # s
      <4>1. NotQueued(held[d]) BY <3>1 DEF AddTest, IInv, AddFresh, Adding
      <4>2. QED BY <1>2, <1>4, <4>1, WaitingQueued
    <3>2. QED BY <1>2, <1>4, <2>2, <2>3, <2>4, <3>1, FutureKept
  <2>6. pc'[c] = "addWait" /\ held'[c] = s BY <1>2, <2>1, <2>2, AwaitingKept
  <2>7. QED BY <2>5, <2>6
<1>5. CASE \E c \in Clients : AddSend(c) /\ held[c] = s
  <2>1. PICK c \in Clients : AddSend(c) /\ held[c] = s BY <1>5
  <2>2. pc[c] = "addSend" BY <2>1 DEF AddSend
  <2>3. NotWaiting(s) BY <1>2, <2>1, <2>2, WaitingQueued DEF IInv, AddFresh, Adding
  <2>4. PICK d \in Clients : AddSend(d) /\ QueueGrows(Task("add", held[d])) /\ held[d] = s
    BY <1>1, <1>2, <2>3, WaitingBefore
  <2>5. QED BY <1>3, <2>4
<1>6. QED BY <1>1, <1>2, <1>3, <1>4, <1>5, WaitingBefore

-----------------------------------------------------------------------------
(* The clear task of ~LogWorker *)

LEMMA ClearingStep ==
  ASSUME TypeInv, Clearing, [Next]_vars
  PROVE  Clearing'
<1>1. TypeOK BY DEF TypeInv
<1>2. bgHead \in 1 .. bgHead => bgLog'[bgHead] = bgLog[bgHead] BY LogKept
<1>3. bgHead \in Nat BY <1>1 DEF TypeOK
<1>4. bgHead > 0 => bgLog'[bgHead] = bgLog[bgHead] BY <1>2, <1>3
<1>5. CASE UNCHANGED bgVars BY <1>4, <1>5 DEF Clearing, bgVars
<1>6. CASE BgClear
  <2>1. /\ bgHead' = bgHead + 1 /\ bgHead' \in 1 .. Len(bgLog)
        /\ bgLog[bgHead'].op = "clear" /\ UNCHANGED bgLog
    BY <1>1, <1>6, PopType DEF BgClear
  <2>2. bgHead' > 0 BY <1>3, <2>1
  <2>3. QED BY <2>1, <2>2 DEF Clearing
<1>7. CASE BgSave \/ BgFatal \/ BgSend \/ BgSent \/ BgAdd \/ BgCleared \/ BgDone
  BY <1>1, <1>7 DEF Clearing, BgSave, BgFatal, BgSend, BgSent, BgAdd, BgCleared, BgDone,
     Pop, TypeOK
<1>8. CASE BgDestroy \/ OwnerDestroy
  BY <1>4, <1>8 DEF Clearing, BgDestroy, OwnerDestroy, DestroyFirst
<1>9. QED BY <1>5, <1>6, <1>7, <1>8, BgVarsSteps

\* A sink that is not in _sinks, and that neither the worker's thread nor the
\* owner waits for, has run all it was sent, unless a client has it.
LEMMA Flushes ==
  ASSUME IInv, Owned, NEW s \in Sinks, regAt[s] # 0,
         s \notin Elems(sinks), joining[Bg] # s, joining[Owner] # s
  PROVE  Flushed(s) \/ InClientHands(s)
<1>1. sinkPc[s] # "none" BY AddedStarted
<1>2. OneSink(s) BY DEF Owned
<1>3. CASE Alive(s) BY <1>3 DEF Alive, InClientHands
<1>4. CASE ~Alive(s)
  <2>1. HasQuit(s) BY <1>1, <1>2, <1>4 DEF OneSink
  <2>2. CASE sinkPc[s] = "exited" BY <1>2, <2>2 DEF OneSink, Flushed
  <2>3. CASE sinkPc[s] # "exited"
    <3>1. PICK t \in Destroyers : joining[t] = s BY <1>2, <2>1, <2>3 DEF OneSink
    <3>2. t \in Clients BY <3>1 DEF Destroyers
    <3>3. QED BY <3>1, <3>2 DEF InClientHands
  <2>4. QED BY <2>2, <2>3
<1>5. QED BY <1>3, <1>4

\* A sink is added before the clear task after a step only if it was before.
LEMMA BeforeClearKept ==
  ASSUME IInv, [Next]_vars, NEW j \in 1 .. bgHead, bgLog[j].op = "clear",
         NEW s \in Sinks, AddedBeforeClear(s)'
  PROVE  AddedBeforeClear(s) /\ regAt'[s] = regAt[s]
<1>1. TypeInv /\ TypeOK BY DEF IInv, TypeInv
<1>2. \A i \in 1 .. bgHead : bgLog'[i] = bgLog[i] BY <1>1, LogKept
<1>3. CASE UNCHANGED regAt
  <2>1. regAt[s] # 0 => regAt[s] \in 1 .. bgHead BY DEF IInv, RegOK
  <2>2. \A i \in 1 .. regAt[s] - 1 : regAt[s] # 0 => i \in 1 .. bgHead
    BY <1>1, <2>1 DEF TypeOK
  <2>3. QED BY <1>2, <1>3, <2>2 DEF AddedBeforeClear
<1>4. CASE BgAdd /\ bgLog[bgHead + 1].sink # s
  <2>1. regAt'[s] = regAt[s] /\ UNCHANGED bgLog
    BY <1>1, <1>4 DEF BgAdd, TypeOK
  <2>2. QED BY <2>1 DEF AddedBeforeClear
<1>5. CASE BgAdd /\ bgLog[bgHead + 1].sink = s
  <2>1. regAt'[s] = bgHead + 1 /\ UNCHANGED bgLog
    BY <1>1, <1>5 DEF BgAdd, TypeOK
  <2>2. j \in 1 .. regAt'[s] - 1 BY <1>1, <2>1 DEF TypeOK
  <2>3. QED BY <2>1, <2>2 DEF AddedBeforeClear
<1>6. QED
  BY <1>3, <1>4, <1>5, BgVarsSteps DEF bgVars, BgSave, BgFatal, BgSend, BgSent, BgClear,
     BgDestroy, OwnerDestroy, DestroyFirst, BgCleared, BgDone

\* Only DestroyFirst makes one of these two threads wait.
LEMMA JoiningFrom ==
  ASSUME IInv, [Next]_vars, NEW t \in {Bg, Owner}, NEW s \in Sinks, joining'[t] = s
  PROVE  joining[t] = s \/ s \in Elems(sinks)
<1>1. TypeOK BY DEF IInv, TypeInv
<1>2. t \notin Clients /\ None \notin Sinks /\ t \in Destroyers
  BY ThreadsAssumption DEF Destroyers
<1>3. CASE UNCHANGED joining BY <1>3
<1>4. CASE \E c \in Clients : Drop(c)
  BY <1>1, <1>2, <1>4 DEF Drop, Release, TypeOK
<1>5. CASE \E u \in Destroyers : Joined(u)
  BY <1>1, <1>2, <1>5 DEF Joined, TypeOK
<1>6. ASSUME NEW u \in {Bg, Owner}, DestroyFirst(u)
      PROVE  joining[t] = s \/ s \in Elems(sinks)
  <2>1. Head(sinks) \in Elems(sinks)
    <3>1. sinks \in Seq(Sinks) /\ sinks # <<>> BY <1>1, <1>6 DEF TypeOK, DestroyFirst
    <3>2. QED BY <3>1, TailOnce DEF IInv, SinksOK
  <2>2. UNCHANGED joining \/ joining' = [joining EXCEPT ![u] = Head(sinks)]
    BY <1>6 DEF DestroyFirst, Release
  <2>3. QED BY <1>1, <1>2, <2>1, <2>2 DEF TypeOK
<1>7. QED
  BY <1>3, <1>4, <1>5, <1>6, OwnedSteps DEF CallSend, AddSink, CallLock, SinkRun,
     SinkFatalCheck, SinkFatalSave, BgSend, BgAdd, BgDestroy, OwnerDestroy

\* A sink enters _sinks with its add task only.
LEMMA MembersFrom ==
  ASSUME IInv, [Next]_vars, NEW s, s \in Elems(sinks')
  PROVE  s \in Elems(sinks) \/ (BgAdd /\ bgLog[bgHead + 1].sink = s)
<1>1. TypeInv /\ TypeOK BY DEF IInv, TypeInv
<1>2. CASE UNCHANGED sinks BY <1>2
<1>3. CASE BgDestroy \/ OwnerDestroy
  BY <1>1, <1>3, DestroyFirstIn DEF BgDestroy, OwnerDestroy, IInv
<1>4. CASE BgAdd
  <2>1. bgLog[bgHead + 1].sink \in Sinks BY <1>4, BgAddFresh DEF IInv
  <2>2. sinks' = Append(sinks, bgLog[bgHead + 1].sink) BY <1>4 DEF BgAdd, PushBack
  <2>3. QED BY <1>1, <1>4, <2>1, <2>2, AppendElems DEF TypeOK
<1>5. QED
  BY <1>2, <1>3, <1>4, BgVarsSteps DEF bgVars, BgSave, BgFatal, BgSend, BgSent, BgClear,
     BgCleared, BgDone

LEMMA ClearDoneStep ==
  ASSUME IInv, Busy, Clearing, ClearDone, [Next]_vars
  PROVE  ClearDone'
<1>1. TypeInv /\ TypeOK BY DEF IInv, TypeInv
<1>2. Bg \in Destroyers /\ Owner \in Destroyers /\ Owner \notin Clients \cup Sinks
  BY ThreadsAssumption DEF Destroyers
<1>3. SUFFICES ASSUME future'[Owner] = "set" PROVE ClearDone'
  BY DEF ClearDone
<1>4. ASSUME NEW j \in 1 .. bgHead, bgLog[j].op = "clear"
      PROVE  j \in 1 .. bgHead' /\ bgLog'[j].op = "clear"
  <2>1. bgLog'[j] = bgLog[j] BY <1>1, LogKept
  <2>2. bgHead' \in Nat /\ bgHead <= bgHead' BY <1>1, HeadSteps
  <2>3. bgHead \in Nat BY <1>1 DEF TypeOK
  <2>4. j \in 1 .. bgHead' BY <2>2, <2>3
  <2>5. QED BY <1>4, <2>1, <2>4
<1>5. CASE future[Owner] = "set"
  <2>1. PICK j \in 1 .. bgHead : bgLog[j].op = "clear" BY <1>5 DEF ClearDone
  <2>2. j \in 1 .. bgHead' /\ bgLog'[j].op = "clear" BY <1>4, <2>1
  <2>3. ASSUME NEW s \in Sinks, AddedBeforeClear(s)'
        PROVE  s \notin Elems(sinks') /\ joining'[Bg] # s /\ joining'[Owner] # s
    <3>1. AddedBeforeClear(s) /\ regAt'[s] = regAt[s] BY <2>1, <2>3, BeforeClearKept
    <3>2. s \notin Elems(sinks) /\ joining[Bg] # s /\ joining[Owner] # s
      BY <1>5, <3>1 DEF ClearDone
    <3>3. joining'[Bg] # s /\ joining'[Owner] # s BY <3>2, JoiningFrom
    <3>4. regAt[s] # 0 BY <3>1 DEF AddedBeforeClear
    <3>5. ~(BgAdd /\ bgLog[bgHead + 1].sink = s) BY <1>1, <3>4, BgAddFresh DEF IInv
    <3>6. s \notin Elems(sinks') BY <3>2, <3>5, MembersFrom
    <3>7. QED BY <3>3, <3>6
  <2>4. QED BY <2>2, <2>3 DEF ClearDone
<1>6. CASE future[Owner] # "set"
  <2>1. CASE BgCleared
    <3>1. /\ bgPc = "clear" /\ sinks' = <<>> /\ joining'[Bg] = None
          /\ UNCHANGED <<bgLog, bgHead, joining, owner>>
      BY <2>1 DEF BgCleared
    <3>2. bgHead \in 1 .. bgHead /\ bgLog[bgHead].op = "clear"
      BY <1>1, <3>1 DEF Clearing, TypeOK
    <3>3. joining'[Owner] = None BY <3>1 DEF Busy, IInv, ExitOK
    <3>4. Elems(sinks') = {} BY <3>1 DEF Elems
    <3>5. None \notin Sinks BY ThreadsAssumption
    <3>6. QED BY <1>4, <3>1, <3>2, <3>3, <3>4, <3>5 DEF ClearDone
  <2>2. CASE \E c \in Clients : AddTest(c) \/ AddSend(c) \/ CallSend(c)
    <3>1. PICK c \in Clients : AddTest(c) \/ AddSend(c) \/ CallSend(c) BY <2>2
    <3>2. held[c] # Owner
      BY <1>1, <1>2, <3>1 DEF TypeInv, HeldOK, AddTest, AddSend, CallSend
    <3>3. QED BY <1>1, <1>2, <1>3, <1>6, <3>1, <3>2 DEF AddTest, AddSend, CallSend, TypeOK
  <2>3. CASE \E c \in Clients, h \in Sinks : CallLock(c, h)
    BY <1>1, <1>2, <1>3, <1>6, <2>3 DEF CallLock, TypeOK
  <2>4. ASSUME NEW h \in Sinks, SinkRun(h) PROVE FALSE
    <3>1. sinkHead[h] + 1 \in DOMAIN sinkLog[h] /\ sinkLog[h] \in Seq(SinkTask)
      BY <1>1, <2>4 DEF SinkRun, HasEntry, TypeOK
    <3>2. NextEntry(h) \in SinkTask BY <3>1 DEF NextEntry
    <3>3. NextEntry(h).op = "call" => NextEntry(h).arg \in Clients
      BY <3>2, EntryType
    <3>4. QED BY <1>1, <1>2, <1>3, <1>6, <2>4, <3>3 DEF SinkRun, TypeOK
  <2>5. CASE BgAdd
    <3>1. bgLog[bgHead + 1].sink \in Sinks BY <2>5, BgAddFresh DEF IInv
    <3>2. QED BY <1>1, <1>2, <1>3, <1>6, <2>5, <3>1 DEF BgAdd, TypeOK
  <2>6. CASE OwnerClear \/ OwnerJoin
    BY <1>1, <1>3, <1>6, <2>6 DEF OwnerClear, OwnerJoin, TypeOK
  <2>7. CASE UNCHANGED future BY <1>3, <1>6, <2>7
  <2>8. QED BY <2>1, <2>2, <2>3, <2>4, <2>5, <2>6, <2>7, FutureSteps
<1>7. QED BY <1>5, <1>6

-----------------------------------------------------------------------------
(* The end of the process by a fatal event *)

LEMMA ProcSteps ==
  ASSUME [Next]_vars, proc' = "killedByBg"
  PROVE  (proc = "killedByBg" /\ UNCHANGED vars) \/ BgExit
BY ZenonT(40) DEF Next, Step, ClientStart, ClientContinue, SinkStep, BgStep, OwnerContinue, vars,
  LogCheck, FatalCheck, LogSave, FatalSave, AddSink, AddTest, AddSend, AddWait, CallLock, Ready,
  CallSend, Drop, CallWait, Joined, SinkRun, SinkFatalCheck, SinkFatalSave, Push, Pop,
  BgSave, BgFatal, BgSend, BgSent, BgAdd, BgClear, BgDestroy, DestroyFirst, BgCleared,
  BgExit, BgDone, OwnerShutdown, OwnerClear, OwnerReset, OwnerJoin, OwnerDestroy,
  OwnerFreed

\* bgFatal has emptied _sinks and waited for each sink it destroyed itself.
LEMMA FatalFlushesStep ==
  ASSUME IInv, Owned, Busy, FatalFlushes, [Next]_vars
  PROVE  FatalFlushes'
<1>1. SUFFICES ASSUME proc' = "killedByBg", NEW s \in Sinks, regAt'[s] # 0
               PROVE  Flushed(s)' \/ InClientHands(s)'
  BY DEF FatalFlushes
<1>2. CASE UNCHANGED vars /\ proc = "killedByBg"
  <2>1. regAt'[s] = regAt[s] /\ Flushed(s)' = Flushed(s)
        /\ InClientHands(s)' = InClientHands(s)
    BY <1>2 DEF vars, clientVars, bgVars, sinkVars, Flushed, InClientHands, HeldByClient
  <2>2. QED BY <1>1, <1>2, <2>1 DEF FatalFlushes
<1>3. CASE BgExit
  <2>1. /\ bgPc = "clearFatal" /\ sinks = <<>> /\ joining[Bg] = None
        /\ UNCHANGED <<sinkLog, held, sinkHead, sinkPc, joining, regAt>>
    BY <1>3 DEF BgExit, clientVars, bgVars, sinkVars
  <2>2. joining[Owner] = None BY <2>1 DEF Busy, IInv, ExitOK
  <2>3. s \notin Elems(sinks) BY <2>1 DEF Elems
  <2>4. None \notin Sinks BY ThreadsAssumption
  <2>5. Flushed(s) \/ InClientHands(s)
    BY <1>1, <2>1, <2>2, <2>3, <2>4, Flushes
  <2>6. QED BY <2>1, <2>5 DEF Flushed, InClientHands, HeldByClient
<1>4. QED BY <1>1, <1>2, <1>3, ProcSteps

-----------------------------------------------------------------------------
(* The theorems *)

LEMMA InitOInv == Init => OInv
<1> SUFFICES ASSUME Init PROVE OInv
  OBVIOUS
<1>1. IInv BY InitIInv
<1>2. None \notin Sinks BY ThreadsAssumption
<1>3. ASSUME NEW s \in Sinks PROVE OneSink(s)
  <2>1. ~Alive(s) BY <1>2 DEF Init, Alive, HeldByClient, Elems
  <2>2. ~HasQuit(s) BY DEF Init, HasQuit
  <2>3. \A t \in Destroyers : joining[t] # s BY <1>2 DEF Init
  <2>4. sinkPc[s] = "none" /\ sinkLog[s] = <<>> BY DEF Init
  <2>5. QED BY <2>1, <2>2, <2>3, <2>4 DEF OneSink
<1>4. Busy BY DEF Init, Busy, Destroyers
<1>5. Awaited BY DEF Init, Awaited, NotWaiting
<1>6. Clearing /\ ClearDone BY DEF Init, Clearing, ClearDone
<1>7. FatalFlushes BY DEF Init, FatalFlushes
<1>8. QED BY <1>1, <1>3, <1>4, <1>5, <1>6, <1>7 DEF OInv, Owned

LEMMA NextOInv == OInv /\ [Next]_vars => OInv'
<1> SUFFICES ASSUME OInv, [Next]_vars PROVE OInv'
  OBVIOUS
<1>1. /\ IInv /\ TypeInv
      /\ Owned /\ Busy /\ Awaited /\ Clearing /\ ClearDone /\ FatalFlushes
  BY DEF OInv, IInv
<1>2. IInv' BY <1>1, NextIInv
<1>3. Owned' BY <1>1, OwnedStep
<1>4. Busy' /\ Awaited' BY <1>1, BusyStep, AwaitedStep
<1>5. Clearing' /\ ClearDone' BY <1>1, ClearingStep, ClearDoneStep
<1>6. FatalFlushes' BY <1>1, FatalFlushesStep
<1>7. QED BY <1>2, <1>3, <1>4, <1>5, <1>6 DEF OInv

\* Who owns, destroys and waits for a sink stays consistent in every reachable
\* state, for any clients and sinks.
THEOREM OwnershipInvariant == Spec => []OInv
  BY InitOInv, NextOInv, PTL DEF Spec

\* Nothing is sent to a sink after its quit task (~Sink, ~Active, SinkHandle).
THEOREM QuitTaskIsLast == Spec => []QuitIsLast
<1>1. OInv => QuitIsLast BY OwnedParts DEF OInv
<1>2. QED BY <1>1, OwnershipInvariant, PTL

\* A sink is destroyed by one thread, when no other one owns it (the reference
\* counts of _sinks, of the frames and of SinkHandle).
THEOREM OneThreadDestroys == Spec => []OneDestroyer
<1>1. ASSUME OInv PROVE OneDestroyer
  <2>1. SUFFICES ASSUME NEW t \in Destroyers, joining[t] # None
                 PROVE  /\ \A u \in Destroyers \ {t} : joining[u] # joining[t]
                        /\ ~Alive(joining[t])
                        /\ HasQuit(joining[t])
    BY DEF OneDestroyer, HasQuit
  <2>2. PICK s : s = joining[t] OBVIOUS
  <2>3. s \in Sinks BY <1>1, <2>1, <2>2 DEF OInv, IInv, TypeInv, TypeOK
  <2>4. OneSink(s) BY <1>1, <2>3 DEF OInv, Owned
  <2>5. HasQuit(s) /\ \A u \in Destroyers \ {t} : joining[u] # s
    BY <2>2, <2>4 DEF OneSink
  <2>6. ~Alive(s) BY <2>4, <2>5 DEF OneSink
  <2>7. QED BY <2>2, <2>5, <2>6
<1>2. QED BY <1>1, OwnershipInvariant, PTL

\* When ~LogWorker has waited for its clear task, every sink added before has
\* run all it was sent, unless a client has it in its hands.
THEOREM ShutdownFlushesSinks == Spec => []ShutdownFlushes
<1>1. ASSUME OInv PROVE ShutdownFlushes
  <2>1. SUFFICES ASSUME future[Owner] = "set", NEW s \in Sinks, AddedBeforeClear(s)
                 PROVE  Flushed(s) \/ InClientHands(s)
    BY DEF ShutdownFlushes
  <2>2. s \notin Elems(sinks) /\ joining[Bg] # s /\ joining[Owner] # s
    BY <1>1, <2>1 DEF OInv, ClearDone
  <2>3. QED BY <1>1, <2>1, <2>2, Flushes DEF OInv, AddedBeforeClear
<1>2. QED BY <1>1, OwnershipInvariant, PTL

\* When bgFatal ends the process, every sink that was in _sinks has run all it
\* was sent, unless a client has it in its hands.
THEOREM FatalFlushesSinks == Spec => []FatalFlushes
<1>1. OInv => FatalFlushes BY DEF OInv
<1>2. QED BY <1>1, OwnershipInvariant, PTL

=============================================================================
