--------------------------- MODULE FrontEndProofs ---------------------------
(****************************************************************************)
(* Proofs about FrontEnd, for any threads, workers, owners and bounds.       *)
(****************************************************************************)
EXTENDS FrontEnd, TLAPS

Logging      == {"test", "save", "once", "edit"}
Destroying   == {"active", "compare", "free"}

\* The mutex is held behind the lock in initializeLogging, and as long as it is
\* held there and the test was passed, there is no logger.
Holding ==
  \A t \in Threads :
    /\ pc[t] \in {"first", "set", "exit", "stuck"} => mutex = t
    /\ pc[t] \in {"first", "set"} => instance = Null /\ arg[t] # Null

\* A log call has a message, a destructor a worker.  The worker a call is about
\* is alive and the thread's own.
Calling ==
  \A t \in Threads :
    /\ pc[t] \in Logging => msg[t] \in Nat
    /\ pc[t] \in Destroying => arg[t] # Null
    /\ pc[t] = "idle" => arg[t] = Null
    /\ arg[t] # Null => life[arg[t]] = "live" /\ Owner[arg[t]] = t

\* Once a destructor has seen another worker active, or has shut the logging
\* down, its own worker is not the active one.
PassedOver ==
  \A t \in Threads :
    pc[t] \in Logging \cup {"free"} /\ arg[t] # Null => instance # arg[t]

IInv == TypeOK /\ Holding /\ Calling /\ PassedOver /\ ActiveIsAlive

\* The program starts with no logger and no call.
LEMMA InitInv == ASSUME FrontEndAssumption, Init PROVE IInv
<1> USE FrontEndAssumption DEF FrontEndAssumption, Init
<1>1. TypeOK
  <2>1. queue \in [Workers -> Seq(Nat)]
    <3>1. <<>> \in Seq(Nat)  OBVIOUS
    <3> QED BY <3>1
  <2> QED BY <2>1 DEF TypeOK
<1>2. Holding         BY DEF Holding
<1>3. Calling         BY DEF Calling, Logging, Destroying
<1>4. PassedOver      BY DEF PassedOver, Logging
<1>5. ActiveIsAlive   BY DEF ActiveIsAlive
<1> QED BY <1>1, <1>2, <1>3, <1>4, <1>5 DEF IInv

\* Every step keeps the types: a thread that saves or keeps a message has one.
LEMMA TypeStep ==
  ASSUME FrontEndAssumption, IInv, [Next]_vars PROVE TypeOK'
<1> USE FrontEndAssumption DEF IInv, TypeOK, At, Goto, Return,
        logger, first, aux, counts, calling, FrontEndAssumption
<1>1. CASE UNCHANGED vars
  BY <1>1 DEF vars
<1>2. ASSUME NEW t \in Threads, Starts(t) PROVE TypeOK'
  <2>1. CASE Log(t)            BY <2>1 DEF Log
  <2>2. ASSUME NEW w \in Workers, Create(t, w) PROVE TypeOK'
    BY <2>2 DEF Create, Begin
  <2>3. CASE InitializeLogging(t) BY <2>3 DEF InitializeLogging, Call, Begin
  <2>4. CASE ShutDown(t)       BY <2>4 DEF ShutDown, Call, Begin
  <2>5. CASE Destroy(t)        BY <2>5 DEF Destroy, Call, Begin
  <2> QED BY <1>2, <2>1, <2>2, <2>3, <2>4, <2>5 DEF Starts
<1>3. ASSUME NEW t \in Threads, Goes(t) PROVE TypeOK'
  <2>1. CASE Test(t)           BY <2>1 DEF Test
  <2>2. CASE Save(t)
    <3>1. queue' \in [Workers -> Seq(Nat)]
      <4>1. CASE instance = Null  BY <2>2, <4>1 DEF Save
      <4>2. CASE instance # Null
        <5>1. msg[t] \in Nat /\ instance \in Workers  BY <2>2, <4>2 DEF Save, Calling, Logging
        <5>2. Append(queue[instance], msg[t]) \in Seq(Nat)  BY <5>1
        <5> QED BY <2>2, <4>2, <5>1, <5>2 DEF Save
      <4> QED BY <4>1, <4>2
    <3> QED BY <2>2, <3>1 DEF Save
  <2>3. CASE KeepFirst(t)      BY <2>3 DEF KeepFirst, Calling, Logging
  <2>4. CASE EditKept(t)       BY <2>4 DEF EditKept
  <2>5. CASE DropLater(t)      BY <2>5 DEF DropLater
  <2>6. CASE Install(t)        BY <2>6 DEF Install
  <2>7. CASE SaveFirst(t)
    <3>1. queue' \in [Workers -> Seq(Nat)]
      <4>1. CASE ~ saving /\ kept # Null
        <5>1. kept \in Nat /\ arg[t] \in Workers
          BY <2>7, <4>1 DEF SaveFirst, Holding
        <5>2. Append(queue[arg[t]], kept) \in Seq(Nat)  BY <5>1
        <5>3. queue' = [queue EXCEPT ![arg[t]] = Append(@, kept)]
          BY <2>7, <4>1 DEF SaveFirst
        <5> QED BY <5>1, <5>2, <5>3
      <4>2. CASE ~ (~ saving /\ kept # Null)  BY <2>7, <4>2 DEF SaveFirst
      <4> QED BY <4>1, <4>2
    <3> QED BY <2>7, <3>1 DEF SaveFirst
  <2>8. CASE SetInstance(t)    BY <2>8 DEF SetInstance
  <2>9. CASE Exit(t)           BY <2>9 DEF Exit
  <2>10. CASE IsActive(t)      BY <2>10 DEF IsActive
  <2>11. CASE Compare(t)
    <3>1. CASE instance = arg[t]   BY <2>11, <3>1 DEF Compare
    <3>2. CASE instance # arg[t]
      <4>1. sent' \in Nat /\ msg' = [msg EXCEPT ![t] = sent']
        BY <2>11, <3>2 DEF Compare
      <4>2. msg' \in [Threads -> Nat \cup {Null}]  BY <4>1
      <4> QED BY <2>11, <3>2, <4>1, <4>2 DEF Compare
    <3> QED BY <3>1, <3>2
  <2>12. CASE Free(t)          BY <2>12 DEF Free
  <2> QED BY <1>3, <2>1, <2>2, <2>3, <2>4, <2>5, <2>6, <2>7, <2>8, <2>9, <2>10,
             <2>11, <2>12 DEF Goes
<1>4. ASSUME NEW t \in Threads, Takes(t) PROVE TypeOK'
  <2>1. CASE LockAndTest(t)    BY <2>1 DEF LockAndTest
  <2>2. CASE ClearInstance(t)  BY <2>2 DEF ClearInstance
  <2> QED BY <1>4, <2>1, <2>2 DEF Takes
<1> QED BY <1>1, <1>2, <1>3, <1>4 DEF Next

\* What a step of a thread leaves alone: the other threads.
LEMMA OthersStay ==
  ASSUME IInv, NEW t \in Threads, Starts(t) \/ Goes(t) \/ Takes(t),
         NEW u \in Threads, u # t
  PROVE  pc'[u] = pc[u] /\ arg'[u] = arg[u] /\ msg'[u] = msg[u]
<1> USE DEF IInv, TypeOK, At, Goto, Return, calling
<1>1. CASE Starts(t)
  BY <1>1 DEF Starts, Log, Create, InitializeLogging, ShutDown, Destroy, Call,
              Begin
<1>2. CASE Goes(t)
  BY <1>2 DEF Goes, Test, Save, KeepFirst, EditKept, DropLater, Install,
              SaveFirst, SetInstance, Exit, IsActive, Compare, Free
<1>3. CASE Takes(t)
  BY <1>3 DEF Takes, LockAndTest, ClearInstance
<1> QED BY <1>1, <1>2, <1>3

\* A thread that is not behind the lock does not release the mutex.
LEMMA HoldingStep ==
  ASSUME FrontEndAssumption, IInv, NEW t \in Threads,
         Starts(t) \/ Goes(t) \/ Takes(t)
  PROVE  Holding'
<1> USE FrontEndAssumption DEF IInv, TypeOK, At, Goto, Return, calling, logger,
        FrontEndAssumption
<1>1. \A u \in Threads \ {t} : pc'[u] = pc[u] /\ arg'[u] = arg[u]
  BY OthersStay
<1>2. CASE Starts(t)
  BY <1>1, <1>2 DEF Holding, Starts, Log, Create, InitializeLogging, ShutDown,
                    Destroy, Call, Begin
<1>3. CASE SetInstance(t)
  <2>1. mutex = t /\ pc' [t] = "idle"  BY <1>3 DEF SetInstance, Holding
  <2>2. \A u \in Threads \ {t} :
          pc[u] \notin {"first", "set", "exit", "stuck"}  BY <2>1 DEF Holding
  <2> QED BY <1>1, <2>1, <2>2 DEF Holding
<1>4. CASE Goes(t) /\ ~ SetInstance(t)
  <2>1. mutex' = mutex /\ instance' = instance
    BY <1>4 DEF Goes, Test, Save, KeepFirst, EditKept, DropLater, Install,
                SaveFirst, Exit, IsActive, Compare, Free
  <2>2. /\ pc'[t] \in {"first", "set", "exit", "stuck"} =>
             pc[t] \in {"first", "set", "exit", "stuck"}
        /\ pc'[t] \in {"first", "set"} =>
             pc[t] \in {"first", "set"} /\ arg'[t] = arg[t]
    BY <1>4 DEF Goes, Test, Save, KeepFirst, EditKept, DropLater, Install,
                SaveFirst, Exit, IsActive, Compare, Free
  <2> QED BY <1>1, <2>1, <2>2 DEF Holding
<1>5. CASE LockAndTest(t)
  BY <1>1, <1>5 DEF LockAndTest, Holding
<1>6. CASE ClearInstance(t)
  BY <1>1, <1>6 DEF ClearInstance, Holding
<1> QED BY <1>2, <1>3, <1>4, <1>5, <1>6 DEF Takes

\* Only its owner destroys a worker, and not while a call of it is about one.
LEMMA CallingStep ==
  ASSUME FrontEndAssumption, IInv, NEW t \in Threads,
         Starts(t) \/ Goes(t) \/ Takes(t)
  PROVE  Calling'
<1> USE FrontEndAssumption DEF IInv, TypeOK, At, Goto, Return, calling, logger,
        FrontEndAssumption, Logging, Destroying
<1>1. \A u \in Threads \ {t} :
        pc'[u] = pc[u] /\ arg'[u] = arg[u] /\ msg'[u] = msg[u]
  BY OthersStay
<1>2. \A u \in Threads \ {t} :
        arg[u] # Null => life'[arg[u]] = "live" /\ Owner[arg[u]] = u
  <2>1. CASE Free(t)  BY <2>1 DEF Free, Calling
  <2>2. CASE \E w \in Workers : Create(t, w)  BY <2>2 DEF Create, Calling
  <2>3. CASE life' = life  BY <2>3 DEF Calling
  <2>4. Free(t) \/ (\E w \in Workers : Create(t, w)) \/ life' = life
    BY DEF Starts, Log, InitializeLogging, ShutDown, Destroy, Call, Begin,
           Goes, Test, Save, KeepFirst, EditKept, DropLater, Install, SaveFirst,
           SetInstance, Exit, IsActive, Compare, Takes, LockAndTest,
           ClearInstance
  <2> QED BY <2>1, <2>2, <2>3, <2>4
<1> DEFINE OwnCall ==
      /\ pc'[t] \in Logging => msg'[t] \in Nat
      /\ pc'[t] \in Destroying => arg'[t] # Null
      /\ pc'[t] = "idle" => arg'[t] = Null
      /\ arg'[t] # Null => life'[arg'[t]] = "live" /\ Owner[arg'[t]] = t
<1>3. OwnCall
  <2>1. CASE Log(t)  BY <2>1 DEF Log, Calling
  <2>2. CASE \E w \in Workers : Create(t, w)
    BY <2>2 DEF Create, Begin, Calling
  <2>3. CASE InitializeLogging(t)
    BY <2>3 DEF InitializeLogging, Call, Begin, Calling
  <2>4. CASE ShutDown(t) \/ Destroy(t)
    BY <2>4 DEF ShutDown, Destroy, Call, Begin, Calling
  <2>5. CASE Test(t) \/ Save(t) \/ KeepFirst(t) \/ EditKept(t) \/ DropLater(t)
    BY <2>5 DEF Test, Save, KeepFirst, EditKept, DropLater, Calling
  <2>6. CASE Install(t) \/ SaveFirst(t) \/ SetInstance(t) \/ Exit(t)
    BY <2>6 DEF Install, SaveFirst, SetInstance, Exit, Calling
  <2>7. CASE IsActive(t)  BY <2>7 DEF IsActive, Calling
  <2>8. CASE Compare(t)   BY <2>8 DEF Compare, Calling
  <2>9. CASE Free(t)      BY <2>9 DEF Free, Calling
  <2>10. CASE Takes(t)    BY <2>10 DEF Takes, LockAndTest, ClearInstance, Calling
  <2> QED BY <2>1, <2>2, <2>3, <2>4, <2>5, <2>6, <2>7, <2>8, <2>9, <2>10
          DEF Starts, Goes
<1> QED BY <1>1, <1>2, <1>3 DEF Calling

\* Nobody but its owner makes a worker active, and the owner is in its
\* destructor.
LEMMA PassedOverStep ==
  ASSUME FrontEndAssumption, IInv, NEW t \in Threads,
         Starts(t) \/ Goes(t) \/ Takes(t)
  PROVE  PassedOver'
<1> USE FrontEndAssumption DEF IInv, TypeOK, At, Goto, Return, calling, logger,
        FrontEndAssumption, Logging
<1>1. \A u \in Threads \ {t} : pc'[u] = pc[u] /\ arg'[u] = arg[u]
  BY OthersStay
<1>2. CASE SetInstance(t)
  <2>1. instance' = arg[t] /\ arg[t] # Null /\ Owner[arg[t]] = t
    BY <1>2 DEF SetInstance, Holding, Calling
  <2>2. \A u \in Threads \ {t} : arg[u] # Null => instance' # arg[u]
    BY <2>1 DEF Calling
  <2>3. pc'[t] = "idle"  BY <1>2 DEF SetInstance
  <2> QED BY <1>1, <2>2, <2>3 DEF PassedOver
<1>3. CASE ClearInstance(t)
  BY <1>1, <1>3 DEF ClearInstance, PassedOver
<1>4. CASE instance' = instance
  <2>1. pc'[t] \in Logging \cup {"free"} /\ arg'[t] # Null =>
          instance # arg'[t]
    <3>1. CASE Starts(t)
      BY <3>1 DEF Starts, Log, Create, InitializeLogging, ShutDown, Destroy,
                  Call, Begin, Calling
    <3>2. CASE Test(t) \/ Save(t) \/ KeepFirst(t) \/ EditKept(t) \/ DropLater(t)
      BY <3>2 DEF Test, Save, KeepFirst, EditKept, DropLater, PassedOver
    <3>3. CASE Install(t) \/ SaveFirst(t) \/ SetInstance(t) \/ Exit(t)
                 \/ IsActive(t) \/ Free(t)
      BY <3>3 DEF Install, SaveFirst, SetInstance, Exit, IsActive, Free
    <3>4. CASE Compare(t)  BY <3>4 DEF Compare
    <3>5. CASE Takes(t)
      BY <1>4, <3>5 DEF Takes, LockAndTest, ClearInstance
    <3> QED BY <3>1, <3>2, <3>3, <3>4, <3>5 DEF Goes
  <2> QED BY <1>1, <1>4, <2>1 DEF PassedOver
<1>5. SetInstance(t) \/ ClearInstance(t) \/ instance' = instance
  BY DEF Starts, Log, Create, InitializeLogging, ShutDown, Destroy, Call, Begin,
         Goes, Test, Save, KeepFirst, EditKept, DropLater, Install, SaveFirst,
         Exit, IsActive, Compare, Free, Takes, LockAndTest
<1> QED BY <1>2, <1>3, <1>4, <1>5

\* A worker dies in the hands of its owner, when it is not the active one.
LEMMA AliveStep ==
  ASSUME FrontEndAssumption, IInv, NEW t \in Threads,
         Starts(t) \/ Goes(t) \/ Takes(t)
  PROVE  ActiveIsAlive'
<1> USE FrontEndAssumption DEF IInv, TypeOK, At, Goto, Return, calling, logger,
        FrontEndAssumption
<1>1. CASE SetInstance(t)
  BY <1>1 DEF SetInstance, Holding, Calling, ActiveIsAlive
<1>2. CASE ClearInstance(t)
  BY <1>2 DEF ClearInstance, ActiveIsAlive
<1>3. CASE Free(t)
  <2>1. instance' = instance /\ arg[t] # Null /\ instance # arg[t]
    BY <1>3 DEF Free, Calling, PassedOver, Destroying, Logging
  <2> QED BY <1>3, <2>1 DEF Free, ActiveIsAlive
<1>4. CASE \E w \in Workers : Create(t, w)
  BY <1>4 DEF Create, ActiveIsAlive
<1>5. CASE instance' = instance /\ life' = life
  BY <1>5 DEF ActiveIsAlive
<1>6. \/ SetInstance(t) \/ ClearInstance(t) \/ Free(t)
      \/ \E w \in Workers : Create(t, w)
      \/ instance' = instance /\ life' = life
  BY DEF Starts, Log, InitializeLogging, ShutDown, Destroy, Call, Begin,
         Goes, Test, Save, KeepFirst, EditKept, DropLater, Install, SaveFirst,
         Exit, IsActive, Compare, Takes, LockAndTest
<1> QED BY <1>1, <1>2, <1>3, <1>4, <1>5, <1>6

\* The invariant is inductive.
LEMMA InvStep ==
  ASSUME FrontEndAssumption, IInv, [Next]_vars PROVE IInv'
<1>1. TypeOK'  BY TypeStep
<1>2. CASE UNCHANGED vars
  BY <1>2 DEF vars, logger, first, calling, counts, aux, IInv, TypeOK, Holding,
              Calling, PassedOver, ActiveIsAlive
<1>3. ASSUME NEW t \in Threads, Starts(t) \/ Goes(t) \/ Takes(t) PROVE IInv'
  <2>1. Holding'  BY <1>3, HoldingStep
  <2>2. Calling'  BY <1>3, CallingStep
  <2>3. PassedOver'  BY <1>3, PassedOverStep
  <2>4. ActiveIsAlive'  BY <1>3, AliveStep
  <2> QED BY <1>1, <2>1, <2>2, <2>3, <2>4 DEF IInv
<1> QED BY <1>2, <1>3 DEF Next

LEMMA Invariant == ASSUME FrontEndAssumption PROVE Spec => []IInv
<1>1. Init => IInv  BY InitInv
<1>2. IInv /\ [Next]_vars => IInv'  BY InvStep
<1> QED BY <1>1, <1>2, PTL DEF Spec

-----------------------------------------------------------------------------

\* Every variable keeps a value of its kind, under any number of threads that
\* log, initialize, shut down and destroy workers.
THEOREM TypeCorrect == ASSUME FrontEndAssumption PROVE Spec => []TypeOK
<1>1. IInv => TypeOK  BY DEF IInv
<1> QED BY <1>1, Invariant, PTL

\* g_logger_instance never points to a worker that has been destroyed, although
\* ~LogWorker tests and compares it without the mutex.
THEOREM ActiveWorkerIsAlive ==
  ASSUME FrontEndAssumption PROVE Spec => []ActiveIsAlive
<1>1. IInv => ActiveIsAlive  BY DEF IInv
<1> QED BY <1>1, Invariant, PTL

\* initializeLogging never replaces an active worker: between its test and its
\* assignment nobody else can write g_logger_instance.
THEOREM ActiveIsNotReplaced ==
  ASSUME FrontEndAssumption PROVE Spec => NeverReplaced
<1>1. IInv /\ [Next]_vars =>
        [instance # Null /\ instance' # Null => instance' = instance]_vars
  <2> SUFFICES ASSUME IInv, Next, instance # Null, instance' # Null
               PROVE  instance' = instance
    OBVIOUS
  <2>1. PICK t \in Threads : Starts(t) \/ Goes(t) \/ Takes(t)  BY DEF Next
  <2>2. ~ SetInstance(t)  BY DEF SetInstance, At, IInv, Holding
  <2>3. ~ ClearInstance(t)  BY DEF ClearInstance
  <2> QED
    BY <2>1, <2>2, <2>3
       DEF Starts, Log, Create, InitializeLogging, ShutDown, Destroy, Call,
           Begin, Goes, Test, Save, KeepFirst, EditKept, DropLater, Install,
           SaveFirst, Exit, IsActive, Compare, Free, Takes, LockAndTest, logger
<1> QED BY <1>1, Invariant, PTL DEF Spec, NeverReplaced

-----------------------------------------------------------------------------
(* The messages.  Each has a number of its own and is in one place: with the *)
(* thread that logs it, kept, or in one worker.                              *)

Carries(t) == pc[t] \in {"test", "save", "once"}

\* Message n is in no worker.
Unsaved(n) == \A w \in Workers : \A i \in 1 .. Len(queue[w]) : queue[w][i] # n

Once ==
  /\ oldest # Null => oldest <= sent
  /\ \A w \in Workers : \A i \in 1 .. Len(queue[w]) : queue[w][i] <= sent
  /\ \A v, w \in Workers :
       \A i \in 1 .. Len(queue[v]), j \in 1 .. Len(queue[w]) :
         queue[v][i] = queue[w][j] => v = w /\ i = j
  /\ \A t \in Threads : Carries(t) =>
       /\ msg[t] <= sent /\ msg[t] # oldest /\ Unsaved(msg[t])
       /\ \A u \in Threads : Carries(u) /\ msg[u] = msg[t] => u = t

OldestFirst ==
  \A w \in Workers : \A i \in 1 .. Len(queue[w]) : queue[w][i] = oldest => i = 1

\* Until the flag for saving it is used, the kept message stays where it is,
\* and there is neither a logger nor a saved message.
Kept ==
  /\ kept # Null => kept = oldest /\ Unsaved(kept)
  /\ keeping = "new" => oldest = Null
  /\ ~ saving => instance = Null /\ \A w \in Workers : queue[w] = <<>>
  /\ ~ saving /\ oldest # Null => kept = oldest
  /\ \A t \in Threads : pc[t] = "set" => saving

MInv == IInv /\ Once /\ OldestFirst /\ Kept /\ KeptIsSaved

LEMMA InitMessages == ASSUME FrontEndAssumption, Init PROVE MInv
<1>1. IInv  BY InitInv
<1>2. \A w \in Workers : queue[w] = <<>> /\ Len(queue[w]) = 0  BY DEF Init
<1>3. Once  BY <1>2 DEF Init, Once, Carries
<1>4. OldestFirst  BY <1>2 DEF OldestFirst
<1>5. Kept  BY <1>2 DEF Init, Kept
<1>6. KeptIsSaved  BY DEF Init, KeptIsSaved
<1> QED BY <1>1, <1>3, <1>4, <1>5, <1>6 DEF MInv

\* A step that saves nothing and logs nothing: a thread may only drop the
\* message it carries, and the instance is set only when saving is done.
LEMMA MessagesStay ==
  ASSUME FrontEndAssumption, MInv, UNCHANGED <<queue, oldest, kept, late, msg, sent>>,
         \A t \in Threads : Carries(t)' => Carries(t),
         keeping' = keeping \/ keeping' = "done",
         saving' = saving \/ (saving' = TRUE /\ kept = Null),
         instance' = instance \/ instance' = Null \/ saving,
         \A t \in Threads : pc'[t] = "set" => pc[t] = "set" \/ saving'
  PROVE  Once' /\ OldestFirst' /\ Kept' /\ KeptIsSaved'
<1> USE DEF MInv, IInv, TypeOK
<1>1. Once'
  BY DEF Once, Unsaved, Carries
<1>2. OldestFirst'  BY DEF OldestFirst
<1>3. Kept'  BY DEF Kept, Unsaved
<1>4. KeptIsSaved'
  <2>1. CASE saving' = saving  BY <2>1 DEF KeptIsSaved
  <2>2. CASE ~ saving /\ kept = Null  BY <2>2 DEF KeptIsSaved, Kept
  <2> QED BY <2>1, <2>2
<1> QED BY <1>1, <1>2, <1>3, <1>4

\* A log call: a new message.
LEMMA MessageIsNew ==
  ASSUME FrontEndAssumption, MInv, NEW t \in Threads,
         UNCHANGED <<instance, saving, queue, oldest, kept, late, keeping>>,
         sent' = sent + 1, msg' = [msg EXCEPT ![t] = sent + 1],
         pc' = [pc EXCEPT ![t] = "test"]
  PROVE  Once' /\ OldestFirst' /\ Kept' /\ KeptIsSaved'
<1> USE DEF MInv, IInv, TypeOK
<1>1. /\ \A u \in Threads \ {t} : msg'[u] = msg[u] /\ (Carries(u)' <=> Carries(u))
      /\ msg'[t] = sent + 1
  BY DEF Carries
<1>2. \A n : Unsaved(n)' <=> Unsaved(n)
  BY DEF Unsaved
<1>3. Unsaved(sent + 1) /\ oldest # sent + 1
  <2>1. \A w \in Workers : \A i \in 1 .. Len(queue[w]) : queue[w][i] \in Nat
    OBVIOUS
  <2>2. oldest # sent + 1
    BY FrontEndAssumption DEF Once, FrontEndAssumption
  <2> QED BY <2>1, <2>2 DEF Once, Unsaved
<1>4. \A u \in Threads : Carries(u) => msg[u] \in Nat /\ msg[u] # sent + 1
  BY DEF Once, Calling, Carries, Logging
<1>5. Once'
  <2>1. /\ (oldest # Null => oldest <= sent)'
        /\ (\A w \in Workers : \A i \in 1 .. Len(queue[w]) : queue[w][i] <= sent)'
        /\ (\A v, w \in Workers :
              \A i \in 1 .. Len(queue[v]), j \in 1 .. Len(queue[w]) :
                queue[v][i] = queue[w][j] => v = w /\ i = j)'
    <3>1. \A w \in Workers : \A i \in 1 .. Len(queue[w]) : queue[w][i] \in Nat
      OBVIOUS
    <3> QED BY <3>1 DEF Once
  <2>2. ASSUME NEW u \in Threads, Carries(u)'
        PROVE  /\ msg'[u] <= sent' /\ msg'[u] # oldest' /\ Unsaved(msg[u])'
               /\ \A v \in Threads : Carries(v)' /\ msg'[v] = msg'[u] => v = u
    <3>1. CASE u = t
      BY <1>1, <1>2, <1>3, <1>4, <2>2, <3>1
    <3>2. CASE u # t
      BY <1>1, <1>2, <1>3, <1>4, <2>2, <3>2 DEF Once
    <3> QED BY <3>1, <3>2
  <2> QED BY <2>1, <2>2 DEF Once
<1>6. OldestFirst'  BY DEF OldestFirst
<1>7. Kept'  BY <1>2 DEF Kept
<1>8. KeptIsSaved'  BY DEF KeptIsSaved
<1> QED BY <1>5, <1>6, <1>7, <1>8

\* What a worker holds after message n was saved in worker w.
LEMMA Appended ==
  ASSUME TypeOK, NEW w \in Workers, NEW n \in Nat,
         queue' = [queue EXCEPT ![w] = Append(@, n)]
  PROVE  /\ \A v \in Workers : Len(queue[v]) \in Nat
         /\ \A v \in Workers : \A i \in 1 .. Len(queue[v]) :
              queue[v][i] \in Nat /\ i \in 1 .. Len(queue'[v])
                /\ queue'[v][i] = queue[v][i]
         /\ \A v \in Workers : \A i \in 1 .. Len(queue'[v]) :
              \/ i \in 1 .. Len(queue[v]) /\ queue'[v][i] = queue[v][i]
              \/ v = w /\ i = Len(queue[w]) + 1 /\ queue'[v][i] = n
         /\ queue'[w] # <<>>
         /\ Head(queue'[w]) = IF queue[w] = <<>> THEN n ELSE Head(queue[w])
         /\ \A v \in Workers \ {w} : queue'[v] = queue[v]
<1>1. \A v \in Workers : queue[v] \in Seq(Nat)  BY DEF TypeOK
<1>2. queue'[w] = Append(queue[w], n) /\ \A v \in Workers \ {w} : queue'[v] = queue[v]
  BY DEF TypeOK
<1>3. /\ Len(queue'[w]) = Len(queue[w]) + 1
      /\ \A i \in 1 .. Len(queue[w]) + 1 :
           queue'[w][i] = IF i = Len(queue[w]) + 1 THEN n ELSE queue[w][i]
  BY <1>1, <1>2
<1>4. /\ queue'[w] # <<>>
      /\ Head(queue'[w]) = IF queue[w] = <<>> THEN n ELSE Head(queue[w])
  BY <1>1, <1>2
<1>5. ASSUME NEW v \in Workers
      PROVE  /\ \A i \in 1 .. Len(queue[v]) :
                  queue[v][i] \in Nat /\ i \in 1 .. Len(queue'[v])
                    /\ queue'[v][i] = queue[v][i]
             /\ \A i \in 1 .. Len(queue'[v]) :
                  \/ i \in 1 .. Len(queue[v]) /\ queue'[v][i] = queue[v][i]
                  \/ v = w /\ i = Len(queue[w]) + 1 /\ queue'[v][i] = n
  <2>1. CASE v = w  BY <1>1, <1>3, <2>1
  <2>2. CASE v # w  BY <1>1, <1>2, <2>2
  <2> QED BY <2>1, <2>2
<1> QED BY <1>1, <1>2, <1>4, <1>5

\* A message that is in no worker and that nobody else carries is saved.
LEMMA OnceSaved ==
  ASSUME TypeOK, Once, NEW w \in Workers, NEW n \in Nat,
         queue' = [queue EXCEPT ![w] = Append(@, n)],
         UNCHANGED <<oldest, msg, sent>>, n <= sent, Unsaved(n),
         \A u \in Threads : Carries(u)' => Carries(u) /\ msg[u] # n
  PROVE  Once'
<1>1. /\ \A v \in Workers : \A i \in 1 .. Len(queue'[v]) :
           \/ i \in 1 .. Len(queue[v]) /\ queue'[v][i] = queue[v][i]
           \/ v = w /\ i = Len(queue[w]) + 1 /\ queue'[v][i] = n
  BY Appended
<1>2. (oldest # Null => oldest <= sent)'  BY DEF Once
<1>3. \A v \in Workers : \A i \in 1 .. Len(queue'[v]) : queue'[v][i] <= sent'
  BY <1>1 DEF Once
<1>4. ASSUME NEW v \in Workers, NEW x \in Workers,
             NEW i \in 1 .. Len(queue'[v]), NEW j \in 1 .. Len(queue'[x]),
             queue'[v][i] = queue'[x][j]
      PROVE  v = x /\ i = j
  BY <1>1, <1>4 DEF Once, Unsaved
<1>5. ASSUME NEW u \in Threads, Carries(u)'
      PROVE  /\ msg'[u] <= sent' /\ msg'[u] # oldest' /\ Unsaved(msg[u])'
             /\ \A x \in Threads : Carries(x)' /\ msg'[x] = msg'[u] => x = u
  <2>1. Carries(u) /\ msg[u] # n  BY <1>5
  <2>2. Unsaved(msg[u])'
    BY <1>1, <2>1 DEF Once, Unsaved
  <2> QED BY <2>1, <2>2 DEF Once
<1> QED BY <1>2, <1>3, <1>4, <1>5 DEF Once

LEMMA SaveMessages ==
  ASSUME FrontEndAssumption, MInv, NEW t \in Threads, Save(t)
  PROVE  Once' /\ OldestFirst' /\ Kept' /\ KeptIsSaved'
<1> USE FrontEndAssumption DEF MInv, IInv, FrontEndAssumption
<1>1. /\ UNCHANGED <<instance, saving, oldest, kept, late, keeping, msg, sent>>
      /\ Carries(t) /\ pc[t] = "save"
  BY DEF Save, At, logger, first, counts, aux, Carries
<1>2. CASE instance = Null
  <2>1. UNCHANGED <<queue, pc>>  BY <1>2 DEF Save
  <2> QED BY <1>1, <2>1, MessagesStay DEF Carries
<1>3. CASE instance # Null
  <2>1. /\ instance \in Workers /\ msg[t] \in Nat /\ saving
        /\ queue' = [queue EXCEPT ![instance] = Append(@, msg[t])]
    BY <1>1, <1>3 DEF Save, TypeOK, Calling, Logging, Kept
  <2>2. /\ ~ Carries(t)' /\ pc'[t] # "set"
        /\ \A u \in Threads \ {t} : pc'[u] = pc[u]
    BY <1>3 DEF Save, Return, Goto, Carries, TypeOK
  <2>3. \A u \in Threads : Carries(u)' => Carries(u) /\ msg[u] # msg[t]
    BY <1>1, <2>2 DEF Carries, Once
  <2>4. Once'
    <3>1. msg[t] <= sent /\ Unsaved(msg[t])  BY <1>1 DEF Once
    <3> QED BY <1>1, <2>1, <2>3, <3>1, OnceSaved
  <2>5. OldestFirst'
    BY <1>1, <2>1, Appended DEF OldestFirst, Once
  <2>6. Kept'
    <3>1. kept # Null => kept # msg[t]
      BY <1>1 DEF Once, Kept
    <3>2. ASSUME kept # Null PROVE Unsaved(kept)'
      BY <1>1, <2>1, <3>1, <3>2, Appended DEF Kept, Unsaved
    <3> QED BY <1>1, <2>1, <2>2, <3>2 DEF Kept
  <2>7. KeptIsSaved'
    BY <1>1, <2>1, Appended DEF KeptIsSaved
  <2> QED BY <2>4, <2>5, <2>6, <2>7
<1> QED BY <1>2, <1>3

LEMMA KeepFirstMessages ==
  ASSUME FrontEndAssumption, MInv, NEW t \in Threads, KeepFirst(t)
  PROVE  Once' /\ OldestFirst' /\ Kept' /\ KeptIsSaved'
<1> USE FrontEndAssumption DEF MInv, IInv, TypeOK, FrontEndAssumption
<1>1. /\ UNCHANGED <<instance, saving, queue, msg, sent>>
      /\ pc[t] = "once" /\ keeping = "new" /\ keeping' = "running"
      /\ kept' = msg[t] /\ oldest' = msg[t] /\ late' = saving
      /\ Carries(t) /\ ~ Carries(t)' /\ pc'[t] # "set"
      /\ \A u \in Threads \ {t} : pc'[u] = pc[u]
  BY DEF KeepFirst, At, Goto, logger, counts, Carries
<1>2. msg[t] \in Nat /\ msg[t] <= sent /\ Unsaved(msg[t])
  BY <1>1 DEF Once, Calling, Logging
<1>3. Once'
  <2>1. \A u \in Threads : Carries(u)' => Carries(u) /\ msg[u] # msg[t]
    BY <1>1 DEF Carries, Once
  <2> QED BY <1>1, <1>2, <2>1 DEF Once, Unsaved
<1>4. OldestFirst'  BY <1>1, <1>2 DEF OldestFirst, Unsaved
<1>5. Kept'  BY <1>1, <1>2 DEF Kept, Unsaved
<1>6. KeptIsSaved'  BY <1>1, <1>2 DEF KeptIsSaved
<1> QED BY <1>3, <1>4, <1>5, <1>6

LEMMA SaveFirstMessages ==
  ASSUME FrontEndAssumption, MInv, NEW t \in Threads, SaveFirst(t)
  PROVE  Once' /\ OldestFirst' /\ Kept' /\ KeptIsSaved'
<1> USE FrontEndAssumption DEF MInv, IInv, FrontEndAssumption
<1>1. /\ UNCHANGED <<instance, oldest, late, keeping, msg, sent>> /\ saving' = TRUE
      /\ ~ Carries(t)' /\ \A u \in Threads \ {t} : pc'[u] = pc[u]
      /\ arg[t] \in Workers
  BY DEF SaveFirst, At, Goto, counts, aux, Carries, TypeOK, Holding
<1>2. CASE ~ saving /\ kept # Null
  <2>1. /\ queue' = [queue EXCEPT ![arg[t]] = Append(@, kept)] /\ kept' = Null
        /\ kept \in Nat /\ kept = oldest /\ Unsaved(kept)
        /\ \A w \in Workers : queue[w] = <<>> /\ Len(queue[w]) = 0
    BY <1>2 DEF SaveFirst, Kept, TypeOK
  <2>2. Once'
    <3>1. kept <= sent  BY <1>2, <2>1 DEF Once
    <3>2. \A u \in Threads : Carries(u)' => Carries(u) /\ msg[u] # kept
      BY <1>1, <2>1 DEF Carries, Once
    <3> QED BY <1>1, <2>1, <3>1, <3>2, OnceSaved
  <2>3. OldestFirst'
    BY <1>1, <2>1, Appended DEF OldestFirst
  <2>4. Kept'  BY <1>1, <2>1 DEF Kept
  <2>5. KeptIsSaved'
    <3>1. /\ queue'[arg[t]] # <<>>
          /\ Head(queue'[arg[t]]) =
               IF queue[arg[t]] = <<>> THEN kept ELSE Head(queue[arg[t]])
      <4>1. TypeOK  OBVIOUS
      <4>2. arg[t] \in Workers /\ kept \in Nat  BY <1>1, <2>1
      <4>3. queue' = [queue EXCEPT ![arg[t]] = Append(@, kept)]  BY <2>1
      <4> QED BY ONLY <4>1, <4>2, <4>3, Appended
    <3>2. queue[arg[t]] = <<>> /\ kept = oldest'  BY <1>1, <2>1
    <3> QED BY <1>1, <3>1, <3>2 DEF KeptIsSaved
  <2> QED BY <2>2, <2>3, <2>4, <2>5
<1>3. CASE ~ (~ saving /\ kept # Null)
  <2>1. UNCHANGED <<queue, kept>>  BY <1>3 DEF SaveFirst
  <2>2. saving' = saving \/ (saving' = TRUE /\ kept = Null)
    BY <1>1, <1>3 DEF TypeOK
  <2>3. \A u \in Threads : Carries(u)' => Carries(u)
    BY <1>1 DEF Carries
  <2> QED BY <1>1, <2>1, <2>2, <2>3, MessagesStay
<1> QED BY <1>2, <1>3

LEMMA MessagesStep ==
  ASSUME FrontEndAssumption, MInv, NEW t \in Threads,
         Starts(t) \/ Goes(t) \/ Takes(t)
  PROVE  Once' /\ OldestFirst' /\ Kept' /\ KeptIsSaved'
<1> USE FrontEndAssumption DEF At, Goto, calling, logger, first, counts, aux
<1>1. TypeOK  BY DEF MInv, IInv
<1>2. \A u \in Threads \ {t} : pc'[u] = pc[u]
  BY OthersStay DEF MInv
<1>3. CASE Log(t)
  BY <1>3, MessageIsNew DEF Log
<1>4. CASE Compare(t) /\ instance # arg[t]
  BY <1>4, MessageIsNew DEF Compare
<1>5. CASE Save(t) \/ KeepFirst(t) \/ SaveFirst(t)
  BY <1>5, SaveMessages, KeepFirstMessages, SaveFirstMessages
<1>6. CASE SetInstance(t)
  <2>1. /\ UNCHANGED <<queue, oldest, kept, late, msg, sent, keeping, saving>>
        /\ saving /\ pc'[t] = "idle"
    BY <1>1, <1>6 DEF SetInstance, MInv, Kept, TypeOK
  <2> QED BY <1>2, <2>1, MessagesStay DEF Carries
<1>7. CASE Compare(t) /\ instance = arg[t]
  <2>1. /\ UNCHANGED <<queue, oldest, kept, late, msg, sent, keeping, saving, instance>>
        /\ pc'[t] = "shut"
    BY <1>1, <1>7 DEF Compare, TypeOK
  <2> QED BY <1>2, <2>1, MessagesStay DEF Carries
<1>8. CASE Starts(t) /\ ~ Log(t)
  <2>1. /\ UNCHANGED <<queue, oldest, kept, late, msg, sent, keeping, saving, instance>>
        /\ pc'[t] \in {"idle", "install", "shut", "active"}
    BY <1>1, <1>8 DEF Starts, Create, InitializeLogging, ShutDown, Destroy, Call,
                      Begin, TypeOK
  <2> QED BY <1>2, <2>1, MessagesStay DEF Carries
<1>9. CASE Test(t) \/ EditKept(t) \/ DropLater(t) \/ Install(t) \/ Exit(t)
             \/ IsActive(t) \/ Free(t) \/ Takes(t)
  <2>1. /\ UNCHANGED <<queue, oldest, kept, late, msg, sent, saving>>
        /\ keeping' = keeping \/ keeping' = "done"
        /\ instance' = instance \/ instance' = Null
    BY <1>9 DEF Test, EditKept, DropLater, Install, Exit, IsActive, Free, Takes,
                LockAndTest, ClearInstance
  <2>2. (Carries(t)' => Carries(t)) /\ pc'[t] # "set"
    BY <1>1, <1>9 DEF Test, EditKept, DropLater, Install, Exit, IsActive, Free,
                      Takes, LockAndTest, ClearInstance, Return, TypeOK, Carries
  <2>3. \A u \in Threads : (Carries(u)' => Carries(u)) /\ (pc'[u] = "set" => pc[u] = "set")
    BY <1>2, <2>2 DEF Carries
  <2> QED BY <2>1, <2>3, MessagesStay
<1> QED BY <1>3, <1>4, <1>5, <1>6, <1>7, <1>8, <1>9 DEF Starts, Goes

LEMMA MessagesInvariant == ASSUME FrontEndAssumption PROVE Spec => []MInv
<1>1. Init => MInv  BY InitMessages
<1>2. ASSUME MInv, [Next]_vars PROVE MInv'
  <2>1. IInv'  BY <1>2, InvStep DEF MInv
  <2>2. CASE UNCHANGED vars
    BY <1>2, <2>1, <2>2 DEF vars, logger, first, calling, counts, aux, MInv, Once,
                OldestFirst, Kept, KeptIsSaved, Carries, Unsaved
  <2>3. ASSUME NEW t \in Threads, Starts(t) \/ Goes(t) \/ Takes(t) PROVE MInv'
    <3>1. Once' /\ OldestFirst' /\ Kept' /\ KeptIsSaved'
      BY <1>2, <2>3, MessagesStep
    <3> QED BY <2>1, <3>1 DEF MInv
  <2> QED BY <1>2, <2>2, <2>3 DEF Next
<1> QED BY <1>1, <1>2, PTL DEF Spec

\* No message is saved twice, in one worker or in two, and the one that was kept
\* from before there was a logger is the first in its worker.
THEOREM FirstMessageComesFirst ==
  ASSUME FrontEndAssumption PROVE Spec => []FirstComesFirst
<1>1. ASSUME MInv PROVE FirstComesFirst
  <2>1. \A w \in Workers : DOMAIN queue[w] = 1 .. Len(queue[w])
    BY <1>1 DEF MInv, IInv, TypeOK
  <2> QED BY <1>1, <2>1 DEF MInv, Once, OldestFirst, FirstComesFirst
<1> QED BY <1>1, MessagesInvariant, PTL

\* The message kept before the first initialization is not lost: it is still
\* kept, or the first one in a worker.
THEOREM KeptMessageIsSaved ==
  ASSUME FrontEndAssumption PROVE Spec => []KeptIsSaved
<1>1. MInv => KeptIsSaved  BY DEF MInv
<1> QED BY <1>1, MessagesInvariant, PTL
=============================================================================
