------------------------------ MODULE LogWorker ------------------------------
(****************************************************************************)
(* The heart of g3log: one LogWorker with its background thread, the sinks   *)
(* with a background thread each, the application threads that log, add      *)
(* sinks and call sinks through their handles, and the thread that owns the  *)
(* worker and destroys it (src/src/logworker.cpp, g3log/active.hpp,          *)
(* g3log/sink.hpp, g3log/sinkhandle.hpp, g3log/future.hpp, g3log.cpp).       *)
(*                                                                          *)
(* A queue of an Active object is written as the sequence of every task ever *)
(* pushed, with a head that counts the popped ones (bgLog/bgHead,            *)
(* sinkLog/sinkHead): the queue itself is what lies beyond the head, and the *)
(* popped prefix is kept for the properties.  push and wait_and_pop are      *)
(* atomic here; module SharedQueue has the mutex and the condition variable. *)
(* A message is named by its position in bgLog, the order in which the       *)
(* worker accepted it.                                                       *)
(****************************************************************************)
EXTENDS Integers, Sequences

CONSTANTS
  Clients,       \* application threads that use the logging API
  Sinks,         \* the sinks the application may add
  FatalThreads,  \* clients, and sinks whose callback, may meet a fatal event
  MaxCalls,      \* bound: API calls one client makes
  OwnerJoins,    \* TRUE: main joins its threads before it destroys the worker
  None           \* no sink

\* The two threads that are neither a client nor a sink.
Bg == "bg"
Owner == "owner"

ASSUME ThreadsAssumption ==
  /\ FatalThreads \subseteq Clients \cup Sinks
  /\ Clients \cap Sinks = {}
  /\ {Bg, Owner} \cap (Clients \cup Sinks) = {}
  /\ None \notin Sinks
  /\ MaxCalls \in Nat
  /\ OwnerJoins \in BOOLEAN

VARIABLES
  logger,    \* g_logger_instance # nullptr
  owner,     \* how far the owner is with ~LogWorker
  proc,      \* the process: running, or how it ended
  bgLog,     \* tasks sent to the worker's Active, in queue order
  bgHead,    \* how many of them its thread has popped
  bgPc,      \* what the worker's thread is doing
  bgTodo,    \* sinks the current message is still to be sent to
  sinks,     \* LogWorkerImpl::_sinks
  sinkLog,   \* per sink: tasks sent to its Active, in queue order
  sinkHead,  \* per sink: how many of them its thread has popped
  sinkPc,    \* per sink: its thread
  pc,        \* per client: where it is in an API call
  held,      \* per client: the sink its frame keeps a shared_ptr to
  calls,     \* per client: API calls made
  future,    \* per call: the future its caller waits on
  joining,   \* per thread: the sink thread it is blocked in join() on
  regAt,     \* auxiliary, per sink: bgHead when it entered _sinks, else 0
  cutAt      \* auxiliary, per sink: bgHead when it left _sinks, else 0

clientVars == <<pc, held, calls>>
bgVars     == <<bgHead, bgPc, bgTodo, sinks, regAt, cutAt>>
sinkVars   == <<sinkHead, sinkPc>>
vars == <<logger, owner, proc, bgLog, sinkLog, clientVars, bgVars, sinkVars,
          future, joining>>

Destroyers == Clients \cup {Bg, Owner}

Task(op, s)      == [op |-> op, sink |-> s]
BgTask           == [op : {"save", "fatal", "clear", "done"}, sink : {None}]
                      \cup [op : {"add"}, sink : Sinks]
SinkTask         == [op : {"msg"}, arg : Nat] \cup [op : {"call"}, arg : Clients]
                      \cup [op : {"done"}, arg : {0}]
MsgEntry(i)      == [op |-> "msg", arg |-> i]
CallEntry(c)     == [op |-> "call", arg |-> c]
DoneEntry        == [op |-> "done", arg |-> 0]

Elems(seq) == {seq[i] : i \in DOMAIN seq}

\* unique_ptr::reset nulls _impl._bg before ~Active runs.
BgPtr == owner \in {"alive", "closing", "clearWait"}
\* A thread that has read the pointer before may use the Active while it is
\* there: ~Active joins its thread before the queue goes.
ActiveLives == BgPtr \/ owner = "joining"

HeldByClient(s) == \E c \in Clients : held[c] = s
\* Fault: the handle keeps a plain pointer in place of the weak_ptr.
AliveUnchecked(s) == sinkPc[s] # "none"
\* The reference count of the sink is not zero.  The closure of a queued "add"
\* task holds a reference too, but only while its caller, who waits, does.
Alive(s) == s \in Elems(sinks) \/ HeldByClient(s)

Init ==
  /\ logger = TRUE
  /\ owner = "alive"
  /\ proc = "running"
  /\ bgLog = <<>> /\ bgHead = 0 /\ bgPc = "idle" /\ bgTodo = <<>>
  /\ sinks = <<>>
  /\ sinkLog = [s \in Sinks |-> <<>>]
  /\ sinkHead = [s \in Sinks |-> 0]
  /\ sinkPc = [s \in Sinks |-> "none"]
  /\ pc = [c \in Clients |-> "idle"]
  /\ held = [c \in Clients |-> None]
  /\ calls = [c \in Clients |-> 0]
  /\ future = [x \in Clients \cup Sinks \cup {Owner} |-> "none"]
  /\ joining = [t \in Destroyers |-> None]
  /\ regAt = [s \in Sinks |-> 0]
  /\ cutAt = [s \in Sinks |-> 0]

----------------------------------------------------------------------------
(* Reference counts: ~Sink runs in whichever thread drops the last one.      *)

\* Fault: whoever drops a reference destroys the sink.
ReleaseAlways(t, s, others) ==
  /\ sinkLog' = [sinkLog EXCEPT ![s] = Append(@, DoneEntry)]
  /\ joining' = [joining EXCEPT ![t] = s]

\* Thread t gives up a reference to s.  If no other is left, ~Sink sends the
\* quit task to the sink's Active and t blocks in join().
Release(t, s, others) ==
  IF others
  THEN UNCHANGED <<sinkLog, joining>>
  ELSE /\ sinkLog' = [sinkLog EXCEPT ![s] = Append(@, DoneEntry)]
       /\ joining' = [joining EXCEPT ![t] = s]

\* join() returns: the sink's thread has ended.
Joined(t) ==
  /\ proc = "running" /\ joining[t] # None
  /\ sinkPc[joining[t]] = "exited"
  /\ joining' = [joining EXCEPT ![t] = None]
  /\ UNCHANGED <<logger, owner, proc, bgLog, sinkLog, clientVars, bgVars,
                 sinkVars, future>>

----------------------------------------------------------------------------
(* The application threads.                                                  *)

\* A client may start an API call.
Ready(c) ==
  /\ proc = "running" /\ pc[c] = "idle" /\ joining[c] = None
  /\ calls[c] < MaxCalls
  /\ OwnerJoins => owner = "alive"

Begin(c, next) ==
  /\ calls' = [calls EXCEPT ![c] = @ + 1]
  /\ pc' = [pc EXCEPT ![c] = next]

\* LOG: pushMessageToLogger tests the global pointer, without a lock.
LogCheck(c) ==
  /\ Ready(c)
  /\ Begin(c, IF logger THEN "save" ELSE "idle")
  /\ UNCHANGED <<logger, owner, proc, bgLog, sinkLog, held, bgVars, sinkVars,
                 future, joining>>

\* A fatal event: pushFatalMessageToLogger tests the pointer; without a logger
\* the calling thread kills the process itself.
FatalCheck(c) ==
  /\ c \in FatalThreads
  /\ Ready(c)
  /\ Begin(c, IF logger THEN "fatal" ELSE "sleep")
  /\ proc' = IF logger THEN proc ELSE "killedDirect"
  /\ UNCHANGED <<logger, owner, bgLog, sinkLog, held, bgVars, sinkVars,
                 future, joining>>

\* g_logger_instance->save / ->fatal, after the test.  The pointer is read
\* again (or not: the build decides), so a shutdown since the test makes the
\* call undefined; so does a worker whose Active is gone.  A thread that has
\* read _bg in time still sends behind the quit task.
Push(op) ==
  \/ ActiveLives /\ bgLog' = Append(bgLog, Task(op, None)) /\ UNCHANGED proc
  \/ ~(BgPtr /\ logger) /\ proc' = "undefined" /\ UNCHANGED bgLog

LogSave(c) ==
  /\ proc = "running" /\ pc[c] = "save"
  /\ Push("save")
  /\ pc' = [pc EXCEPT ![c] = "idle"]
  /\ UNCHANGED <<logger, owner, sinkLog, held, calls, bgVars, sinkVars, future,
                 joining>>

\* After it the caller sleeps until the process ends.
FatalSave(c) ==
  /\ proc = "running" /\ pc[c] = "fatal"
  /\ Push("fatal")
  /\ pc' = [pc EXCEPT ![c] = "sleep"]
  /\ UNCHANGED <<logger, owner, sinkLog, held, calls, bgVars, sinkVars, future,
                 joining>>

\* addSink: make_shared<Sink> starts the sink's thread; then addWrappedSink.
AddSink(c, s) ==
  /\ Ready(c)
  /\ owner # "freed"
  /\ sinkPc[s] = "none"
  /\ Begin(c, "addTest")
  /\ sinkPc' = [sinkPc EXCEPT ![s] = "run"]
  /\ held' = [held EXCEPT ![c] = s]
  /\ UNCHANGED <<logger, owner, proc, bgLog, sinkLog, bgVars, sinkHead, future,
                 joining>>

\* spawn_task up to its test of the worker's Active: a null one yields a failed
\* future.
AddTest(c) ==
  /\ proc = "running" /\ pc[c] = "addTest"
  /\ \/ /\ BgPtr
        /\ pc' = [pc EXCEPT ![c] = "addSend"]
        /\ UNCHANGED <<future, proc>>
     \/ /\ ~BgPtr /\ owner # "freed"
        /\ pc' = [pc EXCEPT ![c] = "addWait"]
        /\ future' = [future EXCEPT ![held[c]] = "broken"]
        /\ UNCHANGED proc
     \/ /\ owner = "freed"
        /\ proc' = "undefined"
        /\ UNCHANGED <<future, pc>>
  /\ UNCHANGED <<logger, owner, bgLog, sinkLog, held, calls, bgVars, sinkVars,
                 joining>>

\* The rest of spawn_task: the task goes to the Active that was seen, without a
\* lock; the owner may have told it to quit since.
AddSend(c) ==
  /\ proc = "running" /\ pc[c] = "addSend"
  /\ pc' = [pc EXCEPT ![c] = "addWait"]
  /\ \/ /\ ActiveLives
        /\ bgLog' = Append(bgLog, Task("add", held[c]))
        /\ future' = [future EXCEPT ![held[c]] = "pending"]
        /\ UNCHANGED proc
     \/ /\ ~ActiveLives
        /\ proc' = "undefined"
        /\ UNCHANGED <<bgLog, future>>
  /\ UNCHANGED <<logger, owner, sinkLog, held, calls, bgVars, sinkVars, joining>>

\* token_done.wait() returns; the handle is made from the shared_ptr.
AddWait(c) ==
  /\ proc = "running" /\ pc[c] = "addWait"
  /\ future[held[c]] \in {"set", "broken"}
  /\ pc' = [pc EXCEPT ![c] = "drop"]
  /\ UNCHANGED <<logger, owner, proc, bgLog, sinkLog, held, calls, bgVars,
                 sinkVars, future, joining>>

\* SinkHandle::call locks the weak_ptr; a dead sink gives bad_weak_ptr.
CallLock(c, s) ==
  /\ Ready(c)
  /\ future[s] \in {"set", "broken"}      \* addSink gave the handle out
  /\ IF Alive(s)
     THEN /\ Begin(c, "callSend")
          /\ held' = [held EXCEPT ![c] = s]
          /\ UNCHANGED future
     ELSE /\ Begin(c, "idle")
          /\ future' = [future EXCEPT ![c] = "broken"]
          /\ UNCHANGED held
  /\ UNCHANGED <<logger, owner, proc, bgLog, sinkLog, bgVars, sinkVars, joining>>

\* sink->async: the call is queued to the sink's own Active.
CallSend(c) ==
  /\ proc = "running" /\ pc[c] = "callSend"
  /\ sinkLog' = [sinkLog EXCEPT ![held[c]] = Append(@, CallEntry(c))]
  /\ future' = [future EXCEPT ![c] = "pending"]
  /\ pc' = [pc EXCEPT ![c] = "drop"]
  /\ UNCHANGED <<logger, owner, proc, bgLog, held, calls, bgVars, sinkVars,
                 joining>>

\* The frame of addSink or call ends and drops its shared_ptr.  The caller of
\* call then waits on the future it got.
Drop(c) ==
  /\ proc = "running" /\ pc[c] = "drop"
  /\ LET s == held[c]
     IN Release(c, s, \/ s \in Elems(sinks)
                      \/ \E d \in Clients \ {c} : held[d] = s)
  /\ held' = [held EXCEPT ![c] = None]
  /\ pc' = [pc EXCEPT ![c] = IF future[c] = "pending" THEN "callWait" ELSE "idle"]
  /\ UNCHANGED <<logger, owner, proc, bgLog, calls, bgVars, sinkVars, future>>

CallWait(c) ==
  /\ proc = "running" /\ pc[c] = "callWait" /\ joining[c] = None
  /\ future[c] = "set"
  /\ pc' = [pc EXCEPT ![c] = "idle"]
  /\ UNCHANGED <<logger, owner, proc, bgLog, sinkLog, held, calls, bgVars,
                 sinkVars, future, joining>>

----------------------------------------------------------------------------
(* A sink's thread: Active::run over the sink's queue.                       *)

NextEntry(s) == sinkLog[s][sinkHead[s] + 1]

\* Fault: the last entry of a queue is left in it.
HasEntryButLast(s) == sinkHead[s] + 1 < Len(sinkLog[s])
HasEntry(s) == sinkHead[s] < Len(sinkLog[s])

\* Pop one task and run it: the default log call, a call made through the
\* handle (whose future becomes ready), or the quit task of ~Active.
SinkRun(s) ==
  /\ proc = "running" /\ sinkPc[s] = "run"
  /\ HasEntry(s)
  /\ sinkHead' = [sinkHead EXCEPT ![s] = @ + 1]
  /\ \/ /\ NextEntry(s).op = "msg"
        /\ UNCHANGED <<sinkPc, future>>
     \/ /\ NextEntry(s).op = "call"
        /\ future' = [future EXCEPT ![NextEntry(s).arg] = "set"]
        /\ UNCHANGED sinkPc
     \/ /\ NextEntry(s).op = "done"
        /\ sinkPc' = [sinkPc EXCEPT ![s] = "exited"]
        /\ UNCHANGED future
  /\ UNCHANGED <<logger, owner, proc, bgLog, sinkLog, clientVars, bgVars,
                 joining>>

\* The sink's callback meets a fatal event while it receives a message.
SinkFatalCheck(s) ==
  /\ proc = "running" /\ s \in FatalThreads
  /\ sinkPc[s] = "run"
  /\ HasEntry(s)
  /\ NextEntry(s).op = "msg"
  /\ sinkHead' = [sinkHead EXCEPT ![s] = @ + 1]
  /\ sinkPc' = [sinkPc EXCEPT ![s] = IF logger THEN "fatal" ELSE "sleep"]
  /\ proc' = IF logger THEN proc ELSE "killedDirect"
  /\ UNCHANGED <<logger, owner, bgLog, sinkLog, clientVars, bgVars, future,
                 joining>>

SinkFatalSave(s) ==
  /\ proc = "running" /\ sinkPc[s] = "fatal"
  /\ Push("fatal")
  /\ sinkPc' = [sinkPc EXCEPT ![s] = "sleep"]
  /\ UNCHANGED <<logger, owner, sinkLog, clientVars, bgVars, sinkHead, future,
                 joining>>

----------------------------------------------------------------------------
(* The worker's thread.                                                      *)

Pop(op) ==
  /\ proc = "running" /\ bgPc = "idle"
  /\ bgHead < Len(bgLog)
  /\ bgLog[bgHead + 1].op = op
  /\ bgHead' = bgHead + 1

\* bgSave begins its loop over _sinks.
BgSave ==
  /\ Pop("save")
  /\ bgPc' = "fanout"
  /\ bgTodo' = sinks
  /\ UNCHANGED <<logger, owner, proc, bgLog, sinkLog, clientVars, sinkVars,
                 sinks, regAt, cutAt, future, joining>>

\* bgFatal closes the logger first, then begins its loop.
BgFatal ==
  /\ Pop("fatal")
  /\ logger' = FALSE
  /\ bgPc' = "fanoutFatal"
  /\ bgTodo' = sinks
  /\ UNCHANGED <<owner, proc, bgLog, sinkLog, clientVars, sinkVars, sinks,
                 regAt, cutAt, future, joining>>

\* Fault: the first sink is given the message itself and not a copy.
BgSendMoved ==
  /\ proc = "running" /\ bgPc \in {"fanout", "fanoutFatal"}
  /\ bgTodo # <<>>
  /\ sinkLog' = [sinkLog EXCEPT ![Head(bgTodo)] = Append(@, MsgEntry(bgHead))]
  /\ bgTodo' = <<>>
  /\ UNCHANGED <<logger, owner, proc, bgLog, clientVars, bgHead, bgPc, sinks,
                 regAt, cutAt, sinkVars, future, joining>>

\* One turn of either loop: sink->send.
BgSend ==
  /\ proc = "running" /\ bgPc \in {"fanout", "fanoutFatal"}
  /\ bgTodo # <<>>
  /\ sinkLog' = [sinkLog EXCEPT ![Head(bgTodo)] = Append(@, MsgEntry(bgHead))]
  /\ bgTodo' = Tail(bgTodo)
  /\ UNCHANGED <<logger, owner, proc, bgLog, clientVars, bgHead, bgPc, sinks,
                 regAt, cutAt, sinkVars, future, joining>>

\* Fault: bgFatal returns after its loop.
BgSentReturns ==
  /\ proc = "running" /\ bgPc \in {"fanout", "fanoutFatal"}
  /\ bgTodo = <<>>
  /\ bgPc' = "idle"
  /\ UNCHANGED <<logger, owner, proc, bgLog, sinkLog, clientVars, bgHead,
                 bgTodo, sinks, regAt, cutAt, sinkVars, future, joining>>

\* The loop ends; bgFatal goes on to _sinks.clear().
BgSent ==
  /\ proc = "running" /\ bgPc \in {"fanout", "fanoutFatal"}
  /\ bgTodo = <<>>
  /\ bgPc' = IF bgPc = "fanout" THEN "idle" ELSE "clearFatal"
  /\ UNCHANGED <<logger, owner, proc, bgLog, sinkLog, clientVars, bgHead,
                 bgTodo, sinks, regAt, cutAt, sinkVars, future, joining>>

\* _sinks.push_back.  Fault: the sink is entered twice.
PushBackTwice(s) == sinks' = sinks \o <<s, s>>
PushBack(s) == sinks' = Append(sinks, s)

\* The task of addWrappedSink.
BgAdd ==
  /\ Pop("add")
  /\ LET s == bgLog[bgHead + 1].sink
     IN /\ PushBack(s)
        /\ regAt' = [regAt EXCEPT ![s] = bgHead + 1]
        /\ future' = [future EXCEPT ![s] = "set"]
  /\ UNCHANGED <<logger, owner, proc, bgLog, sinkLog, clientVars, bgPc, bgTodo,
                 cutAt, sinkVars, joining>>

\* The task of ~LogWorker.
BgClear ==
  /\ Pop("clear")
  /\ bgPc' = "clear"
  /\ UNCHANGED <<logger, owner, proc, bgLog, sinkLog, clientVars, bgTodo, sinks,
                 regAt, cutAt, sinkVars, future, joining>>

\* The first element of _sinks is destroyed, by vector::clear or ~vector.
DestroyFirst(t) ==
  /\ proc = "running" /\ joining[t] = None
  /\ sinks # <<>>
  /\ sinks' = Tail(sinks)
  /\ cutAt' = [cutAt EXCEPT ![Head(sinks)] = bgHead]
  /\ Release(t, Head(sinks), HeldByClient(Head(sinks)))
  /\ UNCHANGED <<logger, owner, proc, bgLog, clientVars, bgHead, bgPc, bgTodo,
                 regAt, sinkVars, future>>

BgDestroy == bgPc \in {"clear", "clearFatal"} /\ DestroyFirst(Bg)

\* Fault: a sink's thread is detached, not joined.
BgClearedEarly ==
  /\ proc = "running" /\ bgPc = "clear"
  /\ sinks = <<>>
  /\ bgPc' = "idle"
  /\ future' = [future EXCEPT ![Owner] = "set"]
  /\ UNCHANGED <<logger, owner, proc, bgLog, sinkLog, clientVars, bgHead,
                 bgTodo, sinks, regAt, cutAt, sinkVars, joining>>

\* _sinks is empty: the clear task's future is ready.
BgCleared ==
  /\ proc = "running" /\ bgPc = "clear"
  /\ sinks = <<>> /\ joining[Bg] = None
  /\ bgPc' = "idle"
  /\ future' = [future EXCEPT ![Owner] = "set"]
  /\ UNCHANGED <<logger, owner, proc, bgLog, sinkLog, clientVars, bgHead,
                 bgTodo, sinks, regAt, cutAt, sinkVars, joining>>

\* Fault: bgFatal without its _sinks.clear().
BgExitUnflushed ==
  /\ proc = "running" /\ bgPc = "clearFatal"
  /\ proc' = "killedByBg"
  /\ UNCHANGED <<logger, owner, bgLog, sinkLog, clientVars, bgVars, sinkVars,
                 future, joining>>

\* bgFatal ends in exitWithDefaultSignalHandler.
BgExit ==
  /\ proc = "running" /\ bgPc = "clearFatal"
  /\ sinks = <<>> /\ joining[Bg] = None
  /\ proc' = "killedByBg"
  /\ UNCHANGED <<logger, owner, bgLog, sinkLog, clientVars, bgVars, sinkVars,
                 future, joining>>

\* The quit task of ~Active ends the loop in run().
BgDone ==
  /\ Pop("done")
  /\ bgPc' = "exited"
  /\ UNCHANGED <<logger, owner, proc, bgLog, sinkLog, clientVars, bgTodo, sinks,
                 regAt, cutAt, sinkVars, future, joining>>

----------------------------------------------------------------------------
(* The owner: ~LogWorker.                                                    *)

\* shutDownLoggingForActiveOnly(this), this worker being the active one.
OwnerShutdown ==
  /\ proc = "running" /\ owner = "alive"
  /\ OwnerJoins => \A c \in Clients : pc[c] = "idle" /\ joining[c] = None
  /\ logger' = FALSE
  /\ owner' = "closing"
  /\ UNCHANGED <<proc, bgLog, sinkLog, clientVars, bgVars, sinkVars, future,
                 joining>>

\* spawn_task(bg_clear_sink_call) and token_cleared.wait().
OwnerClear ==
  /\ proc = "running" /\ owner = "closing"
  /\ owner' = "clearWait"
  /\ bgLog' = Append(bgLog, Task("clear", None))
  /\ future' = [future EXCEPT ![Owner] = "pending"]
  /\ UNCHANGED <<logger, proc, sinkLog, clientVars, bgVars, sinkVars, joining>>

\* Fault: ~Active joins its thread and never tells it to quit.
OwnerResetSilent ==
  /\ proc = "running" /\ owner = "clearWait"
  /\ future[Owner] = "set"
  /\ owner' = "joining"
  /\ UNCHANGED <<logger, proc, bgLog, sinkLog, clientVars, bgVars, sinkVars,
                 future, joining>>

\* _bg.reset(nullptr): the pointer is null, ~Active sends the quit task.
OwnerReset ==
  /\ proc = "running" /\ owner = "clearWait"
  /\ future[Owner] = "set"
  /\ owner' = "joining"
  /\ bgLog' = Append(bgLog, Task("done", None))
  /\ UNCHANGED <<logger, proc, sinkLog, clientVars, bgVars, sinkVars, future,
                 joining>>

\* Fault: the future of a task that never ran is not completed.
OwnerJoinSilent ==
  /\ proc = "running" /\ owner = "joining"
  /\ bgPc = "exited"
  /\ owner' = "dropSinks"
  /\ bgLog' = SubSeq(bgLog, 1, bgHead)
  /\ UNCHANGED <<logger, proc, sinkLog, clientVars, bgVars, sinkVars, future,
                 joining>>

\* thd_.join() returns; the queue dies with the tasks left in it, and a
\* packaged_task that never ran breaks its promise.
OwnerJoin ==
  /\ proc = "running" /\ owner = "joining"
  /\ bgPc = "exited"
  /\ owner' = "dropSinks"
  /\ bgLog' = SubSeq(bgLog, 1, bgHead)
  /\ future' = [x \in DOMAIN future |->
                  IF \E i \in bgHead + 1 .. Len(bgLog) : bgLog[i] = Task("add", x)
                  THEN "broken" ELSE future[x]]
  /\ UNCHANGED <<logger, proc, sinkLog, clientVars, bgVars, sinkVars, joining>>

\* ~LogWorkerImpl destroys what is left in _sinks, then the worker is gone.
OwnerDestroy == owner = "dropSinks" /\ DestroyFirst(Owner)

OwnerFreed ==
  /\ proc = "running" /\ owner = "dropSinks"
  /\ sinks = <<>> /\ joining[Owner] = None
  /\ owner' = "freed"
  /\ UNCHANGED <<logger, proc, bgLog, sinkLog, clientVars, bgVars, sinkVars,
                 future, joining>>

----------------------------------------------------------------------------

ClientContinue(c) ==
  \/ LogSave(c) \/ FatalSave(c) \/ AddTest(c) \/ AddSend(c) \/ AddWait(c)
  \/ CallSend(c) \/ Drop(c) \/ CallWait(c) \/ Joined(c)

ClientStart(c) ==
  \/ LogCheck(c) \/ FatalCheck(c)
  \/ \E s \in Sinks : AddSink(c, s) \/ CallLock(c, s)

SinkStep(s) == SinkRun(s) \/ SinkFatalCheck(s) \/ SinkFatalSave(s)

BgStep ==
  \/ BgSave \/ BgFatal \/ BgSend \/ BgSent \/ BgAdd \/ BgClear \/ BgDestroy
  \/ BgCleared \/ BgExit \/ BgDone \/ Joined(Bg)

OwnerContinue ==
  \/ OwnerClear \/ OwnerReset \/ OwnerJoin \/ OwnerDestroy \/ OwnerFreed
  \/ Joined(Owner)

Step ==
  \/ \E c \in Clients : ClientStart(c) \/ ClientContinue(c)
  \/ \E s \in Sinks : SinkStep(s)
  \/ BgStep
  \/ OwnerShutdown \/ OwnerContinue

\* The process has ended, or there is nothing left to do in it.  A client whose
\* fatal message was discarded with the queue sleeps for ever.
Finished ==
  \/ proc # "running"
  \/ /\ owner = "freed"
     /\ \A c \in Clients : pc[c] \in {"idle", "sleep"} /\ joining[c] = None

Next == Step \/ (Finished /\ UNCHANGED vars)

Spec == Init /\ [][Next]_vars

\* The operating system runs every thread that can run.  Nobody has to start
\* another call or to destroy the worker.
Fairness ==
  /\ \A c \in Clients : WF_vars(ClientContinue(c))
  /\ \A s \in Sinks : WF_vars(SinkStep(s))
  /\ WF_vars(BgStep)
  /\ WF_vars(OwnerContinue)

FairSpec == Spec /\ Fairness
----------------------------------------------------------------------------
(* Properties.                                                               *)

TypeOK ==
  /\ logger \in BOOLEAN
  /\ owner \in {"alive", "closing", "clearWait", "joining", "dropSinks", "freed"}
  /\ proc \in {"running", "killedByBg", "killedDirect", "undefined"}
  /\ bgLog \in Seq(BgTask)
  /\ bgHead \in 0 .. Len(bgLog)
  /\ bgPc \in {"idle", "fanout", "fanoutFatal", "clear", "clearFatal", "exited"}
  /\ bgTodo \in Seq(Sinks)
  /\ sinks \in Seq(Sinks)
  /\ sinkLog \in [Sinks -> Seq(SinkTask)]
  /\ sinkHead \in [Sinks -> Nat]
  /\ sinkPc \in [Sinks -> {"none", "run", "fatal", "sleep", "exited"}]
  /\ pc \in [Clients -> {"idle", "save", "fatal", "sleep", "addTest", "addSend",
                         "addWait", "callSend", "drop", "callWait"}]
  /\ held \in [Clients -> Sinks \cup {None}]
  /\ calls \in [Clients -> 0 .. MaxCalls]
  /\ future \in [Clients \cup Sinks \cup {Owner} ->
                   {"none", "pending", "set", "broken"}]
  /\ joining \in [Destroyers -> Sinks \cup {None}]
  /\ regAt \in [Sinks -> Nat]
  /\ cutAt \in [Sinks -> Nat]

IsMsg(i) == bgLog[i].op \in {"save", "fatal"}
\* The messages in a sink's queue, by their position in the worker's queue.
MsgsIn(seq) == {seq[k].arg : k \in {j \in DOMAIN seq : seq[j].op = "msg"}}
InOrder(seq) ==
  \A j, k \in DOMAIN seq :
    j < k /\ seq[j].op = "msg" /\ seq[k].op = "msg" => seq[j].arg < seq[k].arg
\* The last task of the worker whose effect on s is complete.
Scanned(s) == IF cutAt[s] # 0 THEN cutAt[s]
              ELSE IF s \in Elems(bgTodo) THEN bgHead - 1 ELSE bgHead

\* Every sink is sent exactly the messages the worker accepted after the sink
\* was added and before it was cleared: none is lost, none comes from outside
\* that window, whatever the other threads do (bgSave, bgFatal, addWrappedSink,
\* ~LogWorker).
DeliveryComplete ==
  \A s \in Sinks :
    MsgsIn(sinkLog[s]) =
      IF regAt[s] = 0 THEN {} ELSE {i \in regAt[s] + 1 .. Scanned(s) : IsMsg(i)}

\* Every sink is sent its messages in the order the worker accepted them and
\* each of them once (the FIFO order of API.markdown, "Contract API").
DeliveryOrdered == \A s \in Sinks : InOrder(sinkLog[s])

\* The queues, the threads and the tasks between messages are a means to this
\* end: seen from outside, the worker accepts messages, sinks come and go, and
\* each is given the messages between, in order and without a gap, and leaves
\* only between two messages (LogWorker as a whole).
B == INSTANCE Broadcast WITH
       accepted <- {i \in DOMAIN bgLog : IsMsg(i)},
       members <- Elems(sinks),
       since <- regAt,
       given <- [s \in Sinks |-> MsgsIn(sinkLog[s])]
BroadcastSpec == B!Spec

\* The quit task is the last a sink's Active ever receives: nobody reaches a
\* sink through _sinks or through a handle once ~Sink has begun.
QuitIsLast ==
  \A s \in Sinks : \A k \in DOMAIN sinkLog[s] :
    sinkLog[s][k] = DoneEntry => k = Len(sinkLog[s])

\* ~Sink runs once: two threads never join the same sink thread, and a thread
\* that joins a sink is the one that sent the quit task.
OneDestroyer ==
  \A t \in Destroyers : joining[t] # None =>
    /\ \A u \in Destroyers \ {t} : joining[u] # joining[t]
    /\ ~Alive(joining[t])
    /\ \E k \in DOMAIN sinkLog[joining[t]] : sinkLog[joining[t]][k] = DoneEntry

\* The sink has run every task it was ever sent, the quit task included.
Flushed(s) == sinkPc[s] = "exited" /\ sinkHead[s] = Len(sinkLog[s])
\* A client still has the sink alive, or is busy destroying it.
InClientHands(s) == HeldByClient(s) \/ \E c \in Clients : joining[c] = s

\* s entered _sinks before the clear task of ~LogWorker ran.
AddedBeforeClear(s) ==
  regAt[s] # 0 /\ \A i \in 1 .. regAt[s] - 1 : bgLog[i].op # "clear"

\* Once ~LogWorker has waited for its clear task, each sink that was added
\* before has run all it was sent, unless a client has it in its hands at that
\* moment (API.markdown, "At shutdown all enqueued logs will be flushed to the
\* sink").
ShutdownFlushes ==
  future[Owner] = "set" =>
    \A s \in Sinks : AddedBeforeClear(s) => Flushed(s) \/ InClientHands(s)

\* When bgFatal ends the process, each sink that was in _sinks has run all it
\* was sent, the fatal message included, unless a client has it in its hands.
FatalFlushes ==
  proc = "killedByBg" =>
    \A s \in Sinks : regAt[s] # 0 => Flushed(s) \/ InClientHands(s)

\* The comment on bgFatal without the exception: every sink has run the fatal
\* message before the process is ended (logworker.cpp:68-70).
FatalForcesAllSinks ==
  proc = "killedByBg" => \A s \in Sinks : regAt[s] # 0 => Flushed(s)

\* A fatal event that was queued ends the process only after the sinks have run
\* what was queued before it (g3log.cpp:189-193).
FatalWaitsForFlush ==
  proc = "killedDirect" /\ (\E i \in DOMAIN bgLog : bgLog[i].op = "fatal") =>
    \A s \in Sinks : regAt[s] # 0 => Flushed(s)

\* No call reaches a worker that is shut down or gone (logworker.cpp:81-90).
NoUndefinedUse == proc # "undefined"

\* A fatal message is queued, and not behind the quit task of ~Active.
FatalQueued ==
  \E i \in DOMAIN bgLog :
    bgLog[i].op = "fatal" /\ \A j \in 1 .. i - 1 : bgLog[j].op # "done"

\* ~LogWorker, once begun, ends (or a fatal event ends the process).
ShutdownEnds == owner = "closing" ~> (owner = "freed" \/ proc # "running")

\* A fatal event whose message is queued ends the process (g3log.cpp:229-233),
\* but for one that loses the race with ~LogWorker: behind the quit task its
\* message is discarded, and its thread sleeps.
FatalEndsProcess == FatalQueued ~> proc # "running"

\* Every call through a handle and every addSink gets its answer: the futures
\* the callers wait on become ready.
CallsReturn ==
  \A c \in Clients :
    pc[c] \in {"addWait", "callWait"} ~> (pc[c] = "idle" \/ proc # "running")

\* What is queued is worked off: the queues of the worker and of every sink in
\* _sinks run empty, without any further call.
QueuesDrain ==
  <>[](\/ proc # "running"
       \/ /\ bgHead = Len(bgLog)
          /\ \A s \in Elems(sinks) : sinkHead[s] = Len(sinkLog[s]))
=============================================================================
