------------------------------- MODULE FrontEnd -------------------------------
(****************************************************************************)
(* Which worker the log calls of the program go to (src/src/g3log.cpp):      *)
(* g_logger_instance, the mutex that guards its writers but not its readers, *)
(* the three call_once flags, and the one message that is kept while there   *)
(* is no logger.  Threads log, initialize the logging, shut it down and      *)
(* destroy the workers they own; one worker may be the static one of         *)
(* InitG3Logging (src/src/g3log/sinks/custom_sink.cpp), which std::exit      *)
(* destroys.                                                                 *)
(*                                                                          *)
(* A worker is here a sequence of saved messages; LogWorker tells what       *)
(* becomes of them.  Fatal events, with the hook and the counter that        *)
(* initializeLogging resets, are in FatalPath.                               *)
(****************************************************************************)
EXTENDS Integers, Sequences

CONSTANTS
  Threads,
  Workers,
  Owner,       \* the thread that creates, initializes and destroys a worker
  Static,      \* the static worker of InitG3Logging: a set with at most one
  Null,        \* nullptr
  MaxMessages, \* bound: calls of LOG
  MaxCalls     \* bound: other calls

ASSUME FrontEndAssumption ==
  /\ Owner \in [Workers -> Threads]
  /\ Static \subseteq Workers
  /\ Null \notin Workers \cup Threads \cup Nat
  /\ MaxMessages \in Nat /\ MaxCalls \in Nat

VARIABLES
  instance,  \* g_logger_instance
  mutex,     \* who holds g_logging_init_mutex, or Null
  handlers,  \* g_initialize_flag: the crash handlers are installed
  kept,      \* g_first_unintialized_msg: a message or Null
  keeping,   \* g_set_first_uninitialized_flag: "new", "running", "done"
  saving,    \* g_save_first_unintialized_flag: it has been used
  life,      \* of a worker: "none", "live", "gone"
  queue,     \* the messages saved in a worker
  proc,      \* "running", "exited", "undefined"
  pc,        \* where a thread is
  arg,       \* the worker a thread's call is about, or Null
  msg,       \* the message of a thread's log call
  sent, calls,
  oldest,    \* auxiliary: the message that was kept, or Null
  late       \* auxiliary: it was kept after the flag for saving it was used

calling == <<pc, arg, msg>>
counts  == <<sent, calls>>
logger  == <<instance, mutex, handlers, saving, life>>
first   == <<kept, keeping>>
aux     == <<oldest, late>>
vars    == <<logger, first, queue, proc, calling, counts, aux>>

Init ==
  /\ instance = Null /\ mutex = Null /\ handlers = FALSE
  /\ kept = Null /\ keeping = "new" /\ saving = FALSE
  /\ life = [w \in Workers |-> "none"]
  /\ queue = [w \in Workers |-> <<>>]
  /\ proc = "running"
  /\ pc = [t \in Threads |-> "idle"]
  /\ arg = [t \in Threads |-> Null]
  /\ msg = [t \in Threads |-> Null]
  /\ sent = 0 /\ calls = 0
  /\ oldest = Null /\ late = FALSE

At(t, l)   == proc = "running" /\ pc[t] = l
Goto(t, l) == pc' = [pc EXCEPT ![t] = l]

\* A log call that shutDownLoggingForActiveOnly makes returns into the
\* destructor, any other to the program.
Return(t) == Goto(t, IF arg[t] = Null THEN "idle" ELSE "free")

-----------------------------------------------------------------------------
(* LOG: pushMessageToLogger *)

Log(t) ==
  /\ At(t, "idle") /\ sent < MaxMessages
  /\ sent' = sent + 1
  /\ msg' = [msg EXCEPT ![t] = sent']
  /\ Goto(t, "test")
  /\ UNCHANGED <<logger, first, queue, proc, arg, calls, aux>>

\* isLoggingInitialized, without the mutex
Test(t) ==
  /\ At(t, "test")
  /\ Goto(t, IF instance = Null THEN "once" ELSE "save")
  /\ UNCHANGED <<logger, first, queue, proc, arg, msg, counts, aux>>

\* g_logger_instance->save: the pointer is read again.
Save(t) ==
  /\ At(t, "save")
  /\ \/ /\ instance = Null
        /\ proc' = "undefined"
        /\ UNCHANGED <<queue, pc>>
     \/ /\ instance # Null
        /\ queue' = [queue EXCEPT ![instance] = Append(@, msg[t])]
        /\ Return(t)
        /\ UNCHANGED proc
  /\ UNCHANGED <<logger, first, arg, msg, counts, aux>>

\* call_once for the first uninitialized message: the first caller keeps its
\* message, others wait until that is done and drop theirs.
KeepFirst(t) ==
  /\ At(t, "once") /\ keeping = "new"
  /\ keeping' = "running"
  /\ kept' = msg[t]
  /\ oldest' = msg[t]
  /\ late' = saving
  /\ Goto(t, "edit")
  /\ UNCHANGED <<logger, queue, proc, arg, msg, counts>>

\* The text of the kept message is replaced through the global pointer, which
\* initializeLogging may have emptied by now.
EditKept(t) ==
  /\ At(t, "edit")
  /\ \/ /\ kept = Null
        /\ proc' = "undefined"
        /\ UNCHANGED <<keeping, pc>>
     \/ /\ kept # Null
        /\ keeping' = "done"
        /\ Return(t)
        /\ UNCHANGED proc
  /\ UNCHANGED <<logger, kept, queue, arg, msg, counts, aux>>

DropLater(t) ==
  /\ At(t, "once") /\ keeping = "done"
  /\ Return(t)
  /\ UNCHANGED <<logger, first, queue, proc, arg, msg, counts, aux>>

-----------------------------------------------------------------------------
(* initializeLogging and InitG3Logging *)

Begin(t, w, l) ==
  /\ At(t, "idle")
  /\ arg' = [arg EXCEPT ![t] = w]
  /\ Goto(t, l)

Call(t, w, l) ==
  /\ calls < MaxCalls
  /\ calls' = calls + 1
  /\ Begin(t, w, l)

\* createLogWorker.  The static one is created in the first call of
\* InitG3Logging, which goes on to initializeLogging.
Create(t, w) ==
  /\ life[w] = "none" /\ Owner[w] = t
  /\ Begin(t, IF w \in Static THEN w ELSE Null,
              IF w \in Static THEN "install" ELSE "idle")
  /\ life' = [life EXCEPT ![w] = "live"]
  /\ UNCHANGED <<instance, mutex, handlers, saving, first, queue, proc,
                 msg, counts, aux>>

\* Also with nullptr, with the worker that is active, and with the static one
\* in a further call of InitG3Logging.
InitializeLogging(t) ==
  /\ \E w \in Workers \cup {Null} :
       /\ w # Null => life[w] = "live" /\ Owner[w] = t
       /\ Call(t, w, "install")
  /\ UNCHANGED <<logger, first, queue, proc, msg, sent, aux>>

\* call_once of installCrashHandler, before the mutex is taken
Install(t) ==
  /\ At(t, "install")
  /\ handlers' = TRUE
  /\ Goto(t, "lock")
  /\ UNCHANGED <<instance, mutex, saving, life, first, queue, proc,
                 arg, msg, counts, aux>>

\* Fault: the worker is published before the first message is saved.
LockAndPublish(t) ==
  /\ At(t, "lock") /\ mutex = Null
  /\ mutex' = t
  /\ Goto(t, IF instance # Null \/ arg[t] = Null THEN "exit" ELSE "first")
  /\ instance' = IF instance = Null THEN arg[t] ELSE instance
  /\ UNCHANGED <<handlers, saving, life, first, queue, proc,
                 arg, msg, counts, aux>>

\* Fault: no test for an active worker.
LockOnly(t) ==
  /\ At(t, "lock") /\ mutex = Null
  /\ mutex' = t
  /\ Goto(t, IF arg[t] = Null THEN "exit" ELSE "first")
  /\ UNCHANGED <<instance, handlers, saving, life, first, queue, proc,
                 arg, msg, counts, aux>>

\* The lock and the test behind it.  std::exit leaves the mutex locked.
LockAndTest(t) ==
  /\ At(t, "lock") /\ mutex = Null
  /\ mutex' = t
  /\ Goto(t, IF instance # Null \/ arg[t] = Null THEN "exit" ELSE "first")
  /\ UNCHANGED <<instance, handlers, saving, life, first, queue, proc,
                 arg, msg, counts, aux>>

\* call_once for saving the first uninitialized message, under the mutex
SaveFirst(t) ==
  /\ At(t, "first")
  /\ IF ~ saving /\ kept # Null
     THEN /\ queue' = [queue EXCEPT ![arg[t]] = Append(@, kept)]
          /\ kept' = Null
     ELSE UNCHANGED <<queue, kept>>
  /\ saving' = TRUE
  /\ Goto(t, "set")
  /\ UNCHANGED <<instance, mutex, handlers, life, keeping, proc, arg, msg,
                 counts, aux>>

SetInstance(t) ==
  /\ At(t, "set")
  /\ instance' = arg[t]
  /\ mutex' = Null
  /\ Goto(t, "idle")
  /\ arg' = [arg EXCEPT ![t] = Null]
  /\ UNCHANGED <<handlers, saving, life, first, queue, proc, msg,
                 counts, aux>>

\* std::exit destroys the static worker.  Unless another one is active its
\* destructor wants the mutex this thread holds: it waits for itself.
Exit(t) ==
  /\ At(t, "exit")
  /\ IF \E w \in Static : life[w] = "live" /\ instance \in {w, Null}
     THEN Goto(t, "stuck") /\ UNCHANGED proc
     ELSE proc' = "exited" /\ UNCHANGED pc
  /\ UNCHANGED <<logger, first, queue, arg, msg, counts, aux>>

-----------------------------------------------------------------------------
(* shutDownLogging, and shutDownLoggingForActiveOnly of ~LogWorker *)

ShutDown(t) ==
  /\ Call(t, Null, "shut")
  /\ UNCHANGED <<logger, first, queue, proc, msg, sent, aux>>

\* ~LogWorker of a local worker, or of the static one at the end of main.
Destroy(t) ==
  /\ \E w \in Workers :
       life[w] = "live" /\ Owner[w] = t /\ Call(t, w, "active")
  /\ UNCHANGED <<logger, first, queue, proc, msg, sent, aux>>

\* Fault: the mutex is locked for the test and still held in shutDownLogging.
IsActiveLocked(t) ==
  /\ At(t, "active") /\ mutex = Null
  /\ mutex' = t
  /\ Goto(t, IF instance = Null THEN "shut" ELSE "compare")
  /\ UNCHANGED <<instance, handlers, saving, life, first, queue, proc,
                 arg, msg, counts, aux>>

\* isLoggingInitialized, without the mutex
IsActive(t) ==
  /\ At(t, "active")
  /\ Goto(t, IF instance = Null THEN "shut" ELSE "compare")
  /\ UNCHANGED <<logger, first, queue, proc, arg, msg, counts, aux>>

\* Fault: the comparison is the wrong way round.
CompareWrongly(t) ==
  /\ At(t, "compare")
  /\ IF instance # arg[t]
     THEN Goto(t, "shut") /\ UNCHANGED <<msg, sent>>
     ELSE /\ sent' = sent + 1
          /\ msg' = [msg EXCEPT ![t] = sent']
          /\ Goto(t, "test")
  /\ UNCHANGED <<logger, first, queue, proc, arg, calls, aux>>

\* The pointer is read again.  If it is not this worker the call is ignored,
\* with a warning that is a log call like any other.
Compare(t) ==
  /\ At(t, "compare")
  /\ IF instance = arg[t]
     THEN Goto(t, "shut") /\ UNCHANGED <<msg, sent>>
     ELSE /\ sent' = sent + 1
          /\ msg' = [msg EXCEPT ![t] = sent']
          /\ Goto(t, "test")
  /\ UNCHANGED <<logger, first, queue, proc, arg, calls, aux>>

\* Fault: the kept message is forgotten, too.
ClearAll(t) ==
  /\ At(t, "shut") /\ mutex = Null
  /\ instance' = Null
  /\ kept' = Null
  /\ Return(t)
  /\ UNCHANGED <<mutex, handlers, saving, life, keeping, queue, proc,
                 arg, msg, counts, aux>>

\* The body of shutDownLogging: whatever the instance is by then.
ClearInstance(t) ==
  /\ At(t, "shut") /\ mutex = Null
  /\ instance' = Null
  /\ Return(t)
  /\ UNCHANGED <<mutex, handlers, saving, life, first, queue, proc,
                 arg, msg, counts, aux>>

\* The rest of ~LogWorker.  With the static worker goes the program.
Free(t) ==
  /\ At(t, "free")
  /\ life' = [life EXCEPT ![arg[t]] = "gone"]
  /\ proc' = IF arg[t] \in Static THEN "exited" ELSE proc
  /\ Goto(t, "idle")
  /\ arg' = [arg EXCEPT ![t] = Null]
  /\ UNCHANGED <<instance, mutex, handlers, saving, first, queue, msg,
                 counts, aux>>

-----------------------------------------------------------------------------
Takes(t) == LockAndTest(t) \/ ClearInstance(t)

Goes(t) ==
  \/ Test(t) \/ Save(t) \/ KeepFirst(t) \/ EditKept(t) \/ DropLater(t)
  \/ Install(t) \/ SaveFirst(t) \/ SetInstance(t) \/ Exit(t)
  \/ IsActive(t) \/ Compare(t) \/ Free(t)

Starts(t) ==
  \/ Log(t)
  \/ \E w \in Workers : Create(t, w)
  \/ InitializeLogging(t)
  \/ ShutDown(t)
  \/ Destroy(t)

Next == \E t \in Threads : Starts(t) \/ Goes(t) \/ Takes(t)

Spec == Init /\ [][Next]_vars

\* Nobody has to start a call.  A call goes on, and gets a mutex that is free
\* again and again.
FairSpec == Spec /\ \A t \in Threads : WF_vars(Goes(t)) /\ SF_vars(Takes(t))

-----------------------------------------------------------------------------
(* Properties *)

\* Every variable has a value of its kind.
TypeOK ==
  /\ instance \in Workers \cup {Null}
  /\ mutex \in Threads \cup {Null}
  /\ handlers \in BOOLEAN /\ saving \in BOOLEAN
  /\ kept \in Nat \cup {Null} /\ oldest \in Nat \cup {Null}
  /\ late \in BOOLEAN
  /\ keeping \in {"new", "running", "done"}
  /\ life \in [Workers -> {"none", "live", "gone"}]
  /\ queue \in [Workers -> Seq(Nat)]
  /\ proc \in {"running", "exited", "undefined"}
  /\ pc \in [Threads -> {"idle", "test", "save", "once", "edit", "install",
                         "lock", "first", "set", "exit", "stuck", "shut",
                         "active", "compare", "free"}]
  /\ arg \in [Threads -> Workers \cup {Null}]
  /\ msg \in [Threads -> Nat \cup {Null}]
  /\ sent \in Nat /\ calls \in Nat

\* The active worker exists, however many threads initialize, shut down and
\* destroy at once: ~LogWorker takes it out before it is gone, and a worker
\* that has been passed over as not active does not become active meanwhile.
ActiveIsAlive == instance # Null => life[instance] = "live"

\* The message kept from before there was a logger comes before all others in
\* the worker that gets it (initializeLogging saves it before it publishes the
\* worker), and no message is saved twice, in one worker or in two.
FirstComesFirst ==
  /\ \A w \in Workers : \A i \in DOMAIN queue[w] : queue[w][i] = oldest => i = 1
  /\ \A v, w \in Workers : \A i \in DOMAIN queue[v], j \in DOMAIN queue[w] :
       queue[v][i] = queue[w][j] => v = w /\ i = j

\* A message kept before the first initialization is found by it, and is then
\* the first one in a worker, whatever was called since.
KeptIsSaved ==
  oldest # Null /\ ~ late =>
    IF saving THEN \E w \in Workers : queue[w] # <<>> /\ Head(queue[w]) = oldest
              ELSE kept = oldest

\* A second initialization never replaces an active worker: between two
\* workers the logging has been shut down (the test behind the mutex).
NeverReplaced ==
  [][instance # Null /\ instance' # Null => instance' = instance]_vars

\* Every call comes back, whoever else waits for the mutex or for the message
\* being kept, unless a thread that exits waits for itself.
CallsReturn ==
  \A t \in Threads :
    pc[t] # "idle" ~>
      pc[t] = "idle" \/ proc # "running" \/ \E u \in Threads : pc[u] = "stuck"

\* What the comment on shutDownLoggingForActiveOnly says of a worker that is
\* not the active one: "this call is just ignored and the logging continues to
\* be active".
OthersIgnored ==
  [][\A t \in Threads :
       pc[t] = "shut" /\ pc'[t] = "free" => instance \in {arg[t], Null}]_vars
=============================================================================
