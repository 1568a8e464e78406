------------------------------ MODULE FatalPath ------------------------------
(****************************************************************************)
(* What a thread goes through from a fatal event to the end of the process:  *)
(* the signal handlers and their table (src/src/crashhandler_unix.cpp), the  *)
(* pre-fatal hook and the hand-over to the worker (saveMessage and           *)
(* pushFatalMessageToLogger, src/src/g3log.cpp), and bgFatal as far as the   *)
(* fatal path sees it; LogWorker has what the worker and the sinks do.       *)
(*                                                                          *)
(* A thread has a stack of fatal events: a signal can interrupt the handling *)
(* of the event before.  While a handler runs, its signal is blocked in its  *)
(* thread (sigaction without SA_NODEFER).  The signals, their delivery and   *)
(* their blocking are the kernel's, not the repository's.                    *)
(*                                                                          *)
(* The worker may be destroyed, by one thread, at any moment: ~LogWorker     *)
(* closes the logger and ends the worker's thread                            *)
(* (src/src/logworker.cpp), and a fatal event may be under way meanwhile.    *)
(****************************************************************************)
EXTENDS Naturals, Sequences, SequencesExt

CONSTANTS
  Threads,        \* application threads
  Owners,         \* the one of them that destroys the worker, if any
  Bg,             \* the worker's thread
  Targets,        \* threads on which a signal sent to the process may arrive
  Signals,        \* the signals in play
  Abort,          \* SIGABRT, the signal of LOG(FATAL) and of a broken CHECK
  HookSignals,    \* signals the pre-fatal hook may raise
  Overrides,      \* sets that overrideSetupSignals may be called with
  ExitHandlers,   \* what setFatalExitHandler may be called with, or {}
  MaxSent,        \* bound: signals sent to the process
  MaxOverrides,   \* bound: calls of overrideSetupSignals
  MaxCrashes      \* bound: fatal events, where they could go on for ever

ASSUME FatalAssumption ==
  /\ Bg \notin Threads
  /\ Owners \subseteq Threads /\ \A t, u \in Owners : t = u
  /\ Targets \subseteq Threads \cup {Bg}
  /\ Abort \in Signals /\ HookSignals \subseteq Signals
  /\ Overrides \subseteq SUBSET Signals
  /\ ExitHandlers \subseteq {"push", "own"}
  /\ MaxSent \in Nat /\ MaxOverrides \in Nat /\ MaxCrashes \in Nat

VARIABLES
  inited,     \* initializeLogging has been called
  early,      \* overrideSetupSignals was called before it
  worker,     \* the LogWorker: none, live, or how far its destructor is
  logger,     \* g_logger_instance # nullptr
  disp,       \* the kernel's action for each signal
  saved,      \* gSavedSigActions
  gSignals,   \* the signals to be handled
  firstExit,  \* some signal has passed shouldDoExit
  hook,       \* g_fatal_pre_logging_hook
  crashes,    \* g_fatal_hook_recursive_counter
  exitHandler,\* g_fatal_to_g3logworker_function_ptr
  stack,      \* per thread: the fatal events it is handling
  queue,      \* the fatal messages and the destructor's tasks, for the worker
  bg,         \* what the worker's thread is doing
  pending,    \* signals that g3log sent with kill() and nobody has got yet
  proc,       \* the process: running, or how it ended
  sent,       \* signals sent to the process so far
  overrides   \* calls of overrideSetupSignals so far

sigVars == <<disp, saved, gSignals>>
vars == <<inited, early, worker, logger, sigVars, firstExit, hook, crashes,
          exitHandler, stack, queue, bg, pending, proc, sent, overrides>>

All == Threads \cup {Bg}
\* The hook is an empty std::function until somebody sets it.
Hooks == {"empty", "nothing", "user"}
\* An event: its signal, whether the signal handler was called for it, where
\* its handling is, the hook it copied, and whether its message has the note on
\* recursive crashes.
Event(s, handler, pc) ==
  [sig |-> s, handler |-> handler, pc |-> pc, hook |-> "nothing",
   recursive |-> FALSE]
Events == [sig : Signals, handler : BOOLEAN, hook : Hooks, recursive : BOOLEAN,
           pc : {"save", "reset", "hook", "crashed", "send", "push", "sleep",
                 "restore", "kill", "exit"}]
Message == [sig : Signals, recursive : BOOLEAN]
\* The tasks of ~LogWorker: one drops the sinks, one ends the worker's thread.
Clear == [task |-> "clear"]
Quit == [task |-> "quit"]
Task == Message \cup {Clear, Quit}

Top(t) == stack[t][Len(stack[t])]
At(t, pc) == proc = "running" /\ stack[t] # <<>> /\ Top(t).pc = pc
WithTop(t, e) == [stack EXCEPT ![t] = [@ EXCEPT ![Len(@)] = e]]
Goto(t, pc) == stack' = WithTop(t, [Top(t) EXCEPT !.pc = pc])
Blocked(t) ==
  {stack[t][i].sig : i \in {j \in DOMAIN stack[t] : stack[t][j].handler}}
Quiet == proc = "running" /\ \A t \in All : stack[t] = <<>>
\* The threads there are: the worker's is started and ended with the worker.
Living == Threads \cup (IF bg \in {"none", "gone"} THEN {} ELSE {Bg})

Init ==
  /\ inited = FALSE /\ early = FALSE
  /\ worker = "none" /\ logger = FALSE
  /\ disp = [s \in Signals |-> "default"]
  /\ saved = [s \in Signals |-> "none"]
  /\ gSignals = Signals
  /\ firstExit = FALSE
  /\ hook = "empty" /\ crashes = 0 /\ exitHandler = "push"
  /\ stack = [t \in All |-> <<>>]
  /\ queue = <<>> /\ bg = "none"
  /\ pending = {} /\ proc = "running"
  /\ sent = 0 /\ overrides = 0

----------------------------------------------------------------------------
(* The table of handlers, set up by one thread before anything goes wrong    *)
(* (no event is handled while initializeLogging or overrideSetupSignals run).*)

\* Faults: the old action is put back but its entry stays; nothing is put back.
RestoredKept(set) ==
  [d |-> [s \in Signals |->
           IF s \in set /\ saved[s] # "none" THEN saved[s] ELSE disp[s]],
   o |-> saved]
RestoredNot(set) == [d |-> disp, o |-> saved]

\* restoreSignalHandler for each signal of set: the new disp and saved.
Restored(set) ==
  [d |-> [s \in Signals |->
           IF s \in set /\ saved[s] # "none" THEN saved[s] ELSE disp[s]],
   o |-> [s \in Signals |-> IF s \in set THEN "none" ELSE saved[s]]]

\* installSignalHandler on top of a table r: every signal of set.
Install(set, r) ==
  /\ disp' = [s \in Signals |-> IF s \in set THEN "g3" ELSE r.d[s]]
  /\ saved' = [s \in Signals |-> IF s \in set THEN r.d[s] ELSE r.o[s]]

\* LogWorker::createLogWorker starts the worker's thread.
CreateLogWorker ==
  /\ Quiet /\ worker = "none"
  /\ worker' = "live" /\ bg' = "idle"
  /\ UNCHANGED <<inited, early, logger, sigVars, firstExit, hook, crashes,
                 exitHandler, stack, queue, pending, proc, sent, overrides>>

\* The first call installs the crash handler, each resets hook and counter.
InitializeLogging ==
  /\ Quiet /\ worker = "live" /\ ~logger
  /\ inited' = TRUE /\ logger' = TRUE
  /\ IF inited THEN UNCHANGED <<disp, saved>>
     ELSE Install(gSignals, [d |-> disp, o |-> saved])
  /\ hook' = "nothing" /\ crashes' = 0
  /\ UNCHANGED <<early, worker, gSignals, firstExit, exitHandler, stack, queue,
                 bg, pending, proc, sent, overrides>>

SetFatalPreLoggingHook ==
  /\ Quiet /\ hook # "user"
  /\ hook' = "user"
  /\ UNCHANGED <<inited, early, worker, logger, sigVars, firstExit, crashes,
                 exitHandler, stack, queue, bg, pending, proc, sent,
                 overrides>>

\* The application takes fatal events itself, or gives them back.
SetFatalExitHandler(handler) ==
  /\ Quiet /\ exitHandler # handler
  /\ exitHandler' = handler
  /\ UNCHANGED <<inited, early, worker, logger, sigVars, firstExit, hook,
                 crashes, stack, queue, bg, pending, proc, sent, overrides>>

\* Fault: the old actions are not put back first.
OverrideOnTop(set) ==
  /\ Quiet /\ overrides < MaxOverrides
  /\ early' = (early \/ ~inited)
  /\ Install(set, [d |-> disp, o |-> saved])
  /\ gSignals' = set
  /\ overrides' = overrides + 1
  /\ UNCHANGED <<inited, worker, logger, firstExit, hook, crashes, exitHandler,
                 stack, queue, bg, pending, proc, sent>>

OverrideSetupSignals(set) ==
  /\ Quiet /\ overrides < MaxOverrides
  /\ early' = (early \/ ~inited)
  /\ Install(set, Restored(gSignals))
  /\ gSignals' = set
  /\ overrides' = overrides + 1
  /\ UNCHANGED <<inited, worker, logger, firstExit, hook, crashes, exitHandler,
                 stack, queue, bg, pending, proc, sent>>

----------------------------------------------------------------------------
(* The end of logging, in a thread that has no trouble itself.               *)

\* shutDownLogging, called by the application: the worker goes on.
ShutDownLogging ==
  /\ proc = "running" /\ logger /\ \E t \in Threads : stack[t] = <<>>
  /\ logger' = FALSE
  /\ UNCHANGED <<inited, early, worker, sigVars, firstExit, hook, crashes,
                 exitHandler, stack, queue, bg, pending, proc, sent, overrides>>

\* ~LogWorker, in thread t, has got to stage pc.
Destroying(t, pc) ==
  proc = "running" /\ t \in Owners /\ worker = pc /\ stack[t] = <<>>

\* shutDownLoggingForActiveOnly(this).
DestroyLogWorker(t) ==
  /\ Destroying(t, "live")
  /\ worker' = "shut" /\ logger' = FALSE
  /\ UNCHANGED <<inited, early, sigVars, firstExit, hook, crashes, exitHandler,
                 stack, queue, bg, pending, proc, sent, overrides>>

\* The task that clears _sinks is sent, and waited for.
SpawnClear(t) ==
  /\ Destroying(t, "shut")
  /\ worker' = "clear" /\ queue' = Append(queue, Clear)
  /\ UNCHANGED <<inited, early, logger, sigVars, firstExit, hook, crashes,
                 exitHandler, stack, bg, pending, proc, sent, overrides>>

\* _bg.reset(nullptr): ~Active sends its last task, and joins the thread.
OwnerReset(t) ==
  /\ Destroying(t, "reset")
  /\ worker' = "join" /\ queue' = Append(queue, Quit)
  /\ UNCHANGED <<inited, early, logger, sigVars, firstExit, hook, crashes,
                 exitHandler, stack, bg, pending, proc, sent, overrides>>

\* The thread has ended; what is left in the queue is lost with it.
OwnerJoin(t) ==
  /\ Destroying(t, "join") /\ bg = "gone"
  /\ worker' = "none" /\ bg' = "none" /\ queue' = <<>>
  /\ UNCHANGED <<inited, early, logger, sigVars, firstExit, hook, crashes,
                 exitHandler, stack, pending, proc, sent, overrides>>

----------------------------------------------------------------------------
(* Fatal events.                                                             *)

\* Fault: shouldDoExit is always true.
PassesAlways == TRUE
\* shouldDoExit: the first caller, and only it.
Passes == ~firstExit

\* Thread t executes its signal handler for s, on top of st[t].
Handle(t, s, st) ==
  /\ firstExit' = TRUE
  /\ stack' = [st EXCEPT
       ![t] = Append(@, Event(s, TRUE, IF Passes THEN "save" ELSE "sleep"))]

\* The kernel delivers s to t: its default action ends the process at once.
Deliver(t, s) ==
  IF disp[s] = "default"
  THEN proc' = "killed" /\ UNCHANGED <<firstExit, stack>>
  ELSE Handle(t, s, stack) /\ UNCHANGED proc

\* LOG(FATAL) or CHECK(false) in a thread that has no trouble yet, and is not in
\* ~LogWorker, which logs nothing.
LogFatal(t) ==
  /\ proc = "running" /\ stack[t] = <<>> /\ crashes < MaxCrashes
  /\ t \in Owners => worker \in {"none", "live"}
  /\ stack' = [stack EXCEPT ![t] = <<Event(Abort, FALSE, "save")>>]
  /\ UNCHANGED <<inited, early, worker, logger, sigVars, firstExit, hook,
                 crashes, exitHandler, queue, bg, pending, proc, sent,
                 overrides>>

\* A thread makes an error of its own, such as a SIGSEGV.
Fault(t, s) ==
  /\ proc = "running" /\ stack[t] = <<>> /\ crashes < MaxCrashes
  /\ Deliver(t, s)
  /\ UNCHANGED <<inited, early, worker, logger, sigVars, hook, crashes,
                 exitHandler, queue, bg, pending, sent, overrides>>

\* A signal is sent to the process, such as a SIGTERM, and arrives on t.
Sent(t, s) ==
  /\ proc = "running" /\ sent < MaxSent
  /\ t \in Living /\ s \notin Blocked(t)
  /\ Deliver(t, s)
  /\ sent' = sent + 1
  /\ UNCHANGED <<inited, early, worker, logger, sigVars, hook, crashes,
                 exitHandler, queue, bg, pending, overrides>>

----------------------------------------------------------------------------
(* saveMessage, for a fatal level.                                           *)

\* auto fatalhook = g_fatal_pre_logging_hook
CopyHook(t) ==
  /\ At(t, "save")
  /\ stack' = WithTop(t, [Top(t) EXCEPT !.pc = "reset", !.hook = hook])
  /\ UNCHANGED <<inited, early, worker, logger, sigVars, firstExit, hook,
                 crashes, exitHandler, queue, bg, pending, proc, sent,
                 overrides>>

\* Fault: the hook stays in place while it runs.
ResetHookNot(t) ==
  /\ At(t, "reset")
  /\ crashes' = crashes + 1
  /\ Goto(t, "hook")
  /\ UNCHANGED <<inited, early, worker, logger, sigVars, firstExit,
                 exitHandler, hook, queue, bg, pending, proc, sent, overrides>>

\* Fault: the crash is not counted.
ResetHookUncounted(t) ==
  /\ At(t, "reset")
  /\ hook' = "nothing"
  /\ Goto(t, "hook")
  /\ UNCHANGED <<inited, early, worker, logger, sigVars, firstExit, crashes,
                 exitHandler, queue, bg, pending, proc, sent, overrides>>

\* The hook is replaced by the one that does nothing, and the crash counted.
ResetHook(t) ==
  /\ At(t, "reset")
  /\ hook' = "nothing"
  /\ crashes' = crashes + 1
  /\ Goto(t, "hook")
  /\ UNCHANGED <<inited, early, worker, logger, sigVars, firstExit,
                 exitHandler, queue, bg, pending, proc, sent, overrides>>

\* fatalhook() returns, and the message gets its note on recursive crashes.
HookReturns(t) ==
  /\ At(t, "hook") /\ Top(t).hook # "empty"
  /\ stack' = WithTop(t, [Top(t) EXCEPT !.pc = "send", !.recursive = crashes > 1])
  /\ UNCHANGED <<inited, early, worker, logger, sigVars, firstExit, hook,
                 crashes, exitHandler, queue, bg, pending, proc, sent,
                 overrides>>

\* The call of an empty hook throws, out of ~LogCapture, which is noexcept:
\* std::terminate calls abort, which unblocks SIGABRT and raises it.
HookThrows(t) ==
  /\ At(t, "hook") /\ Top(t).hook = "empty"
  /\ IF disp[Abort] = "default"
     THEN proc' = "killed" /\ UNCHANGED <<firstExit, stack>>
     ELSE /\ Handle(t, Abort, WithTop(t, [Top(t) EXCEPT !.pc = "crashed"]))
          /\ UNCHANGED proc
  /\ UNCHANGED <<inited, early, worker, logger, sigVars, hook, crashes,
                 exitHandler, queue, bg, pending, sent, overrides>>

\* The user's hook meets a fatal signal itself.  A signal that is blocked in
\* this thread cannot be handled: the kernel ends the process.
HookCrashes(t, s) ==
  /\ At(t, "hook") /\ Top(t).hook = "user" /\ crashes < MaxCrashes
  /\ IF disp[s] = "default" \/ s \in Blocked(t)
     THEN proc' = "killed" /\ UNCHANGED <<firstExit, stack>>
     ELSE /\ Handle(t, s, WithTop(t, [Top(t) EXCEPT !.pc = "crashed"]))
          /\ UNCHANGED proc
  /\ UNCHANGED <<inited, early, worker, logger, sigVars, hook, crashes,
                 exitHandler, queue, bg, pending, sent, overrides>>

\* The user's hook calls LOG(FATAL), or a CHECK in it is broken.
HookLogsFatal(t) ==
  /\ At(t, "hook") /\ Top(t).hook = "user" /\ crashes < MaxCrashes
  /\ stack' = [stack EXCEPT
       ![t] = Append(WithTop(t, [Top(t) EXCEPT !.pc = "crashed"])[t],
                     Event(Abort, FALSE, "save"))]
  /\ UNCHANGED <<inited, early, worker, logger, sigVars, firstExit, hook,
                 crashes, exitHandler, queue, bg, pending, proc, sent,
                 overrides>>

\* The application's own exit handler returns without a call of
\* pushFatalMessageToLogger, and the thread goes on where the event met it: in
\* the hook, in an earlier event, or in the program.  abort, which called the
\* handler of SIGABRT, then ends the process.
FatalReturns(t) ==
  /\ At(t, "send") /\ exitHandler = "own"
  /\ LET rest == Front(stack[t])
         inHook == rest # <<>> /\ Last(rest).pc = "crashed"
     IN IF inHook /\ Last(rest).hook = "empty"
        THEN proc' = "killed" /\ UNCHANGED stack
        ELSE /\ stack' = [stack EXCEPT ![t] =
                  IF inHook THEN [rest EXCEPT ![Len(rest)].pc = "hook"] ELSE rest]
             /\ UNCHANGED proc
  /\ UNCHANGED <<inited, early, worker, logger, sigVars, firstExit, hook,
                 crashes, exitHandler, queue, bg, pending, sent, overrides>>

\* pushFatalMessageToLogger, called by fatalCall or by the application's own
\* handler: without a logger the thread ends the process.
FatalCheck(t) ==
  /\ At(t, "send")
  /\ Goto(t, IF logger THEN "push" ELSE "restore")
  /\ UNCHANGED <<inited, early, worker, logger, sigVars, firstExit, hook,
                 crashes, exitHandler, queue, bg, pending, proc, sent,
                 overrides>>

\* g_logger_instance->fatal; then the thread sleeps.  The logger may have been
\* closed since the test: its pointers are read again and are null, or the
\* message still gets to the queue of a worker that is being destroyed.
FatalSave(t) ==
  /\ At(t, "push")
  /\ \/ /\ worker # "none"
        /\ queue' = Append(queue,
                          [sig |-> Top(t).sig, recursive |-> Top(t).recursive])
        /\ Goto(t, "sleep") /\ UNCHANGED proc
     \/ /\ ~logger
        /\ proc' = "undefined" /\ UNCHANGED <<stack, queue>>
  /\ UNCHANGED <<inited, early, worker, logger, sigVars, firstExit, hook,
                 crashes, exitHandler, bg, pending, sent, overrides>>

----------------------------------------------------------------------------
(* exitWithDefaultSignalHandler, in a thread of the application.             *)

Restore(s) ==
  /\ disp' = Restored({s}).d
  /\ saved' = Restored({s}).o
  /\ UNCHANGED gSignals

RestoreOwn(t) ==
  /\ At(t, "restore")
  /\ Restore(Top(t).sig)
  /\ Goto(t, "kill")
  /\ UNCHANGED <<inited, early, worker, logger, firstExit, hook, crashes,
                 exitHandler, queue, bg, pending, proc, sent, overrides>>

\* kill(getpid(), s), called in thread c, with the stacks st.  The kernel sees
\* to it that c gets the signal before kill returns if c is the only thread that
\* does not block it; otherwise it is left pending.
Kill(c, s, st) ==
  IF {u \in Living : s \notin Blocked(u)} = {c}
  THEN /\ pending' = pending \ {s}
       /\ IF disp[s] = "default"
          THEN proc' = "killed" /\ stack' = st /\ UNCHANGED firstExit
          ELSE UNCHANGED proc /\ Handle(c, s, st)
  ELSE /\ pending' = pending \cup {s}
       /\ stack' = st /\ UNCHANGED <<firstExit, proc>>

KillOwn(t) ==
  /\ At(t, "kill")
  /\ Kill(t, Top(t).sig, WithTop(t, [Top(t) EXCEPT !.pc = "exit"]))
  /\ UNCHANGED <<inited, early, worker, logger, sigVars, hook, crashes,
                 exitHandler, queue, bg, sent, overrides>>

\* A pending signal arrives on a thread that does not block it.
Arrive(t, s) ==
  /\ proc = "running" /\ s \in pending
  /\ t \in Living /\ s \notin Blocked(t)
  /\ pending' = pending \ {s}
  /\ Deliver(t, s)
  /\ UNCHANGED <<inited, early, worker, logger, sigVars, hook, crashes,
                 exitHandler, queue, bg, sent, overrides>>

\* kill has returned: exit(s).
ExitOwn(t) ==
  /\ At(t, "exit")
  /\ proc' = "exited"
  /\ UNCHANGED <<inited, early, worker, logger, sigVars, firstExit, hook,
                 crashes, exitHandler, stack, queue, bg, pending, sent,
                 overrides>>

----------------------------------------------------------------------------
(* The worker's thread: bgFatal, unless a handler has taken the thread over. *)

BgTurn(pc) == proc = "running" /\ bg = pc /\ stack[Bg] = <<>>

\* The message is popped, the logger closed and the sinks flushed.
BgFatal ==
  /\ BgTurn("idle")
  /\ queue # <<>> /\ Head(queue) \in Message
  /\ logger' = FALSE
  /\ bg' = "restore"
  /\ UNCHANGED <<inited, early, worker, sigVars, firstExit, hook, crashes,
                 exitHandler, stack, queue, pending, proc, sent, overrides>>

BgRestore ==
  /\ BgTurn("restore")
  /\ Restore(Head(queue).sig)
  /\ bg' = "kill"
  /\ UNCHANGED <<inited, early, worker, logger, firstExit, hook, crashes,
                 exitHandler, stack, queue, pending, proc, sent, overrides>>

BgKill ==
  /\ BgTurn("kill")
  /\ Kill(Bg, Head(queue).sig, stack)
  /\ bg' = "exit"
  /\ UNCHANGED <<inited, early, worker, logger, sigVars, hook, crashes,
                 exitHandler, queue, sent, overrides>>

BgExit ==
  /\ BgTurn("exit")
  /\ proc' = "exited"
  /\ UNCHANGED <<inited, early, worker, logger, sigVars, firstExit, hook,
                 crashes, exitHandler, stack, queue, bg, pending, sent,
                 overrides>>

\* The task that clears _sinks, and the one that ends the thread: what is behind
\* that one is not run.
BgClear ==
  /\ BgTurn("idle")
  /\ queue # <<>> /\ Head(queue) = Clear
  /\ queue' = Tail(queue) /\ worker' = "reset"
  /\ UNCHANGED <<inited, early, logger, sigVars, firstExit, hook, crashes,
                 exitHandler, stack, bg, pending, proc, sent, overrides>>

BgQuit ==
  /\ BgTurn("idle")
  /\ queue # <<>> /\ Head(queue) = Quit
  /\ bg' = "gone"
  /\ UNCHANGED <<inited, early, worker, logger, sigVars, firstExit, hook,
                 crashes, exitHandler, stack, queue, pending, proc, sent,
                 overrides>>

----------------------------------------------------------------------------

\* What thread t does about the event on top of its stack.
Continue(t) ==
  \/ CopyHook(t) \/ ResetHook(t) \/ FatalReturns(t) \/ FatalCheck(t) \/ FatalSave(t)
  \/ RestoreOwn(t) \/ KillOwn(t) \/ ExitOwn(t)
  \/ HookReturns(t) \/ HookThrows(t) \/ HookLogsFatal(t)
  \/ \E s \in HookSignals : HookCrashes(t, s)

BgStep == BgFatal \/ BgRestore \/ BgKill \/ BgExit \/ BgClear \/ BgQuit
DestroyStep(t) == SpawnClear(t) \/ OwnerReset(t) \/ OwnerJoin(t)

Next ==
  \/ CreateLogWorker \/ InitializeLogging \/ SetFatalPreLoggingHook
  \/ ShutDownLogging
  \/ \E t \in Owners : DestroyLogWorker(t) \/ DestroyStep(t)
  \/ \E set \in Overrides : OverrideSetupSignals(set)
  \/ \E handler \in ExitHandlers : SetFatalExitHandler(handler)
  \/ \E t \in Threads : LogFatal(t) \/ \E s \in Signals : Fault(t, s)
  \/ \E t \in Targets, s \in Signals : Sent(t, s)
  \/ \E t \in All, s \in Signals : Arrive(t, s)
  \/ \E t \in All : Continue(t)
  \/ BgStep

Spec == Init /\ [][Next]_vars

\* Threads that can run do run; nobody has to set up anything, to crash or to
\* begin a destructor.
Fairness ==
  /\ \A t \in All : WF_vars(Continue(t))
  /\ \A t \in Owners : WF_vars(DestroyStep(t))
  /\ WF_vars(BgStep)

FairSpec == Spec /\ Fairness

\* Only the worker's thread is sure to run.
WorkerFairSpec == Spec /\ WF_vars(BgStep)
----------------------------------------------------------------------------
(* Properties.                                                               *)

TypeOK ==
  /\ inited \in BOOLEAN /\ early \in BOOLEAN /\ logger \in BOOLEAN
  /\ worker \in {"none", "live", "shut", "clear", "reset", "join"}
  /\ disp \in [Signals -> {"default", "g3"}]
  /\ saved \in [Signals -> {"none", "default", "g3"}]
  /\ gSignals \subseteq Signals
  /\ firstExit \in BOOLEAN /\ hook \in Hooks /\ crashes \in Nat
  /\ exitHandler \in {"push", "own"}
  /\ stack \in [All -> Seq(Events)]
  /\ queue \in Seq(Task)
  /\ bg \in {"none", "idle", "restore", "kill", "exit", "gone"}
  /\ pending \subseteq Signals
  /\ proc \in {"running", "killed", "exited", "undefined"}
  /\ sent \in 0 .. MaxSent /\ overrides \in 0 .. MaxOverrides

\* A signal that g3log catches can be given back: its action before g3log is
\* saved, and never g3log's own handler, so that restoring it ends the process
\* (restoreSignalHandler, exitWithDefaultSignalHandler).  Setting up the signals
\* before initializeLogging breaks it.
WayBack == early \/
  \A s \in Signals : saved[s] # "g3" /\ (disp[s] = "g3" <=> saved[s] = "default")

\* Only one signal is let past the gate, whatever threads get one and however
\* deep they are in another event: one report, and no second hand-over.
OneSignalPasses ==
  \A t, u \in All : \A i \in DOMAIN stack[t], j \in DOMAIN stack[u] :
    /\ stack[t][i].handler /\ stack[t][i].pc # "sleep"
    /\ stack[u][j].handler /\ stack[u][j].pc # "sleep"
    => t = u /\ i = j

\* The pre-fatal hook is not run inside itself: an event met in the hook finds
\* the hook that does nothing (g3log.cpp:165-167).
HookNotReentered ==
  \A t \in All : \A i, j \in DOMAIN stack[t] :
    i < j /\ stack[t][i].pc = "crashed" => stack[t][j].hook # "user"

\* A crash in the hook is reported as one: the message of an event met in the
\* hook carries the note on recursive crashes (g3log.cpp:176-185).
RecursionNoted ==
  \A t \in All :
    At(t, "push") /\ (\E i \in DOMAIN stack[t] : stack[t][i].pc = "crashed")
      => Top(t).recursive

\* The process ends by the signal of its fatal event: the signal that g3log sends
\* itself, to the application's threads or the worker's, is never caught by g3log
\* again, and exit() is reached only while that signal is still under way (it is
\* blocked in every thread, as in the only one left after ~LogWorker, or it comes
\* late to a thread that does not block it).
EndsByItsSignal == early \/
  /\ \A s \in pending : disp[s] = "default"
  /\ proc = "exited" => pending # {}

\* A fatal message that the worker's thread will get to: one that is not behind
\* the task that ends the thread.
FatalAhead ==
  \E i \in DOMAIN queue :
    queue[i] \in Message /\ \A j \in 1 .. i : queue[j] # Quit

\* A fatal message that was handed over ends the process, also when ~LogWorker
\* has begun.
QueuedFatalEnds == FatalAhead ~> (early \/ proc # "running")

\* Every fatal event ends the process, recursive crashes included
\* (g3log.cpp:229-233; g3log.hpp:79-80).
EveryFatalEnds == (\E t \in Threads : stack[t] # <<>>) ~> proc # "running"
=============================================================================
