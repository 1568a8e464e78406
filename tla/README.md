# A TLA+ verification project for g3log

g3log is an asynchronous logger for C++: application threads hand messages to a
background worker, which passes a copy to every sink, and each sink works in a
thread of its own. On a fatal event (`LOG(FATAL)`, a broken `CHECK`, a fatal
signal) it flushes the log and then ends the process by the signal. This
directory holds TLA+ models of that machinery, TLC runs that check them on small
instances, and TLAPS proofs that hold for every value of the constants.

Paths below are relative to the source tree (`src/logworker.cpp` is the file
`logworker.cpp` of the library's source directory). `PROJECT.json` maps every
definition to the lines it stands for, lists the runs, one mutant per checked
property (a plausible bug the property catches; the mutated definitions are the
ones commented "Fault" in the modules), the hazards and the theorems.

## 1. The system

| Component | State | Operations | What makes it correct |
|---|---|---|---|
| `shared_queue` (`g3log/shared_queue.hpp`) | queue, mutex, condition variable | `push`, `try_and_pop`, `wait_and_pop` | FIFO; no lost wakeup |
| `Active` (`g3log/active.hpp`) | a queue, a thread, `done_` | `send`, `run`, `~Active` (quit task, join) | every task runs once, in order; the quit task is the last |
| futures (`g3log/future.hpp`), `MoveOnCopy` | packaged task in a queue | `spawn_task` | every future becomes ready |
| `Sink`, `SinkHandle` (`g3log/sink.hpp`, `sinkhandle.hpp`) | an `Active`, the real sink, a `weak_ptr` | `send`, `async`, `call`, `~Sink` | nobody reaches a dead sink; it is destroyed once, after its queue |
| `LogWorker` (`logworker.cpp`, `g3log/logworker.hpp`) | `_sinks`, `_bg` | `save`, `fatal`, `addSink`, `~LogWorker`; in its thread `bgSave`, `bgFatal` | each sink gets the right messages in order; shutdown and fatal exit flush |
| front end (`g3log.cpp`, `g3log/g3log.hpp`) | `g_logger_instance`, first uninitialized message, hook, crash counter | `initializeLogging`, `saveMessage`, `pushMessageToLogger`, `pushFatalMessageToLogger`, `shutDownLogging...` | nobody uses a worker that is gone; one initialization |
| crash handler (`crashhandler_unix.cpp`) | `gSignals`, `gSavedSigActions`, the kernel's table, `firstExit` | `installSignalHandler`, `signalHandler`, `restoreSignalHandler`, `overrideSetupSignals`, `exitWithDefaultSignalHandler` | one report; the process ends by the signal |
| dynamic levels (`loglevels.cpp`) | map level -> (status, level) | `addLogLevel`, `reset`, `set`, `setHighest`, `enableAll`, `disableAll`, `logLevel` | levels settle as asked; asking changes nothing |
| `FileSink` (`filesink.cpp`, `filesinkhelper.ipp`) | open file, its path, symlink, header | construct, `fileWrite`, `changeLogFile`, `overrideLogHeader`, destroy | the stream is always usable; the link points to the newest file |
| `CustomSink`, `InitG3Logging` (`g3log/sinks/custom_sink.cpp`) | static worker, stderr threshold | start, stop at exit | shutdown at exit ends |
| `LogCapture`, macros (`logcapture.cpp`, `g3log.hpp`) | the entry being written, static counters | capture, `capturef`, `EVERY_N`, `FIRST_N` | truncation, counting |
| `LogMessage`, stack dump (`logmessage.cpp`, `crashhandler_unix.cpp`) | the parts of a message, its layout | construct, copy, move, assign, `toString` and the layouts, `stackdump` | what was captured is what a sink reads, on every way to it |
| time (`time.cpp`) | a format | `put_time`, `localtime_formatted` | the fraction of a second is the right one, in every format |
| flags, Windows headers, examples | - | - | see section 6 |

How they interact. A `LOG` in any thread builds a `LogCapture`; its destructor
calls `saveMessage`, which tests `g_logger_instance` and sends a closure to the
worker's `Active`. The worker's thread runs `bgSave`, which sends a copy of the
message to the `Active` of each sink; the sink's thread runs the log call.
`SinkHandle::call` bypasses the worker: it locks a `weak_ptr` and sends a task to
the sink directly. A fatal event runs the pre-fatal hook in its own thread, sends
a fatal message and sleeps; `bgFatal` in the worker's thread closes the logger,
sends the message to all sinks, destroys them (which flushes them), restores the
signal's old action and kills the process.

The hard parts: the two-stage queues and shared ownership of sinks by the worker
and by callers; the unlocked test of `g_logger_instance`; shutdown against late
callers; fatal events in several threads, in hooks and in sinks' callbacks;
handlers installed on top of each other; a log-level map that changes while it is
read; counters without a lock in every counting macro. `PROJECT.json` lists each of these at the line where it bites.

## 2. The modules

**`LogWorker`** models one worker, its sinks, any number of clients, and the
owner that runs `~LogWorker`. Each queue is the sequence of all tasks ever
pushed with a head that counts the popped ones, so that the past stays visible to
the properties; a message is named by its position in the worker's queue. The
state follows the code: `sinks` is `_sinks`, `logger` is `g_logger_instance !=
nullptr`, `owner` how far the destructor is, `held` the `shared_ptr` in a
client's frame, `joining` the sink a thread is blocked in `join()` on. `regAt`
and `cutAt` are auxiliary: when a sink entered and left `_sinks`. There is one
action per step that another thread can see: the test of the logger (`LogCheck`,
`FatalCheck`) and the use of it (`LogSave`, `FatalSave`) are separate, because
the code does not hold a lock across them; so are, in `spawn_task`, the test of the worker's
`Active` (`AddTest`) and the send to it (`AddSend`). A thread that has read a pointer in time
still sends while `~Active` is joining (`ActiveLives`): its task is then behind the quit task
and dies with the queue, and with it the promise its caller waits for (`OwnerJoin`). Each turn of the loops in `bgSave` and
`bgFatal` is a `BgSend`; `vector::clear` destroys the sinks one by one
(`BgDestroy`), and each last reference runs `~Sink` in whatever thread drops it
(`Release`, `Joined`). A use of the worker that has undefined behaviour leads to
`proc = "undefined"`, where the model stops.

**`SharedQueue`** models the queue at the level of its mutex and condition
variable, with `notify_one` after the unlock and with spurious wakeups.
**`FifoQueue`** is what `LogWorker` assumes of it: a log with a head.
`SharedQueue` implements `FifoQueue` under the mapping `log <- taken \o queue,
head <- Len(taken)`. This is what allows `LogWorker` to push and pop in one step.

**`Broadcast`** is what `LogWorker` promises, without queues, threads and clients:
messages are accepted, sinks come and go, and each sink is given the messages
between, in order and without a gap. `LogWorker` implements it under the mapping
`accepted <- {i \in DOMAIN bgLog : IsMsg(i)}, members <- Elems(sinks), since <-
regAt, given <- [s |-> MsgsIn(sinkLog[s])]` (`BroadcastSpec`). A sink that has left is
given nothing more, one leaves only between two messages, and what is discarded when
the worker's queue dies was given to nobody.

**`LogLevels`** models the map of dynamic levels. The traversals take one step
per entry, with questions of other threads in between; `logLevel` inserts the
default entry for an unknown level, as `operator[]` does; `getStatus` only reads. `added`, `strayed`,
`asked` and `before` are auxiliary: what the calls ask for.

**`FatalPath`** models a fatal event from its thread to the end of the process.
Each thread has a stack of events, because a signal can interrupt the handling of
the event before. The signals' actions (`disp`), the saved ones (`saved`), the
gate of `signalHandler` (`firstExit`), the hook and the crash counter are the
code's. Delivery and blocking of signals are the kernel's (mapped as external).
What the sinks do meanwhile is left to `LogWorker`: `BgFatal` is one step here.
The worker has a life of its own: `CreateLogWorker` starts its thread, `ShutDownLogging` only
closes the logger, and the thread in `Owners` may destroy the worker at any moment, whatever
the others are handling: it closes the logger (`DestroyLogWorker`), sends the clear task and
waits (`SpawnClear`, `BgClear`), sends the quit task and joins (`OwnerReset`, `BgQuit`,
`OwnerJoin`); `worker` is how far it is. Afterwards another worker can be created. `kill()` is
what POSIX says of it: the calling thread gets the signal before `kill()` returns if no other
thread has it unblocked; otherwise it is in `pending` until it reaches a thread that does not
block it (`Arrive`), and the caller goes on to `exit()`. A handler blocks its own signal, and
`Living` are the threads there are to take one, without the worker's once it has ended.
`setFatalExitHandler` is an action: with an exit handler of the program's own
(`ExitHandlers`) the handler either hands the message on or returns, and then the thread
goes on where the event met it.
`MaxCrashes` bounds the fatal events where they could go on for ever, `MaxSent` the
signals from outside, `MaxOverrides` the calls of `overrideSetupSignals`.

**`FrontEnd`** models which worker log calls go to. Each thread has a place in
its call (`pc`); the reads of `g_logger_instance` are steps of their own because
no reader takes the mutex, and it is read twice in `pushMessageToLogger` (`Test`,
`Save`) and in `shutDownLoggingForActiveOnly` (`IsActive`, `Compare`). `kept` is
the first uninitialized message, `keeping` and `saving` are the flags of its two
`call_once`. Each worker has an owner, the thread that creates, initializes and
destroys it; `Static` is the one of `InitG3Logging`. A thread that exits while it
holds the mutex, and would destroy a static worker, ends in `pc = "stuck"`.

**`FileSink`** models several file sinks and the file system they share. A file
is named by directory, level and second, as `createLogFileName` does; a stream has
its position and what it has not flushed, so that what the disk holds is what a
kill of the process leaves. The constructor and `changeLogFile` make a file's name first
(`NameFile`, `NameNewFile`) and open the file later (`Construct`, `ChangeLogFile`), and the
clock may tick, other sinks act or the program be killed in between; `named` is the name.
`told` and `moved` are auxiliary: what was accepted for a file since it was opened, and where a
log went on.

**`LogStatements`** models one logging statement, written with any macro of
`g3log.hpp` for either build, that several threads reach over and over. The three
counting macros keep a plain static `int`, which a thread reads (from a register or
from memory) and writes in separate steps, the `-= n` of `LOG_EVERY_N` included, so that
updates are lost. `calls`,
`overlap` and `raced` are auxiliary: the calls so far modulo the period, and whether
threads were inside at once. The statement's end is a `LogCapture`.

**`TimeFormat`** and **`LogMessage`** are operators, with the one variable each that
says what a run looks at. `TimeFormat` has the loop of
`localtime_formatted_fractions` over the format's characters, one `Turn` for each
fraction it finds, the conversions of `strftime` and `put_time`'s buffer, and beside it a
reference: cut the format into items first, then show each. Loops are recursive functions,
of which one can prove something. `LogMessage` has
the constructors, copies and assignments of a message member by member, the layouts,
`bgFatal`'s last message, the console's line, `capturef` and `stackdump`'s search for
the parentheses, and beside each what a reader of the log is owed. Words of a
text are model values or strings; a character stands for itself where the code
looks at single ones.

The `MC*` modules declare the model values; the constants are in the `.cfg` files.

## 3. The runs

| Run | Instance | What it shows |
|---|---|---|
| `lw_safety` | 2 clients with 2 calls each, 2 sinks, fatal events in a client and in a sink's callback, shutdown at any moment | every sink is sent exactly the messages accepted between its entry into `_sinks` and its leaving, in order; the quit task is the last in a sink's queue; one thread destroys a sink; shutdown and fatal exit find the sinks flushed, apart from a sink a client has in its hands; the worker implements `Broadcast` |
| `lw_live` | 2 clients with 2 calls each, 1 sink, fatal events in a client, shutdown at any moment | the destructor ends, a fatal event ends the process, callers get their answers, queues run empty; no deadlock |
| `lw_fatal_twice` | 2 clients with fatal events, 1 sink | *violated*: a second fatal event ends the process before the sinks are flushed |
| `queue` | 2 producers with 2 items, 2 consumers, one `try_and_pop` each | FIFO, no lost wakeup, every item is taken |
| `levels` | 3 default levels, a custom one below `INFO`, one above `WARNING`, 3 calls | the levels settle as the calls ask, no glitch during a call, asking changes no answer |
| `levels_highest` | the same | *violated*: `setHighest(WARNING)` leaves `INFO` enabled after a question about an unknown level |
| `fatal` | 2 threads, one of which may destroy the worker, and the worker's thread, 2 signals, one sent from outside, one override of the signal set, a hook that raises a signal or logs a fatal message, an exit handler of the application's own | the saved actions lead back to the default ones, one signal passes the gate, the hook is not run inside itself and a crash in it is noted, the process ends by its signal and reaches `exit()` only while that is under way, a queued fatal message ends the process |
| `fatal_hook` | 2 threads and the worker's, 2 signals, no signal from outside, no override, a worker that is not destroyed | *violated*: a hook that raises a signal while a signal is handled leaves the process hanging |
| `filesink` | 2 sinks, 2 directories, 2 seconds, 2 messages, 2 changes or restarts, every opening may fail | at every moment a file holds the messages accepted for it, in order; an old file names its successor; a sink keeps its stream; a file whose second is over is opened by nobody who did not name it in time, and keeps its messages once they are gone |
| `filesink_link` | 1 sink, 2 directories, 2 seconds | *violated*: after `changeLogFile` the symlink points to the previous file |
| `frontend` | 2 threads with a worker each, one of them static, 2 messages, 4 further calls | the active worker exists and is never replaced; the first uninitialized message is saved once and comes first; every call returns |
| `statements` | 2 threads, counting macros with N = 3, counters up to 5 off their course; all formats of up to 4 characters, lines of up to 6, texts of up to 5 | counting macros count exactly while threads do not overlap, recover when races end, and `FIRST_N` falls silent; a time shows the right fraction; a report has every part that was captured; stack frames keep their text; a cut text is marked |

The violated runs each check one sentence of a comment against the code; the
sentence and the counterexample are under "findings".

Bounds. Two sinks let one be added, cleared or held while another is served; two
clients let one hold a sink that the other, the worker or the owner gives up, and
let one be between the test and the use of the logger while another has met a
fatal event. Two calls per client reach log-then-log (order), add-then-call and
log-then-crash. `lw_live` needs one sink less, since no property of it relates
two. Two items per producer make the queue longer than one while consumers sleep,
which is what a lost wakeup needs. Three level calls let one add or reset a level and two
more act on what it left, with any questions before, between and during them. Two threads,
one signal from outside and two further events that could repeat for ever reach every order of two nested and
two parallel events; with one of the threads as the worker's owner there is one to handle an
event at every step of the destructor and after it, and that thread is then the only one that
does not block the signal, or blocks it as well. In `filesink`, two sinks can have a file open at once, two
seconds let names collide or not, two messages show order and overwriting, and
two changes or restarts reach a chain of files, a return to the same name and a
restart within the second. In `frontend`, two threads with two messages have one in
every step of a log call while the other goes through a whole initialization or
shutdown; with four calls a worker is initialized, shut down, initialized again
and destroyed, and further ones follow. The invariants proved with TLAPS (section 5) do not depend
on any of these bounds.

Where deadlock is not checked, the system may really stop: in `lw_safety` a fatal
event in a sink's callback makes `bgFatal` wait for the sink's thread, which
sleeps; in `fatal` and `fatal_hook` a process without events is idle, a killed one
takes no step, and all threads may be asleep in the fatal path; in `filesink`,
`filesink_link` and `frontend` nobody has to make a further call, and a process that
has exited or is stuck in `exit` takes no step.

In `statements` the state is about the statement or about one text, which then never
changes: its steps stutter. Format and line lengths are such that a conversion is
cut off at the end, doubled, adjacent to another and between literals, and that
each parenthesis is missing, doubled or out of order. `put_time`'s buffer (25 characters
in the run, 1024 in the code) holds every text of the run: one that does not fit is
replaced by its format, which `TimestampRight` excepts. N = 3 has a call between
the first and the last of a period, and drifts past it on both sides.

`TypeOK` is an invariant of a run only in `filesink`; of the other modules with
proofs it is proved (section 5).

In `lw_live`, a behaviour may also end in a use of a worker that is shut down or
gone (`proc = "undefined"`): what happens then is not defined by the code, and the
liveness properties say nothing of it. All other interleavings have to make
progress.

## 4. Fairness

The operating system runs every thread that can run, so the steps a thread takes
inside a call, the loops of the worker's and the sinks' threads and the steps of
a destructor that has begun are weakly fair. Nobody has to start a call, to meet
a fatal event, to destroy the worker, to set up signals or to send one. In
`SharedQueue` taking the mutex is strongly fair: a thread that keeps asking for a
mutex that is free again and again gets it in the end, which `std::mutex` does not
promise but every scheduler in use delivers; and a consumer calls `wait_and_pop`
again and again, as `Active::run` does. Spurious wakeups are never required.
The run `fatal` is more sparing: only the worker's thread has to run (`WorkerFairSpec`), since
`QueuedFatalEnds` needs no other; `fatal_hook` lets every thread run (`FairSpec`), so that its
counterexample is no thread that has merely stopped.
In `FrontEnd` the steps inside a call are weakly fair and taking
`g_logging_init_mutex` strongly, for the same reason. In `LogStatements` a thread inside
the statement goes on (`Continue`), and none has to enter it. `FileSink` states no
liveness.

## 5. What is proved

All proofs are checked by TLAPS without any assumption but the ones named in the
modules: `ThreadsAssumption` (clients, sinks and the two other threads are
distinct), `QueueAssumption` (finite disjoint sets of threads),
`LevelsAssumption` (levels are integers, the defaults are levels),
`FrontEndAssumption` (every worker has one thread that owns it, and null is
neither a worker, a thread nor a number), `FatalAssumption`, `NAssumption`,
`MessageAssumption` (texts are sequences of strings, a stack has a frame, statements do
not use g3log's internal levels) and the assumption of `FileSink` on its constants. The numbers of threads, sinks, workers, items, levels,
signals and files are arbitrary, and so is the thread a signal from outside arrives on.

* `LogWorkerProofs`: `TypeCorrect`, `DeliveryIsComplete`, `DeliveryIsOrdered`.
  Delivery is not inductive: what a sink has been sent depends on when it entered
  `_sinks`, and that it enters only once depends on the `add` task being queued
  once, by the client that holds the new sink
  (`Adding`, from the test of the worker's `Active` to the send). `IInv` therefore adds: at most
  one `add` task per sink, and none while its client has not sent it; `regAt`
  and `cutAt` are set exactly for sinks that entered and left; `sinks` has no
  sink twice and holds those that entered and have not left; what is left of a loop
  (`bgTodo`) are sinks in `_sinks`, each once; and the worker's thread has exited before
  `_sinks` is destroyed. The step that matters is `BgSend`: the sink it serves leaves `bgTodo`,
  so the window of complete deliveries grows by the current message, which is
  the one appended. The other steps leave a sink's messages alone or append an
  entry that is no message.
  In the same module: `QuitTaskIsLast`, `OneThreadDestroys`, `ShutdownFlushesSinks`,
  `FatalFlushesSinks`. The argument is about one sink (`OneSink`): once its thread was
  started, it either has an owner (`_sinks` or a client's frame) or has been sent the quit
  task, never both; the quit task is the last of its queue; after it was sent, exactly one
  thread is blocked in `join()` until the sink's thread has ended, with an empty
  queue. To keep this, `BgAdd` must not revive a sink nobody owns, so `Awaited`
  says that for every add task in the queue a client waits with the sink in its
  frame. `Busy` keeps a thread from joining two sinks at once. `ClearDone` says
  that after the clear task no sink added before it is in `_sinks` or waited for
  by the worker's thread or the owner: such a sink is owned by a client, joined by
  a client, or has run all it was sent. The end by a fatal event follows in the
  same way from what `BgExit` has waited for.
  `LogWorkerIsBroadcast`: every step of `LogWorker` is
  `Accept`, `Join`, `Deliver`, `Leave` or `Discard` of `Broadcast` or a stutter, by the
  invariant above; the queue that dies with its `Active` is a `Discard`,
  since nobody was sent a message beyond the head.
* `SharedQueueProofs`: `TypeCorrect`, `WakeupNotLost`, `QueueIsFifo`. The
  inequality needs with it that a sleeper is inside `wait_and_pop`, that nobody
  sleeps with the mutex, and that a thread inside `push` has an item: each item
  beyond the awake consumers is covered by a producer that is yet to notify. A
  `Notify` that finds a sleeper trades a notifier for an awake consumer; one that
  finds none leaves nobody asleep; a consumer falls asleep only while the queue is
  empty. `QueueIsFifo` maps every step to `Put`, `Take` or a stutter.
* `LogLevelsProofs`: `TypeCorrect`, `CallsTakeEffect`, `NoLevelGlitches`,
  `AskingIsNeutral`. The invariant says, during a traversal, that the governed
  levels already visited have the status this call asks for and the ones ahead
  still have the one asked for before, and that an entry whose level is not its
  key is an inserted one, for `INFO`: that is why `INFO` has to be left out once an
  unknown level has been asked for.
* `FrontEndProofs`: `TypeCorrect`, `ActiveWorkerIsAlive`, `ActiveIsNotReplaced`,
  `FirstMessageComesFirst`, `KeptMessageIsSaved`.
  That the active worker is alive is not inductive: a destructor that is about to
  free its worker must know that it is not the active one. `IInv` adds who holds
  the mutex where, and that between the test and the assignment in
  `initializeLogging` there is no logger (`Holding`); that a call is about a worker
  that is alive and the caller's own (`Calling`); and that a destructor past its
  comparison or its shutdown has a worker that is not active (`PassedOver`), which
  stays so because only its owner could make it active, and the owner is busy.
  For the messages, each number is in one place (`Once`): with the thread that
  logs it, kept, or at one position of one worker's queue; and until the flag for
  saving is used the kept message stays, no worker has a message and there is no
  logger (`Kept`).
* `FatalPathProofs`: `TypeCorrect`, `WayBackHolds`, `OneSignalPassesHolds`,
  `HookNotReenteredHolds`, `RecursionNotedHolds`, `EndsByItsSignalHolds`. The table of
  handlers (`Table`): unless the signals were set up before `initializeLogging`, no saved
  action is g3log's own, and what is caught was saved. The gate (`Gate`): over all
  stacks, at most one event of the signal handler is past it, and there is none at all
  before it was used. The nesting (`Nested`): while an event is in the hook the hook is
  no longer set and the crash counter is above zero; whatever interrupted a crashed hook
  has not copied it, and its message will have the note on recursive crashes. `Waiting`: while a message is
  queued its thread sleeps, and while a signal is pending its sender does or is about to exit. `EndsByItsSignal` needs in addition what an
  event on its way to the end finds in the table (`EInv`): behind its restore, in an
  application's thread or the worker's, its signal has the default action, and behind its
  `kill()` the process has ended or the signal is pending.
* `FileSinkProofs`: `TypeCorrect`, `OldFileNamesNewHolds`, `StreamKeptHolds`. A file that
  two sinks have open at once is shared (`OpenTwice`), and one that a log has left, until it
  is opened again, is open in no sink unless it is shared (`LeftFiles`). So nobody truncates
  the name of the successor away or writes over it.
  `DiskInvariant`, `MessagesOnDiskHolds`, `OldMessagesStayHolds`: that a file has its
  messages is not inductive, since a stream writes at a position of its own. `DiskInv`
  adds, of every file that no two sinks share, that at most one sink has it open and that
  all its messages are in front of that sink's position (`Held`; behind it is what the sink
  wrote before it came back to a file it already had), and that what is not flushed is no
  message (`Flushing`). The messages in a text are a recursive function of it
  (`MessagesIn`); that a text without messages adds none, and a message one, is proved by
  induction over the text. `OldMessagesStay` follows: a step that gives a sink a name to open
  takes it from the clock (`MayOpenStep`), and one that empties a file is by a sink that may
  open it (`OldFileStep`).
* `LogStatementsProofs`: `TypeCorrect`, `CounterInvariant`, `CountsExactHolds`. The
  invariant (`CountInv`): as long as there was no overlap, at most one thread is between
  the load of the counter and its test; when none is, the counter is the number of
  calls so far (modulo N for the wrapping macros); in between it is ahead or behind by
  what that thread has done (`CountAt`), and its register is the counter.
* `TextProofs`: `ReportCompleteHolds`, `FramesKeptHolds`, `CutIsMarkedHolds`, of every text the
  module can be asked about, for any levels, signals, paths, stacks and buffers.
  A frame's line is cut at three places whose order follows from how they are searched,
  and the plain text of the pieces joined is the plain text of the line; a dump is
  the join of its frames. A layout is a join of texts each of which says its parts
  (`Tells`), and a join says the parts of both, one behind the other (`SaysBoth`).
  That signals and exceptions have levels of their own, which no statement uses
  (`g3::internal` in `g3log/loglevels.hpp`), is part of `MessageAssumption`: the layout of a
  fatal signal shows neither file nor function.
* `TextProofs`, of the time in front of a message: `TimestampRightHolds`, for a format of
  any length, every instant and every locale. Two inductions over the items of the
  format: the loop's buffer is at any time what was put in for the items passed, without a
  `%f` left in it behind the loop's position, and the rest of the format as it was
  (`Loaded`, `FractionsPut`); and `strftime` comes past each item having made of it what
  the item is to show (`Said`, `RestConverted`), because digits are no conversions and a
  lone `%` is not followed by what would make it one (`NoneArises`). That a fraction is
  its first decimals is arithmetic on the powers of ten (`FractionIs`). Of the
  locale `TimeAssumption` says only that `%f` is no conversion and `%%` is one.

Induction over data is done in these proofs without the library's induction
theorems: `IntervalInduction` (of `TextProofs` and `FileSinkProofs`) states it for a
set instead of a predicate and follows from the well-foundedness of the strict subset
ordering on finite sets; `Recursion` gives from it the function that a recursive
definition stands for.

Only model-checked: everything temporal under fairness (`ShutdownEnds`,
`FatalEndsProcess`, `CallsReturn` of two modules, `QueuesDrain`, `EveryItemTaken`,
`QueuedFatalEnds`, `RacesSettle`, `FirstNFallsSilent`), which the prover does not cover,
nor does it cover `ENABLED`. Every safety invariant of the runs is a theorem.

## 6. What is not modelled

* A sink's callback that logs, calls a handle or throws. Several workers are in
  `FrontEnd` only.
* In `FrontEnd`: fatal events, the hook and its counter (`FatalPath` has them),
  and the warning that the destructor of a static worker logs during `exit`. Undefined
  uses of `g_logger_instance` and of the kept message lead to `proc =
  "undefined"`.
* In `FileSink`: a kill of the program inside `changeLogFile`, between the opening of the new
  file and the closing of the old one, which then has no farewell; a full disk, a clock that is set back (local time is, once a
  year), files that others remove, symlinks that can be removed but not made, and
  `overrideLogDetails`. Text between two flushes fits into the stream's buffer.
* Data races whose outcome is undefined: the insertion into the level map during
  a traversal (the one outcome modelled is that the map survives), the copy of
  the hook, `gSavedSigActions`.
* Locks inside signal handlers: a signal in a thread that holds the queue's mutex
  or the allocator's lock.
* Signals on the worker's own thread in the `fatal` run (`Targets` has the
  application threads). With the worker's thread as a target a second signal puts
  it to sleep and `QueuedFatalEnds` fails: a hazard, listed as such.
* `overrideSetupSignals` before the first `initializeLogging` is modelled, and the
  properties `WayBack`, `EndsByItsSignal` and `QueuedFatalEnds` exempt it: g3log's
  handler is then saved as the old action, and the process may hang or run
  `exit()` with the signal spent.
* Exceptions the properties state, because the code does not keep them there.
  `exit()` after `kill()` (`crashhandler_unix.cpp:234-235`) is reached while the signal is
  pending: after `~LogWorker` the only thread left may be the one in the handler of that signal,
  where it is blocked, and then the process exits with the signal's number instead of ending by
  it; with several threads the signal may simply come late (`EndsByItsSignal`). A fatal message
  sent by a thread that tested `g_logger_instance` before `~LogWorker` cleared it can get behind
  the quit task: it is discarded, and its thread sleeps for good (`FatalEndsProcess`,
  `QueuedFatalEnds`). A file named in one second and opened in a later one is truncated although
  its second is over, and with it what another sink had left in it (`OldMessagesStay`). A
  text of exactly `capturef`'s buffer loses its last character unmarked
  (`CutIsMarked`); the literal `%%f` in a time format is taken for a fraction
  (`TimestampRight`), and a time that is empty or does not fit into the buffer is
  replaced by its format;
  `LOG_EVERY_N(1, ...)` may fall silent for good after a race (`RacesSettle`).
* A comment the code does not keep, without a run of its own: `OthersIgnored` of
  `FrontEnd` fails when a worker that is not active is destroyed while another thread
  initializes one. `NoUndefinedUse` of `LogWorker` fails likewise.
* `setMaxMessageSize` while messages are written, and `SetStderrLogging` while a sink
  reads the threshold: data races on an `int` without a state behind it.
* Wording, thread ids, the calendar and time zones, `to_system_time`, conversions of
  `strftime` with more than one character.
* Command line flags (constants), Windows (headers only), examples, performance tests
  and the collecting helpers of the unit tests, which use the library and hold no logic of it.

## 7. What could follow

* The composition of `FrontEnd` with `LogWorker` (several workers with queues and
  sinks), and of `FatalPath` with `SharedQueue`, for the signal that arrives in a thread
  with the queue's mutex. Each multiplies state spaces that are at the limit of a run of a
  few minutes.
* A sink's callback that logs or calls a handle.
