---------------------------- MODULE LogStatements ----------------------------
(****************************************************************************)
(* One logging statement of a program, written with one of the macros of     *)
(* g3log.hpp and reached over and over by several threads.                   *)
(*                                                                          *)
(* LOG_EVERY_N, LOG_IF_EVERY_N and LOG_FIRST_N keep a static int for each    *)
(* line of the source.  No macro synchronises it: every read may see what    *)
(* the thread itself read or wrote last, if the compiler keeps that in a     *)
(* register, or what is in memory now, and another thread may step in        *)
(* between a read and the write that depends on it.  Two lines share no      *)
(* counter, so that one statement is enough.  LOG_OCCURRENCES of the two     *)
(* EVERY_N macros is written and never read: it is left out.  Races can      *)
(* drive LOG_OCCURRENCES_MOD_N arbitrarily far off; MaxDrift bounds that.    *)
(****************************************************************************)
EXTENDS Integers, FiniteSets

CONSTANTS
  Threads,   \* threads that reach the statement
  N,         \* the argument n of the counting macros
  MaxDrift,  \* bound: how far from 0 the counter is where threads still race
  DcheckOn   \* DCHECK_IS_ON()

ASSUME ThreadsAssumption == IsFiniteSet(Threads)
ASSUME NAssumption == N \in Nat \ {0}
ASSUME BoundAssumption == MaxDrift \in Nat /\ DcheckOn \in BOOLEAN

Conditional == {"LOG_IF", "VLOG", "LOGF_IF"}
Contracts   == {"CHECK", "CHECKF", "CHECK_NOTNULL"}
Counting    == {"LOG_EVERY_N", "LOG_IF_EVERY_N", "LOG_FIRST_N"}
\* The debug macros, and what each stands for when DCHECK_IS_ON().
Debug == [DLOG   |-> "LOG",   DVLOG |-> "VLOG", DLOG_IF |-> "LOG_IF",
          DCHECK |-> "CHECK", DCHECK_NOTNULL |-> "CHECK_NOTNULL"]
Macros == {"LOG", "LOGF"} \cup Conditional \cup Contracts \cup Counting
            \cup DOMAIN Debug

VARIABLES
  macro,    \* the macro the statement is written with; it never changes
  enabled,  \* the statement's level is enabled
  count,    \* the statement's static counter
  pc,       \* per thread: where it is in the statement
  reg,      \* per thread: the counter as it read or wrote it last
  alive,    \* no contract was broken and no fatal level logged
  calls,    \* auxiliary: the calls that count, modulo the period of the macro
  overlap,  \* auxiliary: two threads were inside since one was alone
  raced     \* auxiliary: two threads were inside at some time

counterVars == <<count, reg>>
auxVars == <<calls, overlap, raced>>
vars == <<macro, enabled, counterVars, pc, alive, auxVars>>

\* What the macro is for this build; a debug macro may be no code at all.
Expansion ==
  IF macro \notin DOMAIN Debug THEN macro
  ELSE IF DcheckOn THEN Debug[macro] ELSE "nothing"

\* The threads that are busy with the counter.
Inside == {t \in Threads : pc[t] \in {"load", "store", "test", "wrap", "subtract",
                                  "one"}}

Init ==
  /\ macro \in Macros
  /\ enabled \in BOOLEAN
  /\ count = 0
  /\ pc = [t \in Threads |-> "out"]
  /\ reg = [t \in Threads |-> 0]
  /\ alive = TRUE
  /\ calls = 0
  /\ overlap = FALSE /\ raced = FALSE

\* Another thread changes the level.
SetLevel ==
  /\ alive
  /\ enabled' = ~enabled
  /\ UNCHANGED <<macro, counterVars, pc, alive, auxVars>>

----------------------------------------------------------------------------
(* Into the statement: its condition, if it has one.                         *)

LogIf(holds) == IF holds THEN {"ask"} ELSE {"out"}
\* A broken contract does not ask for the level.
Check(holds) == IF holds THEN {"out"} ELSE {"capture"}
\* The condition is not put in parentheses: of a condition a || b that holds
\* by a, every call is logged.
LogIfEveryN(holds) == IF holds THEN {"load", "capture"} ELSE {"out"}

\* Where a thread may go that reaches the statement and finds that its
\* condition holds or not.
Entries(holds) ==
  CASE Expansion \in {"LOG", "LOGF"} -> {"ask"}
    [] Expansion \in Conditional -> LogIf(holds)
    [] Expansion \in Contracts -> Check(holds)
    [] Expansion \in {"LOG_EVERY_N", "LOG_FIRST_N"} -> {"load"}
    [] Expansion = "LOG_IF_EVERY_N" -> LogIfEveryN(holds)
    [] Expansion = "nothing" -> {"out"}

\* The next of the calls that count: a position in the round of N for the
\* EVERY_N macros, the number of calls up to N + 1 for LOG_FIRST_N.
NextCall ==
  IF macro = "LOG_FIRST_N" THEN IF calls > N THEN calls ELSE calls + 1
                           ELSE IF calls = N THEN 1 ELSE calls + 1

Reach(t) ==
  /\ alive /\ pc[t] = "out"
  /\ Inside = {} \/ count \in -MaxDrift .. MaxDrift
  /\ \E holds \in BOOLEAN : \E next \in Entries(holds) :
       pc' = [pc EXCEPT ![t] = next]
  /\ IF pc'[t] = "load"
     THEN /\ calls' = NextCall
          /\ overlap' = (overlap \/ Inside # {})
          /\ raced' = (raced \/ Inside # {})
     ELSE UNCHANGED <<calls, overlap, raced>>
  /\ UNCHANGED <<macro, enabled, counterVars, alive>>

----------------------------------------------------------------------------
(* The counter.                                                              *)

\* What a read of the counter may give thread t.
Seen(t) == {reg[t], count}

\* Fault: LOG_FIRST_N starts over.
BumpedFirstWraps(v) ==
  IF macro = "LOG_IF_EVERY_N" THEN (v + 1) % N
  ELSE IF macro = "LOG_FIRST_N" /\ v = N THEN 0 ELSE v + 1
\* The counter, incremented.
Bumped(v) == IF macro = "LOG_IF_EVERY_N" THEN (v + 1) % N ELSE v + 1

\* t reads v.
Read(t, v) == reg' = [reg EXCEPT ![t] = v] /\ UNCHANGED count

\* The first read; LOG_FIRST_N increments only up to N + 1.
Load(t) ==
  /\ alive /\ pc[t] = "load"
  /\ Read(t, count)
  /\ pc' = [pc EXCEPT ![t] =
              IF macro = "LOG_FIRST_N" /\ count > N THEN "test" ELSE "store"]
  /\ UNCHANGED <<macro, enabled, alive, auxVars>>

Write(t, v) ==
  /\ count' = v
  /\ reg' = [reg EXCEPT ![t] = v]

Store(t) ==
  /\ alive /\ pc[t] = "store"
  /\ \E v \in Seen(t) : Write(t, Bumped(v))
  /\ pc' = [pc EXCEPT ![t] = "test"]
  /\ UNCHANGED <<macro, enabled, alive, auxVars>>

\* t is through with the counter and goes on to next.
Leave(t, next) ==
  /\ pc' = [pc EXCEPT ![t] = next]
  /\ overlap' = (overlap /\ Inside # {t})
  /\ UNCHANGED <<macro, enabled, alive, calls, raced>>

\* The test after the increment.  LOG_FIRST_N: is it among the first N?
\* LOG_IF_EVERY_N: is it the first of its round?  This one does not ask for the
\* level.
Test(t) ==
  /\ alive /\ pc[t] = "test"
  /\ \E v \in Seen(t) :
       /\ Read(t, v)
       /\ \/ /\ macro = "LOG_EVERY_N"
             /\ pc' = [pc EXCEPT ![t] = IF v > N THEN "wrap" ELSE "one"]
             /\ UNCHANGED <<macro, enabled, alive, auxVars>>
          \/ /\ macro = "LOG_FIRST_N"
             /\ Leave(t, IF v <= N THEN "ask" ELSE "out")
          \/ /\ macro = "LOG_IF_EVERY_N"
             /\ Leave(t, IF v = 1 % N THEN "capture" ELSE "out")

\* LOG_OCCURRENCES_MOD_N -= n.  Fault: by one too little.
WrappedShort(v) == v - N + 1
Wrapped(v) == v - N

\* Its read, and its write: another thread may write between them.
WrapRead(t) ==
  /\ alive /\ pc[t] = "wrap"
  /\ \E v \in Seen(t) : Read(t, v)
  /\ pc' = [pc EXCEPT ![t] = "subtract"]
  /\ UNCHANGED <<macro, enabled, alive, auxVars>>

Wrap(t) ==
  /\ alive /\ pc[t] = "subtract"
  /\ Write(t, Wrapped(reg[t]))
  /\ pc' = [pc EXCEPT ![t] = "one"]
  /\ UNCHANGED <<macro, enabled, alive, auxVars>>

One(t) ==
  /\ alive /\ pc[t] = "one"
  /\ \E v \in Seen(t) : Read(t, v) /\ Leave(t, IF v = 1 THEN "ask" ELSE "out")

----------------------------------------------------------------------------
(* Out of it.                                                                *)

\* logLevel(level), before anything is built.
Ask(t) ==
  /\ alive /\ pc[t] = "ask"
  /\ pc' = [pc EXCEPT ![t] = IF enabled THEN "capture" ELSE "out"]
  /\ UNCHANGED <<macro, enabled, counterVars, alive, auxVars>>

\* The LogCapture is built, filled and destroyed, which saves the message.  A
\* broken contract, and a level at or above FATAL, end the process.
Capture(t) ==
  /\ alive /\ pc[t] = "capture"
  /\ pc' = [pc EXCEPT ![t] = "out"]
  /\ alive' \in IF Expansion \in Contracts THEN {FALSE} ELSE BOOLEAN
  /\ UNCHANGED <<macro, enabled, counterVars, auxVars>>

Continue(t) ==
  \/ Load(t) \/ Store(t) \/ Test(t) \/ WrapRead(t) \/ Wrap(t) \/ One(t)
  \/ Ask(t) \/ Capture(t)

Ended == ~alive /\ UNCHANGED vars

Next == SetLevel \/ (\E t \in Threads : Reach(t) \/ Continue(t)) \/ Ended

Spec == Init /\ [][Next]_vars

\* The operating system runs every thread.  None has to reach the statement.
FairSpec == Spec /\ \A t \in Threads : WF_vars(Continue(t))
----------------------------------------------------------------------------
(* Properties.                                                               *)

TypeOK ==
  /\ macro \in Macros
  /\ enabled \in BOOLEAN
  /\ count \in Int
  /\ pc \in [Threads -> {"out", "load", "store", "test", "wrap", "subtract",
                         "one", "ask", "capture"}]
  /\ reg \in [Threads -> Int]
  /\ alive \in BOOLEAN
  /\ calls \in 0 .. N + 1
  /\ overlap \in BOOLEAN /\ raced \in BOOLEAN

\* The call in progress is one the macro promises to log.
Due == IF macro = "LOG_FIRST_N" THEN calls <= N ELSE calls = 1

\* Thread t decides in this step whether its call is logged.
Logs(t)  == pc[t] \in {"test", "one"} /\ pc'[t] \in {"ask", "capture"}
Skips(t) == pc[t] \in {"test", "one"} /\ pc'[t] = "out"

\* As long as no two threads have been in the statement at once, LOG_FIRST_N
\* logs its first N calls and no other, LOG_EVERY_N and LOG_IF_EVERY_N log the
\* first of every N calls, across every wrap of the counter (the macros keep
\* plain ints and test them only after they were changed).
CountsExact ==
  [][~raced => \A t \in Threads : (Logs(t) => Due) /\ (Skips(t) => ~Due)]_vars

\* However far the threads' races have driven the counter of LOG_EVERY_N or
\* LOG_IF_EVERY_N off its course, the statement recovers when they end: it does
\* not skip call after call for ever.  (For n = 1 it may: a counter that rests
\* at 2 is incremented and decremented by 1 in every call of LOG_EVERY_N.)
RacesSettle ==
  (N > 1 \/ macro = "LOG_IF_EVERY_N") /\ []<><<\E t \in Threads : Skips(t)>>_vars
    => []<>(overlap \/ macro = "LOG_FIRST_N"
             \/ \E t \in Threads : pc[t] \in {"ask", "capture"})

\* LOG_FIRST_N falls silent for good, however its threads race: lost updates of
\* the counter can give it more than N entries, but not for ever.
FirstNFallsSilent ==
  macro = "LOG_FIRST_N" =>
    <>[](~alive \/ \A t \in Threads : pc[t] \notin {"ask", "capture"})
=============================================================================
