------------------------------ MODULE LogLevels ------------------------------
(****************************************************************************)
(* The dynamic log levels (src/src/loglevels.cpp, built with                 *)
(* G3_DYNAMIC_LOGGING): one map from a level's value to an entry that holds  *)
(* the level again and its status.  One thread configures the levels while   *)
(* the others ask logLevel before each message.  The map has no lock: each   *)
(* status is atomic, a traversal of the map is not, so the loops of          *)
(* setHighest, disableAll and enableAll take one step per entry.             *)
(*                                                                          *)
(* An insertion by logLevel during a traversal is a data race; of its        *)
(* outcomes the one modelled is that the map survives.                       *)
(****************************************************************************)
EXTENDS Integers

CONSTANTS
  Levels,     \* the values of the levels in play
  Defaults,   \* g_log_level_defaults
  Info,       \* G3LOG_INFO
  MaxChanges  \* bound: calls that configure the levels

ASSUME LevelsAssumption ==
  /\ Levels \subseteq Int
  /\ Defaults \subseteq Levels /\ Info \in Defaults
  /\ MaxChanges \in Nat

VARIABLES
  table,    \* g_log_levels
  phase,    \* "init" while there is one thread, then "run"
  loop,     \* the traversal the configuring thread is in
  from,     \* setHighest: enabledFrom
  seen,     \* the keys the traversal has visited
  changes,  \* calls made so far
  added,    \* auxiliary: the levels that are default or were added
  strayed,  \* auxiliary: a level that was not added has been asked for
  asked,    \* auxiliary: the status the calls so far ask of each level
  before    \* auxiliary: what was asked before the call under way

aux  == <<added, strayed, asked, before>>
vars == <<table, phase, loop, from, seen, changes, aux>>

Entry(l, on) == [level |-> l, on |-> on]
DefaultTable == [l \in Defaults |-> Entry(l, TRUE)]

Init ==
  /\ table = DefaultTable
  /\ phase = "init"
  /\ loop = "none" /\ from = Info /\ seen = {}
  /\ changes = 0
  /\ added = Defaults
  /\ strayed = FALSE
  /\ asked = [l \in Levels |-> TRUE]
  /\ before = asked

\* The configuring thread makes a call.
Change ==
  /\ loop = "none"
  /\ changes < MaxChanges
  /\ changes' = changes + 1
  /\ before' = asked

----------------------------------------------------------------------------
(* only_change_at_initialization.                                            *)

AddLogLevel(l, on) ==
  /\ phase = "init"
  /\ Change
  /\ table' = [k \in DOMAIN table \cup {l} |->
                 IF k = l THEN Entry(l, on) ELSE table[k]]
  /\ added' = added \cup {l}
  /\ asked' = [asked EXCEPT ![l] = on]
  /\ UNCHANGED <<phase, loop, from, seen, strayed>>

Reset ==
  /\ phase = "init"
  /\ Change
  /\ table' = DefaultTable
  /\ added' = Defaults
  /\ strayed' = FALSE
  /\ asked' = [l \in Levels |-> TRUE]
  /\ UNCHANGED <<phase, loop, from, seen>>

\* The application starts its other threads.
Run ==
  /\ phase = "init" /\ loop = "none"
  /\ phase' = "run"
  /\ UNCHANGED <<table, loop, from, seen, changes, aux>>

----------------------------------------------------------------------------
(* log_levels.                                                               *)

\* What set leaves in the map: it never adds a level.
AfterSet(l, on) == IF l \in DOMAIN table
                   THEN [table EXCEPT ![l] = Entry(l, on)]
                   ELSE table

\* set, enable and disable.
Set(l, on) ==
  /\ Change
  /\ table' = AfterSet(l, on)
  /\ asked' = IF l \in added THEN [asked EXCEPT ![l] = on] ELSE asked
  /\ UNCHANGED <<phase, loop, from, seen, added, strayed>>

\* Fault: setHighest starts from a clean slate.
SetHighestBlank(l) ==
  /\ Change
  /\ l \in DOMAIN table
  /\ loop' = "highest" /\ from' = l /\ seen' = {}
  /\ asked' = [k \in Levels |-> k >= l]
  /\ table' = [k \in DOMAIN table |-> Entry(table[k].level, FALSE)]
  /\ UNCHANGED <<phase, added, strayed>>

\* A level that is not in the map is ignored.
SetHighest(l) ==
  /\ Change
  /\ l \in DOMAIN table
  /\ loop' = "highest" /\ from' = l /\ seen' = {}
  /\ asked' = [k \in Levels |-> k >= l]
  /\ UNCHANGED <<table, phase, added, strayed>>

SetAll(op) ==
  /\ Change
  /\ loop' = op /\ seen' = {}
  /\ asked' = [k \in Levels |-> op = "enableAll"]
  /\ UNCHANGED <<table, phase, from, added, strayed>>

\* The key a traversal, which goes upwards, visits next.
Ahead == {k \in DOMAIN table : \A s \in seen : k > s}
IsNext(k) == k \in Ahead /\ \A j \in Ahead : k <= j

\* Fault: the level itself is taken for one below it.
EnablesAbove(k) == k > from
Enables(k) == k >= from

\* setHighest hands the level in the entry, not its key, to enable or disable.
VisitHighest(k) ==
  /\ loop = "highest" /\ IsNext(k)
  /\ table' = AfterSet(table[k].level, Enables(k))
  /\ seen' = seen \cup {k}
  /\ UNCHANGED <<phase, loop, from, changes, aux>>

\* disableAll and enableAll store the status.
VisitAll(k) ==
  /\ loop \in {"disableAll", "enableAll"} /\ IsNext(k)
  /\ table' = [table EXCEPT ![k].on = (loop = "enableAll")]
  /\ seen' = seen \cup {k}
  /\ UNCHANGED <<phase, loop, from, changes, aux>>

Return ==
  /\ loop # "none" /\ Ahead = {}
  /\ loop' = "none"
  /\ UNCHANGED <<table, phase, from, seen, changes, aux>>

----------------------------------------------------------------------------
(* logLevel, which every GLOG_LOG calls.                                     *)

\* Fault: an entry that is enabled.
DefaultEntryOn == Entry(Info, TRUE)
\* LoggingLevel().
DefaultEntry == Entry(Info, FALSE)

\* operator[] inserts the default entry for a level that is not there.
LogLevel(l) ==
  /\ phase = "init" => loop = "none"
  /\ table' = [k \in DOMAIN table \cup {l} |->
                 IF k \in DOMAIN table THEN table[k] ELSE DefaultEntry]
  /\ strayed' = (strayed \/ l \notin DOMAIN table)
  /\ UNCHANGED <<phase, loop, from, seen, changes, added, asked, before>>

Next ==
  \/ \E l \in Levels :
       \/ \E on \in BOOLEAN : AddLogLevel(l, on) \/ Set(l, on)
       \/ SetHighest(l) \/ VisitHighest(l) \/ VisitAll(l) \/ LogLevel(l)
  \/ Reset \/ Run \/ Return
  \/ \E op \in {"disableAll", "enableAll"} : SetAll(op)

Spec == Init /\ [][Next]_vars
----------------------------------------------------------------------------
(* Properties.                                                               *)

TypeOK ==
  /\ DOMAIN table \subseteq Levels /\ added \subseteq DOMAIN table
  /\ Defaults \subseteq added
  /\ table \in [DOMAIN table -> [level : Levels, on : BOOLEAN]]
  /\ phase \in {"init", "run"}
  /\ loop \in {"none", "highest", "disableAll", "enableAll"}
  /\ from \in Levels /\ seen \subseteq Levels
  /\ changes \in 0 .. MaxChanges
  /\ strayed \in BOOLEAN
  /\ asked \in [Levels -> BOOLEAN]
  /\ before \in [Levels -> BOOLEAN]

\* The levels whose status the calls decide: all that were added, except INFO
\* once logLevel has inserted an entry of its own.
Governed == IF strayed THEN added \ {Info} ELSE added

\* Between two calls every governed level has the status the calls asked for,
\* whatever levels the other threads asked about meanwhile.
SettledAsAsked ==
  loop = "none" => \A l \in Governed : table[l].on = asked[l]

\* During a call no governed level has a status that neither the calls before
\* nor this one asked for: a level that stays enabled is never seen disabled.
NoGlitch ==
  \A l \in Governed : table[l].on \in {before[l], asked[l]}

\* What logLevel answers for a level.
Verdict(l) == l \in DOMAIN table /\ table[l].on

\* log_levels::getStatus.
GetStatus(l) ==
  IF l \notin DOMAIN table THEN "Absent"
  ELSE IF table[l].on THEN "Enabled" ELSE "Disabled"

\* Asking about a level changes the answer for no level, although it inserts;
\* nor does it change a status, but that a level nobody added turns from Absent
\* to Disabled.
AskingChangesNoVerdict ==
  [][(\E l \in Levels : LogLevel(l)) =>
       \A l \in Levels :
         /\ Verdict(l)' = Verdict(l)
         /\ GetStatus(l)' # GetStatus(l) =>
              l \notin added /\ GetStatus(l) = "Absent" /\ GetStatus(l)' = "Disabled"]_vars

\* "log levels below will be disabled, log levels equal or higher will be
\* enabled" (loglevels.hpp:160-162), for INFO too.
EveryLevelAsAsked == loop = "none" => \A l \in added : table[l].on = asked[l]
=============================================================================
