--------------------------- MODULE LogLevelsProofs ---------------------------
(* What is proved of LogLevels for every set of levels, finite or not.        *)
EXTENDS LogLevels, TLAPS

\* An entry describes its own key or, inserted by logLevel, INFO; the entries
\* of the levels that were added are their own.
OwnEntry ==
  /\ \A k \in DOMAIN table : table[k].level \in {k, Info}
  /\ \A k \in added : table[k].level = k
  /\ ~strayed => DOMAIN table = added

\* What the traversal under way will have done at its end.
LoopAsks ==
  /\ loop = "highest" => \A l \in Levels : asked[l] = (l >= from)
  /\ loop \in {"disableAll", "enableAll"} =>
       \A l \in Levels : asked[l] = (loop = "enableAll")

\* A traversal splits the governed levels into those it has visited, which are
\* as this call asks, and those ahead of it, which are as the calls before did.
Progress ==
  loop # "none" =>
    \A l \in Governed :
      IF l \in seen THEN table[l].on = asked[l]
      ELSE l \in Ahead /\ table[l].on = before[l]

IInv == TypeOK /\ OwnEntry /\ LoopAsks /\ Progress /\ SettledAsAsked

LEMMA DefaultType ==
  ASSUME NEW tab, tab = DefaultTable
  PROVE  /\ DOMAIN tab = Defaults
         /\ tab \in [DOMAIN tab -> [level : Levels, on : BOOLEAN]]
  BY LevelsAssumption DEF DefaultTable, Entry

LEMMA AllOnType == [l \in Levels |-> TRUE] \in [Levels -> BOOLEAN]
  OBVIOUS

LEMMA InitInv == Init => IInv
<1> SUFFICES ASSUME Init PROVE IInv
  OBVIOUS
<1>1. TypeOK
  <2>1. /\ DOMAIN table = Defaults
        /\ table \in [DOMAIN table -> [level : Levels, on : BOOLEAN]]
    BY DefaultType DEF Init
  <2>2. asked \in [Levels -> BOOLEAN] /\ before \in [Levels -> BOOLEAN]
    BY AllOnType DEF Init
  <2>3. /\ DOMAIN table \subseteq Levels /\ added \subseteq DOMAIN table
        /\ Defaults \subseteq added /\ from \in Levels /\ seen \subseteq Levels
        /\ phase = "init" /\ loop = "none"
    BY <2>1, LevelsAssumption, Zenon DEF Init
  <2>4. strayed \in BOOLEAN
    BY DEF Init
  <2>5. changes \in 0 .. MaxChanges
    BY LevelsAssumption DEF Init
  <2> QED
    BY <2>1, <2>2, <2>3, <2>4, <2>5, Zenon DEF TypeOK
<1> USE LevelsAssumption DEF Init, DefaultTable, Entry
<1>2. OwnEntry
  BY DEF OwnEntry
<1>3. LoopAsks /\ Progress
  BY DEF LoopAsks, Progress
<1>4. SettledAsAsked
  BY DEF SettledAsAsked, Governed
<1> QED
  BY <1>1, <1>2, <1>3, <1>4 DEF IInv

----------------------------------------------------------------------------
(* One step for each call and each step of a traversal.                      *)

LEMMA AddStep ==
  ASSUME IInv, NEW l \in Levels, NEW on \in BOOLEAN, AddLogLevel(l, on)
  PROVE  IInv'
<1> USE LevelsAssumption DEF AddLogLevel, Change, Entry
<1>1. TypeOK'
  BY DEF IInv, TypeOK
<1>2. OwnEntry'
  BY DEF IInv, TypeOK, OwnEntry
<1>3. LoopAsks' /\ Progress'
  BY DEF LoopAsks, Progress
<1>4. SettledAsAsked'
  BY DEF IInv, TypeOK, SettledAsAsked, Governed
<1> QED
  BY <1>1, <1>2, <1>3, <1>4 DEF IInv

LEMMA ResetStep == IInv /\ Reset => IInv'
<1> SUFFICES ASSUME IInv, Reset PROVE IInv'
  OBVIOUS
<1>1. TypeOK'
  <2>1. /\ DOMAIN table' = Defaults
        /\ table' \in [DOMAIN table' -> [level : Levels, on : BOOLEAN]]
    BY DefaultType DEF Reset
  <2>2. asked' \in [Levels -> BOOLEAN]
    BY AllOnType DEF Reset
  <2>3. /\ DOMAIN table' \subseteq Levels /\ added' \subseteq DOMAIN table'
        /\ Defaults \subseteq added' /\ from' = from /\ seen' = seen
        /\ phase' = phase /\ loop' = loop /\ before' = asked
    BY <2>1, LevelsAssumption, Zenon DEF IInv, TypeOK, Reset, Change
  <2>4. strayed' \in BOOLEAN
    BY DEF Reset
  <2>5. changes' \in 0 .. MaxChanges
    BY LevelsAssumption DEF IInv, TypeOK, Reset, Change
  <2> QED
    BY <2>1, <2>2, <2>3, <2>4, <2>5, Zenon DEF IInv, TypeOK
<1> USE LevelsAssumption DEF Reset, Change, DefaultTable, Entry
<1>2. OwnEntry'
  BY DEF IInv, TypeOK, OwnEntry
<1>3. LoopAsks' /\ Progress'
  BY DEF LoopAsks, Progress
<1>4. SettledAsAsked'
  BY DEF IInv, TypeOK, SettledAsAsked, Governed
<1> QED
  BY <1>1, <1>2, <1>3, <1>4 DEF IInv

LEMMA SetStep ==
  ASSUME IInv, NEW l \in Levels, NEW on \in BOOLEAN, Set(l, on)
  PROVE  IInv'
<1> USE LevelsAssumption DEF Set, Change, AfterSet, Entry
<1>1. TypeOK'
  BY DEF IInv, TypeOK
<1>2. OwnEntry'
  BY DEF IInv, TypeOK, OwnEntry
<1>3. LoopAsks' /\ Progress'
  BY DEF LoopAsks, Progress
<1>4. SettledAsAsked'
  BY DEF IInv, TypeOK, SettledAsAsked, Governed
<1> QED
  BY <1>1, <1>2, <1>3, <1>4 DEF IInv

LEMMA SetHighestStep ==
  ASSUME IInv, NEW l \in Levels, SetHighest(l)
  PROVE  IInv'
<1> USE LevelsAssumption DEF SetHighest, Change
<1>1. TypeOK'
  BY DEF IInv, TypeOK
<1>2. OwnEntry'
  BY DEF IInv, OwnEntry
<1>3. LoopAsks' /\ SettledAsAsked'
  BY DEF LoopAsks, SettledAsAsked
<1>4. Progress'
  BY DEF IInv, TypeOK, SettledAsAsked, Governed, Progress, Ahead
<1> QED
  BY <1>1, <1>2, <1>3, <1>4 DEF IInv

LEMMA SetAllStep ==
  ASSUME IInv, NEW op \in {"disableAll", "enableAll"}, SetAll(op)
  PROVE  IInv'
<1> USE LevelsAssumption DEF SetAll, Change
<1>1. TypeOK'
  BY DEF IInv, TypeOK
<1>2. OwnEntry'
  BY DEF IInv, OwnEntry
<1>3. LoopAsks' /\ SettledAsAsked'
  BY DEF LoopAsks, SettledAsAsked
<1>4. Progress'
  BY DEF IInv, TypeOK, SettledAsAsked, Governed, Progress, Ahead
<1> QED
  BY <1>1, <1>2, <1>3, <1>4 DEF IInv

\* A level ahead of the traversal other than the one it visits stays ahead.
LEMMA StaysAhead ==
  ASSUME TypeOK, NEW k \in Levels, IsNext(k), DOMAIN table' = DOMAIN table,
         seen' = seen \cup {k}, NEW l \in Ahead, l # k
  PROVE  l \in Ahead'
  BY LevelsAssumption DEF TypeOK, IsNext, Ahead

LEMMA VisitHighestStep ==
  ASSUME IInv, NEW k \in Levels, VisitHighest(k)
  PROVE  IInv'
<1>1. k \in DOMAIN table /\ k \notin seen
  BY LevelsAssumption DEF IInv, TypeOK, VisitHighest, IsNext, Ahead
<1> DEFINE t == table[k].level
<1>2. t \in DOMAIN table /\ t \in {k, Info}
  BY <1>1, LevelsAssumption DEF IInv, TypeOK, OwnEntry
<1>3. table' = [table EXCEPT ![t] = Entry(t, Enables(k))]
  BY <1>2 DEF VisitHighest, AfterSet
<1>4. Enables(k) \in BOOLEAN
  BY DEF Enables
<1>5. TypeOK'
  BY <1>2, <1>3, <1>4, LevelsAssumption DEF IInv, TypeOK, VisitHighest, aux, Entry
<1>6. OwnEntry'
  BY <1>2, <1>3, <1>4, LevelsAssumption
  DEF IInv, TypeOK, OwnEntry, VisitHighest, aux, Entry
<1>7. LoopAsks' /\ SettledAsAsked'
  BY DEF IInv, LoopAsks, SettledAsAsked, VisitHighest, aux
<1>8. Progress'
  <2> SUFFICES ASSUME NEW l \in Governed
               PROVE  IF l \in seen' THEN table'[l].on = asked[l]
                      ELSE l \in Ahead' /\ table'[l].on = before[l]
    BY DEF Progress, Governed, VisitHighest, aux
  <2>1. l \in added /\ l \in DOMAIN table /\ l \in Levels
    BY DEF Governed, IInv, TypeOK
  <2>2. CASE l = k
    <3>1. t = k
      BY <2>1, <2>2 DEF IInv, OwnEntry
    <3>2. table'[k].on = Enables(k)
      BY <1>1, <1>3, <3>1 DEF Entry, IInv, TypeOK
    <3>3. asked[k] = Enables(k)
      BY DEF IInv, LoopAsks, VisitHighest, Enables
    <3> QED
      BY <2>2, <3>2, <3>3 DEF VisitHighest
  <2>3. CASE l # k
    <3>1. l # t
      BY <1>1, <1>2, <2>1, <2>3 DEF Governed, IInv, OwnEntry
    <3>2. table'[l] = table[l] /\ DOMAIN table' = DOMAIN table
      BY <1>2, <1>3, <2>1, <3>1 DEF IInv, TypeOK
    <3>3. IF l \in seen THEN table[l].on = asked[l]
          ELSE l \in Ahead /\ table[l].on = before[l]
      BY DEF IInv, Progress, VisitHighest
    <3>4. l \in Ahead => l \in Ahead'
      BY <2>3, <3>2, StaysAhead DEF IInv, VisitHighest
    <3> QED
      BY <2>3, <3>2, <3>3, <3>4 DEF VisitHighest
  <2> QED
    BY <2>2, <2>3
<1> QED
  BY <1>5, <1>6, <1>7, <1>8 DEF IInv

LEMMA VisitAllStep ==
  ASSUME IInv, NEW k \in Levels, VisitAll(k)
  PROVE  IInv'
<1>1. k \in DOMAIN table
  BY DEF VisitAll, IsNext, Ahead
<1> DEFINE on == loop = "enableAll"
<1>2. table' = [table EXCEPT ![k] = [table[k] EXCEPT !.on = on]]
  BY <1>1 DEF VisitAll
<1>3. on \in BOOLEAN
  OBVIOUS
<1> HIDE DEF on
<1>4. TypeOK'
  BY <1>1, <1>2, <1>3, LevelsAssumption DEF IInv, TypeOK, VisitAll, aux
<1>5. OwnEntry'
  BY <1>1, <1>2, <1>3, LevelsAssumption
  DEF IInv, TypeOK, OwnEntry, VisitAll, aux
<1>6. LoopAsks' /\ SettledAsAsked'
  BY DEF IInv, LoopAsks, SettledAsAsked, VisitAll, aux
<1>7. Progress'
  <2> SUFFICES ASSUME NEW l \in Governed
               PROVE  IF l \in seen' THEN table'[l].on = asked[l]
                      ELSE l \in Ahead' /\ table'[l].on = before[l]
    BY DEF Progress, Governed, VisitAll, aux
  <2>1. l \in added /\ l \in DOMAIN table /\ l \in Levels
    BY DEF Governed, IInv, TypeOK
  <2>2. CASE l = k
    <3>1. table'[k].on = on
      BY <1>1, <1>2, <1>3 DEF IInv, TypeOK
    <3>2. asked[k] = on
      BY DEF IInv, LoopAsks, VisitAll, on
    <3> QED
      BY <2>2, <3>1, <3>2 DEF VisitAll
  <2>3. CASE l # k
    <3>1. table'[l] = table[l] /\ DOMAIN table' = DOMAIN table
      BY <1>1, <1>2, <2>1, <2>3 DEF IInv, TypeOK
    <3>2. IF l \in seen THEN table[l].on = asked[l]
          ELSE l \in Ahead /\ table[l].on = before[l]
      BY DEF IInv, Progress, VisitAll
    <3>3. l \in Ahead => l \in Ahead'
      BY <2>3, <3>1, StaysAhead DEF IInv, VisitAll
    <3> QED
      BY <2>3, <3>1, <3>2, <3>3 DEF VisitAll
  <2> QED
    BY <2>2, <2>3
<1> QED
  BY <1>4, <1>5, <1>6, <1>7 DEF IInv

LEMMA LogLevelStep ==
  ASSUME IInv, NEW l \in Levels, LogLevel(l)
  PROVE  IInv'
<1>1. /\ DOMAIN table' = DOMAIN table \cup {l}
      /\ \A k \in DOMAIN table : table'[k] = table[k]
      /\ l \notin DOMAIN table => table'[l] = DefaultEntry
  BY DEF LogLevel
<1>2. TypeOK'
  BY <1>1, LevelsAssumption
  DEF IInv, TypeOK, LogLevel, DefaultEntry, Entry
<1>3. OwnEntry'
  <2>1. \A k \in DOMAIN table' : table'[k].level \in {k, Info}
    BY <1>1 DEF IInv, OwnEntry, DefaultEntry, Entry
  <2>2. \A k \in added' : table'[k].level = k
    BY <1>1 DEF IInv, TypeOK, OwnEntry, LogLevel
  <2>3. ~strayed' => DOMAIN table' = added'
    BY <1>1 DEF IInv, OwnEntry, LogLevel
  <2> QED
    BY <2>1, <2>2, <2>3 DEF OwnEntry
<1>4. LoopAsks'
  BY DEF IInv, LoopAsks, LogLevel
<1>5. Governed' \subseteq Governed /\ Governed \subseteq DOMAIN table
  BY DEF Governed, LogLevel, IInv, TypeOK
<1>6. Progress'
  <2>1. Ahead \subseteq Ahead'
    BY <1>1 DEF Ahead, LogLevel
  <2> QED
    BY <1>1, <1>5, <2>1 DEF IInv, Progress, LogLevel
<1>7. SettledAsAsked'
  BY <1>1, <1>5 DEF IInv, SettledAsAsked, LogLevel
<1> QED
  BY <1>2, <1>3, <1>4, <1>6, <1>7 DEF IInv

LEMMA ReturnStep == IInv /\ Return => IInv'
<1> SUFFICES ASSUME IInv, Return PROVE IInv'
  OBVIOUS
<1>1. TypeOK' /\ OwnEntry' /\ LoopAsks' /\ Progress'
  BY DEF IInv, TypeOK, OwnEntry, LoopAsks, Progress, Return, aux
<1>2. SettledAsAsked'
  BY DEF IInv, Progress, SettledAsAsked, Governed, Return, aux
<1> QED
  BY <1>1, <1>2 DEF IInv

LEMMA RunStep == IInv /\ (Run \/ UNCHANGED vars) => IInv'
  BY DEF IInv, TypeOK, OwnEntry, LoopAsks, Progress, SettledAsAsked, Governed,
         Ahead, Run, vars, aux

----------------------------------------------------------------------------
(* The theorems.                                                             *)

\* The inductive invariant holds in every reachable state.
THEOREM Inductive == Spec => []IInv
<1>1. IInv /\ [Next]_vars => IInv'
  BY AddStep, ResetStep, SetStep, SetHighestStep, SetAllStep, VisitHighestStep,
     VisitAllStep, LogLevelStep, ReturnStep, RunStep DEF Next
<1> QED
  BY InitInv, <1>1, PTL DEF Spec

\* The map of levels and the traversal's cursor keep their types.
THEOREM TypeCorrect == Spec => []TypeOK
<1>1. IInv => TypeOK
  BY DEF IInv
<1> QED
  BY Inductive, <1>1, PTL

\* Once setHighest, set, disableAll or enableAll has returned, every level that
\* was added is enabled exactly if the calls asked for it (loglevels.cpp:47-81),
\* but for INFO after logLevel has inserted an entry for another level.
THEOREM CallsTakeEffect == Spec => []SettledAsAsked
<1>1. IInv => SettledAsAsked
  BY DEF IInv
<1> QED
  BY Inductive, <1>1, PTL

\* While a call is under way no such level has a status that neither it nor the
\* calls before it asked for.
THEOREM NoLevelGlitches == Spec => []NoGlitch
<1>1. IInv => NoGlitch
  BY DEF IInv, SettledAsAsked, Progress, NoGlitch
<1> QED
  BY Inductive, <1>1, PTL

\* Asking logLevel about a level changes no answer, although it inserts, and no
\* status but that of an absent level.
THEOREM AskingIsNeutral == Spec => AskingChangesNoVerdict
<1> DEFINE Neutral(k) ==
      /\ Verdict(k)' = Verdict(k)
      /\ GetStatus(k)' # GetStatus(k) =>
           k \notin added /\ GetStatus(k) = "Absent" /\ GetStatus(k)' = "Disabled"
<1>1. ASSUME IInv, NEW l \in Levels, LogLevel(l), NEW k \in Levels
      PROVE  Neutral(k)
  <2>1. CASE k \in DOMAIN table
    <3>1. k \in DOMAIN table' /\ table'[k] = table[k]
      BY <1>1, <2>1 DEF LogLevel
    <3> QED
      BY <2>1, <3>1 DEF Verdict, GetStatus
  <2>2. CASE k \notin DOMAIN table
    <3>1. k \in DOMAIN table' => k = l /\ table'[k] = DefaultEntry
      BY <1>1, <2>2 DEF LogLevel
    <3>2. k \notin added
      BY <1>1, <2>2 DEF IInv, TypeOK
    <3>3. ~DefaultEntry.on
      BY DEF DefaultEntry, Entry
    <3> QED
      BY <2>2, <3>1, <3>2, <3>3 DEF Verdict, GetStatus
  <2> QED
    BY <2>1, <2>2
<1>2. IInv => [(\E l \in Levels : LogLevel(l)) =>
                 \A l \in Levels : Neutral(l)]_vars
  BY <1>1
<1> QED
  BY Inductive, <1>2, PTL DEF AskingChangesNoVerdict
=============================================================================
