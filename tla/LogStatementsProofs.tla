------------------------- MODULE LogStatementsProofs -------------------------
(* What is proved of LogStatements for every N and every set of threads. *)
EXTENDS LogStatements, TLAPS

\* The calls of the EVERY_N macros that count are positions in a round of N.
TypeInv == TypeOK /\ (macro # "LOG_FIRST_N" => calls \in 0 .. N)

\* What the counter is when the call that calls counts last is complete: the
\* position in the round, the position modulo N, or the number of calls.
Counted ==
  count = IF macro = "LOG_IF_EVERY_N" /\ calls = N THEN 0 ELSE calls

\* What it is when calls is ahead of it by the call in progress.
Ahead ==
  CASE macro = "LOG_EVERY_N" ->
         /\ count \in 0 .. N
         /\ calls = IF count = N THEN 1 ELSE count + 1
    [] macro = "LOG_IF_EVERY_N" -> count \in 0 .. N - 1 /\ calls = count + 1
    [] macro = "LOG_FIRST_N" ->
         /\ count \in 0 .. N + 1
         /\ calls = IF count > N THEN count ELSE count + 1

\* What it is after the increment, before LOG_EVERY_N takes its N off.
Increased ==
  IF macro = "LOG_EVERY_N"
  THEN count \in 1 .. N + 1 /\ calls = (IF count > N THEN 1 ELSE count)
  ELSE Counted /\ calls # 0

\* The counter where the thread that is busy with it stands.
CountAt(place) ==
  CASE place = "load" -> Ahead
    [] place = "store" -> Ahead /\ (macro = "LOG_FIRST_N" => count <= N)
    [] place = "test" -> Increased
    [] place \in {"wrap", "subtract"} ->
         macro = "LOG_EVERY_N" /\ count = N + 1 /\ calls = 1
    [] place = "one" -> macro = "LOG_EVERY_N" /\ Counted

\* Only the counting macros lead to the counter; one thread at a time is busy
\* with it, and what it has in its register is what the counter is.
CountInv ==
  ~raced =>
    /\ Inside = {} => Counted
    /\ \A t \in Inside :
         /\ Inside = {t}
         /\ macro \in Counting
         /\ CountAt(pc[t])
         /\ pc[t] # "load" => reg[t] = count
Places == {"load", "store", "test", "wrap", "subtract", "one"}

----------------------------------------------------------------------------
(* Types.                                                                    *)

LEMMA Moduli ==
  ASSUME NEW v \in 1 .. N
  PROVE  v % N = IF v = N THEN 0 ELSE v
BY NAssumption

\* Only a counting macro leads to the counter.
LEMMA EntryCases ==
  ASSUME TypeOK, NEW holds \in BOOLEAN, NEW next \in Entries(holds)
  PROVE  \/ next = "load" /\ macro \in Counting
         \/ next \in {"ask", "out", "capture"}
<1>1. Expansion \in {"LOG", "LOGF"} \cup Conditional \cup Contracts
                      \cup Counting \cup {"nothing"}
  <2>1. CASE macro \notin DOMAIN Debug
    BY <2>1 DEF TypeOK, Macros, Expansion
  <2>2. CASE macro \in DOMAIN Debug
    BY <2>2 DEF Debug, Expansion, Conditional, Contracts
  <2>3. QED BY <2>1, <2>2
<1>2. Expansion \in Counting => macro = Expansion
  BY DEF Expansion, Counting, Debug
<1>3. CASE Expansion \in {"LOG", "LOGF"}
  BY <1>3 DEF Entries, Conditional, Contracts
<1>4. CASE Expansion \in Conditional
  BY <1>4 DEF Entries, Conditional, Contracts, LogIf
<1>5. CASE Expansion \in Contracts
  BY <1>5 DEF Entries, Conditional, Contracts, Check
<1>6. CASE Expansion \in Counting
  BY <1>2, <1>6 DEF Entries, Conditional, Contracts, Counting, LogIfEveryN
<1>7. CASE Expansion = "nothing"
  BY <1>7 DEF Entries, Conditional, Contracts
<1>8. QED BY <1>1, <1>3, <1>4, <1>5, <1>6, <1>7

LEMMA NextCallType ==
  ASSUME TypeInv
  PROVE  NextCall \in 1 .. N + 1 /\ (macro # "LOG_FIRST_N" => NextCall \in 1 .. N)
BY NAssumption DEF TypeInv, TypeOK, NextCall

LEMMA BumpedType ==
  ASSUME NEW v \in Int
  PROVE  Bumped(v) \in Int /\ Wrapped(v) \in Int
<1>1. (v + 1) % N \in Int BY NAssumption
<1>2. QED BY <1>1, NAssumption DEF Bumped, Wrapped

LEMMA SeenType ==
  ASSUME TypeOK, NEW t \in Threads
  PROVE  Seen(t) \subseteq Int
BY DEF TypeOK, Seen

LEMMA InitType == Init => TypeInv
<1> SUFFICES ASSUME Init PROVE TypeInv OBVIOUS
<1>1. pc \in [Threads -> Places \cup {"out", "ask", "capture"}]
  BY DEF Init
<1>2. reg \in [Threads -> Int] BY DEF Init
<1>3. overlap \in BOOLEAN /\ raced \in BOOLEAN BY Zenon DEF Init
<1>4. QED BY <1>1, <1>2, <1>3, NAssumption DEF Init, TypeInv, TypeOK, Places

LEMMA TypeStep ==
  ASSUME TypeInv, [Next]_vars
  PROVE  TypeInv'
<1> USE DEF TypeInv, TypeOK
<1>1. CASE UNCHANGED vars
  BY <1>1 DEF vars, counterVars, auxVars
<1>2. CASE SetLevel
  BY <1>2 DEF SetLevel, counterVars, auxVars
<1>3. ASSUME NEW t \in Threads, Reach(t) PROVE TypeInv'
  <2>1. PICK holds \in BOOLEAN :
          \E next \in Entries(holds) : pc' = [pc EXCEPT ![t] = next]
    BY <1>3 DEF Reach
  <2>2. \E next \in {"load", "ask", "out", "capture"} :
          pc' = [pc EXCEPT ![t] = next]
    BY <2>1, EntryCases
  <2>3. calls' \in {calls, NextCall} /\ overlap' \in BOOLEAN /\ raced' \in BOOLEAN
    BY <1>3 DEF Reach
  <2>4. calls' \in 0 .. N + 1 /\ (macro # "LOG_FIRST_N" => calls' \in 0 .. N)
    BY <2>3, NextCallType, NAssumption
  <2>5. UNCHANGED <<macro, enabled, counterVars, alive>> BY <1>3 DEF Reach
  <2>6. QED BY <2>1, <2>2, <2>3, <2>4, <2>5 DEF counterVars
<1>4. ASSUME NEW t \in Threads, Load(t) PROVE TypeInv'
  BY <1>4 DEF Load, Read, auxVars
<1>5. ASSUME NEW t \in Threads, Store(t) PROVE TypeInv'
  <2>1. PICK v \in Int : Write(t, Bumped(v)) BY <1>5, SeenType DEF Store
  <2>2. Bumped(v) \in Int BY BumpedType
  <2>3. QED BY <1>5, <2>1, <2>2 DEF Store, Write, auxVars
<1>6. ASSUME NEW t \in Threads, Test(t) PROVE TypeInv'
  <2>1. reg' \in [Threads -> Int] /\ UNCHANGED <<count, macro, enabled, alive, calls, raced>>
    BY <1>6, SeenType DEF Test, Read, Leave, auxVars
  <2>2. /\ overlap' \in BOOLEAN
        /\ \E next \in {"wrap", "one", "ask", "out", "capture"} :
             pc' = [pc EXCEPT ![t] = next]
    BY <1>6 DEF Test, Leave, auxVars
  <2>3. QED BY <2>1, <2>2
<1>7. ASSUME NEW t \in Threads, Wrap(t) PROVE TypeInv'
  <2>1. Wrapped(reg[t]) \in Int BY BumpedType
  <2>2. QED BY <1>7, <2>1 DEF Wrap, Write, auxVars
<1>8. ASSUME NEW t \in Threads, One(t) PROVE TypeInv'
  BY <1>8, SeenType DEF One, Read, Leave
<1>9. ASSUME NEW t \in Threads, Ask(t) \/ Capture(t) PROVE TypeInv'
  BY <1>9 DEF Ask, Capture, counterVars, auxVars
<1>10. ASSUME NEW t \in Threads, WrapRead(t) PROVE TypeInv'
  BY <1>10, SeenType DEF WrapRead, Read, auxVars
<1>11. QED
  BY <1>1, <1>2, <1>3, <1>4, <1>5, <1>6, <1>7, <1>8, <1>9, <1>10
  DEF Next, Continue, Ended

\* Every variable of a statement keeps its type, for every N and however many
\* threads race on its counter.
THEOREM TypeCorrect == Spec => []TypeOK
<1>1. TypeInv /\ [Next]_vars => TypeInv' BY TypeStep
<1>2. TypeInv => TypeOK BY DEF TypeInv
<1>3. QED BY InitType, <1>1, <1>2, PTL DEF Spec

----------------------------------------------------------------------------
(* The counter.                                                              *)

\* A thread that is not at the counter and does not get there.
LEMMA Outside ==
  ASSUME TypeInv, CountInv, NEW t \in Threads, t \notin Inside,
         NEW next, next \notin Places,
         pc' = [pc EXCEPT ![t] = next], UNCHANGED <<macro, count, reg, calls, raced>>
  PROVE  CountInv'
<1>1. Inside' = Inside BY DEF TypeInv, TypeOK, Inside, Places
<1>2. \A u \in Inside : pc'[u] = pc[u] BY DEF TypeInv, TypeOK, Inside
<1>3. QED
  BY <1>1, <1>2, ZenonT(30) DEF CountInv, Counted, CountAt, Ahead, Increased

\* The one at the counter goes on.
LEMMA Onward ==
  ASSUME TypeInv, CountInv, NEW t \in Inside, NEW next \in Places,
         pc' = [pc EXCEPT ![t] = next], UNCHANGED <<macro, raced>>,
         ~raced => CountAt(next)' /\ (next # "load" => reg'[t] = count')
  PROVE  CountInv'
<1>1. CASE raced BY <1>1 DEF CountInv
<1>2. CASE ~raced
  <2>1. Inside = {t} /\ macro \in Counting BY <1>2 DEF CountInv
  <2>2. Inside' = {t} /\ pc'[t] = next
    BY <2>1 DEF TypeInv, TypeOK, Inside, Places
  <2>3. QED BY <1>2, <2>1, <2>2 DEF CountInv
<1>3. QED BY <1>1, <1>2

\* It leaves.
LEMMA Away ==
  ASSUME TypeInv, CountInv, NEW t \in Inside, NEW next, next \notin Places,
         pc' = [pc EXCEPT ![t] = next], UNCHANGED <<macro, raced>>,
         ~raced => Counted'
  PROVE  CountInv'
<1>1. CASE raced BY <1>1 DEF CountInv
<1>2. CASE ~raced
  <2>1. Inside = {t} BY <1>2 DEF CountInv
  <2>2. Inside' = {} BY <2>1 DEF TypeInv, TypeOK, Inside, Places
  <2>3. QED BY <1>2, <2>2 DEF CountInv
<1>3. QED BY <1>1, <1>2

LEMMA ReachCount ==
  ASSUME TypeInv, CountInv, NEW t \in Threads, Reach(t)
  PROVE  CountInv'
<1>1. PICK next : /\ pc' = [pc EXCEPT ![t] = next]
                  /\ \E holds \in BOOLEAN : next \in Entries(holds)
  BY DEF Reach
<1>2. /\ pc[t] = "out" /\ t \notin Inside /\ pc'[t] = next
      /\ UNCHANGED <<macro, count, reg>>
  BY <1>1 DEF Reach, TypeInv, TypeOK, Inside, counterVars
<1>3. CASE next # "load"
  <2>1. next \notin Places BY <1>1, <1>3, EntryCases DEF TypeInv, Places
  <2>2. UNCHANGED <<calls, raced>> BY <1>2, <1>3 DEF Reach
  <2>3. QED BY <1>1, <1>2, <2>1, <2>2, Outside
<1>4. CASE next = "load" /\ ~raced'
  <2>1. macro \in Counting BY <1>1, <1>4, EntryCases DEF TypeInv
  <2>2. calls' = NextCall /\ Inside = {} /\ ~raced BY <1>2, <1>4 DEF Reach
  <2>3. Inside' = {t}
    BY <1>1, <1>4, <2>2 DEF TypeInv, TypeOK, Inside
  <2>4. Counted BY <2>2 DEF CountInv
  <2>5. Ahead'
    <3>1. calls \in 0 .. N + 1 /\ (macro # "LOG_FIRST_N" => calls \in 0 .. N)
          /\ N \in Nat \ {0}
      BY NAssumption DEF TypeInv, TypeOK
    <3>2. CASE macro = "LOG_EVERY_N"
      BY <1>2, <2>2, <2>4, <3>1, <3>2 DEF NextCall, Counted, Ahead
    <3>3. CASE macro = "LOG_IF_EVERY_N"
      BY <1>2, <2>2, <2>4, <3>1, <3>3 DEF NextCall, Counted, Ahead
    <3>4. CASE macro = "LOG_FIRST_N"
      BY <1>2, <2>2, <2>4, <3>1, <3>4 DEF NextCall, Counted, Ahead
    <3>5. QED BY <2>1, <3>2, <3>3, <3>4 DEF Counting
  <2>6. QED BY <1>2, <1>4, <2>1, <2>3, <2>5 DEF CountInv, CountAt
<1>5. CASE raced' BY <1>5 DEF CountInv
<1>6. QED BY <1>3, <1>4, <1>5

LEMMA LoadCount ==
  ASSUME TypeInv, CountInv, NEW t \in Threads, Load(t)
  PROVE  CountInv'
<1> DEFINE next == IF macro = "LOG_FIRST_N" /\ count > N THEN "test" ELSE "store"
<1>1. /\ t \in Inside /\ pc[t] = "load" /\ pc' = [pc EXCEPT ![t] = next]
      /\ reg'[t] = count /\ UNCHANGED <<macro, raced, count, calls>>
  BY DEF Load, Read, Inside, auxVars, TypeInv, TypeOK
<1>2. next \in Places BY DEF Places
<1>3. ASSUME ~raced
      PROVE  macro \in Counting /\ Ahead
  BY <1>1, <1>3 DEF CountInv, CountAt
<1>4. ASSUME ~raced, next = "store" PROVE CountAt("store")'
  <2>1. macro = "LOG_FIRST_N" => count <= N
    BY <1>4, NAssumption DEF TypeInv, TypeOK
  <2>2. QED BY <1>1, <1>3, <1>4, <2>1 DEF CountAt, Ahead
<1>5. ASSUME ~raced, next = "test" PROVE CountAt("test")'
  <2>1. macro = "LOG_FIRST_N" /\ count > N BY <1>5
  <2>2. QED BY <1>1, <1>3, <1>5, <2>1, NAssumption DEF CountAt, Ahead, Increased, Counted, TypeInv, TypeOK
<1>6. ~raced => CountAt(next)' /\ reg'[t] = count' BY <1>1, <1>4, <1>5
<1>7. QED BY <1>1, <1>2, <1>6, Onward

LEMMA StoreCount ==
  ASSUME TypeInv, CountInv, NEW t \in Threads, Store(t)
  PROVE  CountInv'
<1>1. PICK v \in Seen(t) : Write(t, Bumped(v)) BY DEF Store
<1>2. /\ t \in Inside /\ pc[t] = "store" /\ pc' = [pc EXCEPT ![t] = "test"]
      /\ reg'[t] = count' /\ count' = Bumped(v)
      /\ UNCHANGED <<macro, raced, calls>>
  BY <1>1 DEF Store, Write, Inside, auxVars, TypeInv, TypeOK
<1>3. ASSUME ~raced PROVE Increased'
  <2>1. v = count /\ macro \in Counting /\ Ahead
        /\ (macro = "LOG_FIRST_N" => count <= N)
    BY <1>1, <1>2, <1>3 DEF CountInv, CountAt, Seen
  <2>2. CASE macro = "LOG_EVERY_N"
    BY <1>2, <2>1, <2>2, NAssumption DEF Ahead, Increased, Bumped
  <2>3. CASE macro = "LOG_IF_EVERY_N"
    <3>1. count + 1 \in 1 .. N /\ calls = count + 1
      BY <2>1, <2>3, NAssumption DEF Ahead
    <3>2. (count + 1) % N = IF count + 1 = N THEN 0 ELSE count + 1
      BY <3>1, Moduli
    <3>3. QED
      BY <1>2, <2>1, <2>3, <3>1, <3>2, NAssumption DEF Increased, Counted, Bumped
  <2>4. CASE macro = "LOG_FIRST_N"
    BY <1>2, <2>1, <2>4, NAssumption DEF Ahead, Increased, Counted, Bumped
  <2>5. QED BY <2>1, <2>2, <2>3, <2>4 DEF Counting
<1>4. QED BY <1>2, <1>3, Onward DEF CountAt, Places

\* What the test finds is the counter; with it, the thread decides as it should.
LEMMA TestDecides ==
  ASSUME TypeInv, CountInv, NEW t \in Threads, Test(t), ~raced
  PROVE  /\ UNCHANGED <<macro, raced, count, calls>> /\ reg'[t] = count
         /\ t \in Inside /\ Increased
         /\ \/ /\ macro = "LOG_EVERY_N" /\ count > N
               /\ pc' = [pc EXCEPT ![t] = "wrap"]
            \/ /\ macro = "LOG_EVERY_N" /\ count <= N
               /\ pc' = [pc EXCEPT ![t] = "one"]
            \/ /\ macro \in {"LOG_FIRST_N", "LOG_IF_EVERY_N"}
               /\ Due /\ \E next \in {"ask", "capture"} : pc' = [pc EXCEPT ![t] = next]
            \/ /\ macro \in {"LOG_FIRST_N", "LOG_IF_EVERY_N"}
               /\ ~Due /\ pc' = [pc EXCEPT ![t] = "out"]
<1>1. t \in Inside /\ pc[t] = "test" BY DEF Test, Inside
<1>2. reg[t] = count /\ Increased BY <1>1 DEF CountInv, CountAt
<1>3. Read(t, count) BY <1>2 DEF Test, Seen
<1>4. UNCHANGED <<macro, raced, count, calls>> /\ reg'[t] = count
  BY <1>3 DEF Test, Read, Leave, auxVars, TypeInv, TypeOK
<1>5. CASE macro = "LOG_EVERY_N"
  BY <1>1, <1>2, <1>4, <1>5, NAssumption DEF Test, Seen, TypeInv, TypeOK
<1>6. CASE macro = "LOG_FIRST_N"
  <2>1. pc' = [pc EXCEPT ![t] = IF count <= N THEN "ask" ELSE "out"]
    BY <1>2, <1>6 DEF Test, Seen, Leave
  <2>2. count = calls BY <1>2, <1>6 DEF Increased, Counted
  <2>3. QED BY <1>1, <1>2, <1>4, <1>6, <2>1, <2>2 DEF Due
<1>7. CASE macro = "LOG_IF_EVERY_N"
  <2>1. pc' = [pc EXCEPT ![t] = IF count = 1 % N THEN "capture" ELSE "out"]
    BY <1>2, <1>7 DEF Test, Seen, Leave
  <2>2. calls \in 1 .. N /\ count = IF calls = N THEN 0 ELSE calls
    BY <1>2, <1>7 DEF Increased, Counted, TypeInv, TypeOK
  <2>3. 1 % N = IF N = 1 THEN 0 ELSE 1 BY Moduli, NAssumption
  <2>4. count = 1 % N <=> calls = 1 BY <2>2, <2>3, NAssumption
  <2>5. QED BY <1>1, <1>2, <1>4, <1>7, <2>1, <2>4 DEF Due
<1>8. QED BY <1>5, <1>6, <1>7 DEF Test

LEMMA TestCount ==
  ASSUME TypeInv, CountInv, NEW t \in Threads, Test(t)
  PROVE  CountInv'
<1>1. CASE raced BY <1>1 DEF CountInv, Test, Leave, auxVars
<1>2. CASE ~raced /\ macro = "LOG_EVERY_N" /\ count > N
  <2>1. /\ UNCHANGED <<macro, raced, count, calls>> /\ reg'[t] = count
        /\ t \in Inside /\ Increased /\ pc' = [pc EXCEPT ![t] = "wrap"]
    BY <1>2, TestDecides, NAssumption DEF TypeInv, TypeOK
  <2>2. count = N + 1 /\ calls = 1 BY <1>2, <2>1, NAssumption DEF Increased
  <2>3. CountAt("wrap")' BY <1>2, <2>1, <2>2 DEF CountAt
  <2>4. QED BY <2>1, <2>3, Onward DEF Places
<1>3. CASE ~raced /\ macro = "LOG_EVERY_N" /\ count <= N
  <2>1. /\ UNCHANGED <<macro, raced, count, calls>> /\ reg'[t] = count
        /\ t \in Inside /\ Increased /\ pc' = [pc EXCEPT ![t] = "one"]
    BY <1>3, TestDecides, NAssumption DEF TypeInv, TypeOK
  <2>2. count = calls BY <1>3, <2>1, NAssumption DEF Increased
  <2>3. CountAt("one")' BY <1>3, <2>1, <2>2 DEF CountAt, Counted
  <2>4. QED BY <2>1, <2>3, Onward DEF Places
<1>4. CASE ~raced /\ macro \in {"LOG_FIRST_N", "LOG_IF_EVERY_N"}
  <2>1. Counted' BY <1>4, TestDecides DEF Increased, Counted
  <2>2. PICK next \in {"ask", "capture", "out"} : pc' = [pc EXCEPT ![t] = next]
    BY <1>4, TestDecides
  <2>3. next \notin Places BY DEF Places
  <2>4. QED BY <1>4, <2>1, <2>2, <2>3, TestDecides, Away
<1>5. QED BY <1>1, <1>2, <1>3, <1>4, TestDecides

LEMMA WrapCount ==
  ASSUME TypeInv, CountInv, NEW t \in Threads, Wrap(t)
  PROVE  CountInv'
<1>1. /\ t \in Inside /\ pc[t] = "subtract" /\ pc' = [pc EXCEPT ![t] = "one"]
      /\ reg'[t] = count' /\ count' = Wrapped(reg[t])
      /\ UNCHANGED <<macro, raced, calls>>
  BY DEF Wrap, Write, Inside, auxVars, TypeInv, TypeOK
<1>2. ASSUME ~raced PROVE CountAt("one")'
  <2>1. reg[t] = count /\ macro = "LOG_EVERY_N" /\ count = N + 1 /\ calls = 1
    BY <1>1, <1>2 DEF CountInv, CountAt
  <2>2. count' = calls' BY <1>1, <2>1, NAssumption DEF Wrapped
  <2>3. QED BY <1>1, <2>1, <2>2 DEF CountAt, Counted
<1>3. QED BY <1>1, <1>2, Onward DEF Places

LEMMA WrapReadCount ==
  ASSUME TypeInv, CountInv, NEW t \in Threads, WrapRead(t)
  PROVE  CountInv'
<1>1. PICK v \in Seen(t) : Read(t, v) BY DEF WrapRead
<1>2. /\ t \in Inside /\ pc[t] = "wrap" /\ pc' = [pc EXCEPT ![t] = "subtract"]
      /\ reg'[t] = v /\ UNCHANGED <<macro, raced, calls, count>>
  BY <1>1 DEF WrapRead, Read, Inside, auxVars, TypeInv, TypeOK
<1>3. ASSUME ~raced PROVE CountAt("subtract")' /\ reg'[t] = count'
  <2>1. v = count /\ CountAt("wrap") BY <1>1, <1>2, <1>3 DEF CountInv, Seen
  <2>2. QED BY <1>2, <2>1 DEF CountAt
<1>4. QED BY <1>2, <1>3, Onward DEF Places

LEMMA OneDecides ==
  ASSUME TypeInv, CountInv, NEW t \in Threads, One(t), ~raced
  PROVE  /\ UNCHANGED <<macro, raced, count, calls>>
         /\ t \in Inside /\ Counted
         /\ \/ Due /\ pc' = [pc EXCEPT ![t] = "ask"]
            \/ ~Due /\ pc' = [pc EXCEPT ![t] = "out"]
<1>1. t \in Inside /\ pc[t] = "one" BY DEF One, Inside
<1>2. reg[t] = count /\ macro = "LOG_EVERY_N" /\ Counted
  BY <1>1 DEF CountInv, CountAt
<1>3. Read(t, count) /\ Leave(t, IF count = 1 THEN "ask" ELSE "out")
  BY <1>2 DEF One, Seen
<1>4. Due <=> count = 1 BY <1>2 DEF Due, Counted
<1>5. QED BY <1>1, <1>2, <1>3, <1>4 DEF Read, Leave

LEMMA OneCount ==
  ASSUME TypeInv, CountInv, NEW t \in Threads, One(t)
  PROVE  CountInv'
<1>1. CASE raced BY <1>1 DEF CountInv, One, Leave
<1>2. CASE ~raced
  <2>1. Counted' BY <1>2, OneDecides DEF Counted
  <2>2. PICK next \in {"ask", "out"} : pc' = [pc EXCEPT ![t] = next]
    BY <1>2, OneDecides
  <2>3. next \notin Places BY DEF Places
  <2>4. QED BY <1>2, <2>1, <2>2, <2>3, OneDecides, Away
<1>3. QED BY <1>1, <1>2

LEMMA AnswerCount ==
  ASSUME TypeInv, CountInv, NEW t \in Threads, Ask(t) \/ Capture(t)
  PROVE  CountInv'
<1>1. PICK next \in {"capture", "out"} : pc' = [pc EXCEPT ![t] = next]
  BY DEF Ask, Capture
<1>2. t \notin Inside /\ UNCHANGED <<macro, count, reg, calls, raced>>
  BY DEF Ask, Capture, Inside, counterVars, auxVars
<1>3. next \notin Places BY DEF Places
<1>4. QED BY <1>1, <1>2, <1>3, Outside

LEMMA CountStep ==
  ASSUME TypeInv, CountInv, [Next]_vars
  PROVE  CountInv'
<1>1. CASE UNCHANGED vars \/ SetLevel
  <2>1. UNCHANGED <<macro, pc, count, reg, calls, raced>>
    BY <1>1 DEF SetLevel, vars, counterVars, auxVars
  <2>2. Inside' = Inside BY <2>1 DEF Inside
  <2>3. QED
    BY <2>1, <2>2 DEF CountInv, Counted, CountAt, Ahead, Increased
<1>2. QED
  BY <1>1, ReachCount, LoadCount, StoreCount, TestCount, WrapReadCount, WrapCount,
     OneCount, AnswerCount
  DEF Next, Continue, Ended

\* As long as no two threads were at the counter at once, it is what the calls
\* so far make it, and one call ahead or behind where a thread is busy with it.
THEOREM CounterInvariant == Spec => [](TypeInv /\ CountInv)
<1>1. Init => TypeInv /\ CountInv
  <2>1. Init => CountInv BY NAssumption DEF Init, CountInv, Inside, Counted
  <2>2. QED BY <2>1, InitType
<1>2. TypeInv /\ CountInv /\ [Next]_vars => (TypeInv /\ CountInv)'
  BY TypeStep, CountStep
<1>3. QED BY <1>1, <1>2, PTL DEF Spec

\* As long as no two threads were in the statement at once, LOG_FIRST_N logs
\* its first N calls and no other, and LOG_EVERY_N and LOG_IF_EVERY_N log the
\* first of every N calls, for every N and across every wrap (g3log.hpp).
THEOREM CountsExactHolds == Spec => CountsExact
<1> DEFINE Exact == ~raced => \A t \in Threads : (Logs(t) => Due) /\ (Skips(t) => ~Due)
<1>1. TypeInv /\ CountInv /\ [Next]_vars => Exact
  <2> SUFFICES ASSUME TypeInv, CountInv, [Next]_vars, ~raced, NEW t \in Threads,
                      pc[t] \in {"test", "one"}, pc'[t] # pc[t]
               PROVE  (Logs(t) => Due) /\ (Skips(t) => ~Due)
    BY DEF Logs, Skips
  <2>1. Test(t) \/ One(t)
    <3>1. ASSUME NEW u \in Threads, Reach(u) \/ Continue(u) PROVE u = t
      BY <3>1
      DEF Reach, Continue, Load, Store, Test, WrapRead, Wrap, One, Ask, Capture,
          Leave, TypeInv, TypeOK
    <3>2. Reach(t) \/ Continue(t)
      BY <3>1 DEF Next, SetLevel, Ended, vars
    <3>3. QED
      BY <3>2 DEF Reach, Continue, Load, Store, WrapRead, Wrap, Ask, Capture
  <2>2. CASE Test(t)
    BY <2>2, TestDecides DEF Logs, Skips, TypeInv, TypeOK
  <2>3. CASE One(t)
    BY <2>3, OneDecides DEF Logs, Skips, TypeInv, TypeOK
  <2>4. QED BY <2>1, <2>2, <2>3
<1>2. QED BY <1>1, CounterInvariant, PTL DEF Spec, CountsExact
=============================================================================
