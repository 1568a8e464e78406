--------------------------- MODULE FatalPathProofs ---------------------------
(****************************************************************************)
(* Proofs about FatalPath: its types, the way back to the actions before     *)
(* g3log, the gate, the hook and its crashes, and the end by the signal.     *)
(*                                                                          *)
(* A step changes the stacks of events by at most three operations: the top  *)
(* event of a thread is changed, an event is put on top, the top event is    *)
(* taken away.  The invariants about stacks are stated for any stacks st, so  *)
(* that one lemma for each operation carries them through every action.      *)
(****************************************************************************)
EXTENDS FatalPath, TLAPS

Stacks == [All -> Seq(Events)]

\* The stacks st with e in place of the top event of t; with e on top of it;
\* and without it.
Put(st, t, e) == [st EXCEPT ![t] = [st[t] EXCEPT ![Len(st[t])] = e]]
Push(st, t, e) == [st EXCEPT ![t] = Append(st[t], e)]
Pop(st, t) == [st EXCEPT ![t] = Front(st[t])]

LEMMA Changed ==
  ASSUME NEW st \in Stacks, NEW t \in All, st[t] # <<>>, NEW e \in Events,
         NEW new, new = Put(st, t, e)
  PROVE  /\ new \in Stacks
         /\ Len(st[t]) \in Nat \ {0}
         /\ \A u \in All : Len(new[u]) = Len(st[u])
         /\ \A u \in All : \A i \in 1 .. Len(st[u]) :
              new[u][i] = IF u = t /\ i = Len(st[t]) THEN e ELSE st[u][i]
<1>1. st[t] \in Seq(Events) /\ Len(st[t]) \in Nat \ {0}
  BY DEF Stacks
<1>2. [st[t] EXCEPT ![Len(st[t])] = e] \in Seq(Events)
  BY <1>1
<1>3. Len([st[t] EXCEPT ![Len(st[t])] = e]) = Len(st[t])
  BY <1>1
<1>4. \A i \in 1 .. Len(st[t]) :
        [st[t] EXCEPT ![Len(st[t])] = e][i] =
          IF i = Len(st[t]) THEN e ELSE st[t][i]
  BY <1>1
<1> QED
  BY <1>1, <1>2, <1>3, <1>4 DEF Stacks, Put

LEMMA Pushed ==
  ASSUME NEW st \in Stacks, NEW t \in All, NEW e \in Events,
         NEW new, new = Push(st, t, e)
  PROVE  /\ new \in Stacks
         /\ \A u \in All :
              Len(new[u]) = IF u = t THEN Len(st[u]) + 1 ELSE Len(st[u])
         /\ \A u \in All : \A i \in 1 .. Len(new[u]) :
              new[u][i] = IF u = t /\ i = Len(st[t]) + 1 THEN e ELSE st[u][i]
         /\ \A u \in All : \A i \in 1 .. Len(st[u]) :
              i \in 1 .. Len(new[u]) /\ new[u][i] = st[u][i]
         /\ \A u \in All : \A i \in 1 .. Len(new[u]) :
              new[u][i] = e \/ (i \in 1 .. Len(st[u]) /\ new[u][i] = st[u][i])
<1>1. st[t] \in Seq(Events) /\ \A u \in All : Len(st[u]) \in Nat
  BY DEF Stacks
<1>2. /\ Append(st[t], e) \in Seq(Events)
      /\ Len(Append(st[t], e)) = Len(st[t]) + 1
      /\ \A i \in 1 .. Len(st[t]) + 1 :
           Append(st[t], e)[i] = IF i = Len(st[t]) + 1 THEN e ELSE st[t][i]
  BY <1>1
<1>3. \A u \in All : new[u] = IF u = t THEN Append(st[t], e) ELSE st[u]
  BY DEF Stacks, Push
<1>4. new \in Stacks
  BY <1>1, <1>2 DEF Stacks, Push
<1>5. ASSUME NEW u \in All
      PROVE  /\ Len(new[u]) = IF u = t THEN Len(st[u]) + 1 ELSE Len(st[u])
             /\ \A i \in 1 .. Len(new[u]) :
                  new[u][i] = IF u = t /\ i = Len(st[t]) + 1 THEN e ELSE st[u][i]
             /\ \A i \in 1 .. Len(st[u]) :
                  i \in 1 .. Len(new[u]) /\ new[u][i] = st[u][i]
             /\ \A i \in 1 .. Len(new[u]) :
                  new[u][i] = e \/ (i \in 1 .. Len(st[u]) /\ new[u][i] = st[u][i])
  <2>1. CASE u = t
    <3>1. Len(st[t]) \in Nat
      BY <1>1
    <3>2. /\ Len(new[t]) = Len(st[t]) + 1
          /\ \A i \in 1 .. Len(st[t]) + 1 :
               new[t][i] = IF i = Len(st[t]) + 1 THEN e ELSE st[t][i]
      BY <1>2, <1>3
    <3> QED
      BY <2>1, <3>1, <3>2
  <2>2. CASE u # t
    BY <1>3, <2>2
  <2> QED
    BY <2>1, <2>2
<1> QED
  BY <1>4, <1>5

LEMMA Popped ==
  ASSUME NEW st \in Stacks, NEW t \in All, st[t] # <<>>,
         NEW new, new = Pop(st, t)
  PROVE  /\ new \in Stacks
         /\ Len(st[t]) \in Nat \ {0}
         /\ \A u \in All :
              Len(new[u]) = IF u = t THEN Len(st[u]) - 1 ELSE Len(st[u])
         /\ \A u \in All : \A i \in 1 .. Len(new[u]) :
              i \in 1 .. Len(st[u]) /\ new[u][i] = st[u][i]
         /\ \A u \in All : \A i \in 1 .. Len(st[u]) :
              \/ i \in 1 .. Len(new[u]) /\ new[u][i] = st[u][i]
              \/ u = t /\ i = Len(st[t])
<1>1. st[t] \in Seq(Events) /\ Len(st[t]) \in Nat \ {0}
  BY DEF Stacks
<1>2. /\ Front(st[t]) \in Seq(Events)
      /\ Len(Front(st[t])) = Len(st[t]) - 1
      /\ \A i \in 1 .. Len(st[t]) - 1 : Front(st[t])[i] = st[t][i]
  BY <1>1 DEF Front
<1>3. \A u \in All : new[u] = IF u = t THEN Front(st[t]) ELSE st[u]
  BY DEF Stacks, Pop
<1>4. new \in Stacks
  BY <1>1, <1>2 DEF Stacks, Pop
<1>5. ASSUME NEW u \in All
      PROVE  /\ Len(new[u]) = IF u = t THEN Len(st[u]) - 1 ELSE Len(st[u])
             /\ \A i \in 1 .. Len(new[u]) :
                  i \in 1 .. Len(st[u]) /\ new[u][i] = st[u][i]
             /\ \A i \in 1 .. Len(st[u]) :
                  \/ i \in 1 .. Len(new[u]) /\ new[u][i] = st[u][i]
                  \/ u = t /\ i = Len(st[t])
  <2>1. CASE u = t
    <3>1. Len(st[t]) \in Nat \ {0}
      BY <1>1
    <3>2. /\ Len(new[t]) = Len(st[t]) - 1
          /\ \A i \in 1 .. Len(st[t]) - 1 : new[t][i] = st[t][i]
      BY <1>2, <1>3
    <3> QED
      BY <2>1, <3>1, <3>2
  <2>2. CASE u # t
    BY <1>3, <2>2
  <2> QED
    BY <2>1, <2>2
<1> QED
  BY <1>1, <1>4, <1>5

----------------------------------------------------------------------------
(* The gate.                                                                 *)

\* Event i of thread t was let past the gate.
Past(st, t, i) == st[t][i].handler /\ st[t][i].pc # "sleep"

Gate(st, first) ==
  /\ ~first => \A t \in All : \A i \in 1 .. Len(st[t]) : ~st[t][i].handler
  /\ \A t, u \in All : \A i \in 1 .. Len(st[t]), j \in 1 .. Len(st[u]) :
       Past(st, t, i) /\ Past(st, u, j) => t = u /\ i = j

LEMMA GateChanged ==
  ASSUME NEW st \in Stacks, NEW t \in All, st[t] # <<>>, NEW e \in Events,
         NEW new, new = Put(st, t, e),
         NEW first, Gate(st, first),
         e.handler = st[t][Len(st[t])].handler,
         st[t][Len(st[t])].pc # "sleep"
  PROVE  Gate(new, first)
<1>1. /\ \A u \in All : Len(new[u]) = Len(st[u])
      /\ \A u \in All : \A i \in 1 .. Len(st[u]) :
           new[u][i] = IF u = t /\ i = Len(st[t]) THEN e ELSE st[u][i]
      /\ Len(st[t]) \in Nat \ {0}
  BY Changed
<1>2. \A u \in All : \A i \in 1 .. Len(st[u]) :
        /\ new[u][i].handler = st[u][i].handler
        /\ Past(new, u, i) => Past(st, u, i)
  BY <1>1 DEF Past
<1>3. ~first => \A u \in All : \A i \in 1 .. Len(new[u]) : ~new[u][i].handler
  BY <1>1, <1>2 DEF Gate
<1>4. \A u \in All : \A i \in 1 .. Len(new[u]) : Past(new, u, i) =>
        i \in 1 .. Len(st[u]) /\ Past(st, u, i)
  BY <1>1, <1>2
<1> QED
  BY <1>3, <1>4 DEF Gate

LEMMA GatePushed ==
  ASSUME NEW st \in Stacks, NEW t \in All, NEW e \in Events,
         NEW new, new = Push(st, t, e),
         NEW first \in BOOLEAN, Gate(st, first),
         NEW next \in BOOLEAN, next = (first \/ e.handler),
         e.handler /\ first => e.pc = "sleep"
  PROVE  Gate(new, next)
<1>1. /\ \A u \in All :
           Len(new[u]) = IF u = t THEN Len(st[u]) + 1 ELSE Len(st[u])
      /\ \A u \in All : \A i \in 1 .. Len(new[u]) :
           new[u][i] = IF u = t /\ i = Len(st[t]) + 1 THEN e ELSE st[u][i]
  BY Pushed
<1>2. \A u \in All : Len(st[u]) \in Nat
  BY DEF Stacks
<1>3. \A u \in All : \A i \in 1 .. Len(new[u]) :
        \/ u = t /\ i = Len(st[t]) + 1 /\ new[u][i] = e
        \/ i \in 1 .. Len(st[u]) /\ new[u][i] = st[u][i]
  BY <1>1, <1>2
<1>4. CASE ~e.handler
  <2>1. \A u \in All : \A i \in 1 .. Len(new[u]) : Past(new, u, i) =>
          i \in 1 .. Len(st[u]) /\ Past(st, u, i)
    BY <1>3, <1>4 DEF Past
  <2>2. ~next => \A u \in All : \A i \in 1 .. Len(new[u]) : ~new[u][i].handler
    BY <1>3, <1>4 DEF Gate
  <2> QED
    BY <2>1, <2>2 DEF Gate
<1>5. CASE e.handler /\ first
  <2>1. \A u \in All : \A i \in 1 .. Len(new[u]) : Past(new, u, i) =>
          i \in 1 .. Len(st[u]) /\ Past(st, u, i)
    BY <1>3, <1>5 DEF Past
  <2> QED
    <3>1. next = TRUE
      BY <1>5
    <3> QED
      BY <2>1, <3>1 DEF Gate
<1>6. CASE e.handler /\ ~first
  <2>1. \A u \in All : \A i \in 1 .. Len(new[u]) : Past(new, u, i) =>
          u = t /\ i = Len(st[t]) + 1
    BY <1>3, <1>6 DEF Past, Gate
  <2> QED
    BY <2>1, <1>6 DEF Gate
<1> QED
  BY <1>4, <1>5, <1>6

LEMMA GatePopped ==
  ASSUME NEW st \in Stacks, NEW t \in All, st[t] # <<>>,
         NEW new, new = Pop(st, t),
         NEW first, Gate(st, first)
  PROVE  Gate(new, first)
<1>1. \A u \in All : \A i \in 1 .. Len(new[u]) :
        i \in 1 .. Len(st[u]) /\ new[u][i] = st[u][i]
  BY Popped, SMTT(30)
<1>2. \A u \in All : \A i \in 1 .. Len(new[u]) : Past(new, u, i) =>
        i \in 1 .. Len(st[u]) /\ Past(st, u, i)
  BY <1>1 DEF Past
<1>3. ~first => \A u \in All : \A i \in 1 .. Len(new[u]) : ~new[u][i].handler
  BY <1>1 DEF Gate
<1> QED
  BY <1>2, <1>3 DEF Gate

----------------------------------------------------------------------------
(* The hook and what is met in it.                                           *)

\* With the hook h and c crashes counted: a hook that runs, or crashed, was
\* counted and replaced; an event above a crashed one has not copied the user's
\* hook, is counted itself, and says so.
Nested(st, h, c) ==
  \A t \in All : \A j \in 1 .. Len(st[t]) :
    /\ st[t][j].pc \in {"hook", "crashed"} => h # "user" /\ c > 0
    /\ \A i \in 1 .. Len(st[t]) : i < j /\ st[t][i].pc = "crashed" =>
         /\ st[t][j].hook # "user"
         /\ st[t][j].pc \in {"hook", "crashed"} => c > 1
         /\ st[t][j].pc \in {"send", "push"} => st[t][j].recursive

LEMMA NestedLater ==
  ASSUME NEW st \in Stacks, NEW h, NEW c \in Nat, Nested(st, h, c),
         NEW g, g # "user" \/ g = h, NEW d \in Nat, d >= c
  PROVE  Nested(st, g, d)
BY DEF Nested

LEMMA NestedChanged ==
  ASSUME NEW st \in Stacks, NEW t \in All, st[t] # <<>>, NEW e \in Events,
         NEW new, new = Put(st, t, e),
         NEW h, NEW c \in Nat, Nested(st, h, c),
         e.pc \in {"hook", "crashed"} => h # "user" /\ c > 0,
         \A i \in 1 .. Len(st[t]) - 1 : st[t][i].pc = "crashed" =>
           /\ e.hook # "user"
           /\ e.pc \in {"hook", "crashed"} => c > 1
           /\ e.pc \in {"send", "push"} => e.recursive
  PROVE  Nested(new, h, c)
<1>1. /\ \A u \in All : Len(new[u]) = Len(st[u])
      /\ \A u \in All : \A i \in 1 .. Len(st[u]) :
           new[u][i] = IF u = t /\ i = Len(st[t]) THEN e ELSE st[u][i]
      /\ Len(st[t]) \in Nat \ {0}
  BY Changed
<1>2. \A u \in All : Len(st[u]) \in Nat
  BY DEF Stacks
<1> SUFFICES ASSUME NEW u \in All, NEW j \in 1 .. Len(st[u])
             PROVE
    /\ new[u][j].pc \in {"hook", "crashed"} => h # "user" /\ c > 0
    /\ \A i \in 1 .. Len(st[u]) : i < j /\ new[u][i].pc = "crashed" =>
         /\ new[u][j].hook # "user"
         /\ new[u][j].pc \in {"hook", "crashed"} => c > 1
         /\ new[u][j].pc \in {"send", "push"} => new[u][j].recursive
  BY <1>1 DEF Nested
<1>3. \A i \in 1 .. Len(st[u]) : i < j => new[u][i] = st[u][i]
  BY <1>1, <1>2
<1>4. CASE u = t /\ j = Len(st[t])
  BY <1>1, <1>2, <1>3, <1>4
<1>5. CASE ~(u = t /\ j = Len(st[t]))
  <2>1. new[u][j] = st[u][j]
    BY <1>1, <1>5
  <2> QED
    BY <1>3, <2>1 DEF Nested
<1> QED
  BY <1>4, <1>5

LEMMA NestedPushed ==
  ASSUME NEW st \in Stacks, NEW t \in All, NEW e \in Events,
         NEW new, new = Push(st, t, e),
         NEW h, NEW c \in Nat, Nested(st, h, c),
         e.pc \in {"save", "sleep"}, e.hook # "user"
  PROVE  Nested(new, h, c)
<1>1. /\ \A u \in All :
           Len(new[u]) = IF u = t THEN Len(st[u]) + 1 ELSE Len(st[u])
      /\ \A u \in All : \A i \in 1 .. Len(new[u]) :
           new[u][i] = IF u = t /\ i = Len(st[t]) + 1 THEN e ELSE st[u][i]
  BY Pushed
<1>2. \A u \in All : Len(st[u]) \in Nat
  BY DEF Stacks
<1> SUFFICES ASSUME NEW u \in All, NEW j \in 1 .. Len(new[u])
             PROVE
    /\ new[u][j].pc \in {"hook", "crashed"} => h # "user" /\ c > 0
    /\ \A i \in 1 .. Len(new[u]) : i < j /\ new[u][i].pc = "crashed" =>
         /\ new[u][j].hook # "user"
         /\ new[u][j].pc \in {"hook", "crashed"} => c > 1
         /\ new[u][j].pc \in {"send", "push"} => new[u][j].recursive
  BY DEF Nested
<1>3. \A i \in 1 .. Len(new[u]) : i < j =>
        i \in 1 .. Len(st[u]) /\ new[u][i] = st[u][i]
  BY <1>1, <1>2
<1>4. CASE u = t /\ j = Len(st[t]) + 1
  BY <1>1, <1>4
<1>5. CASE ~(u = t /\ j = Len(st[t]) + 1)
  <2>1. j \in 1 .. Len(st[u]) /\ new[u][j] = st[u][j]
    BY <1>1, <1>2, <1>5
  <2> QED
    BY <1>3, <2>1 DEF Nested
<1> QED
  BY <1>4, <1>5

LEMMA NestedPopped ==
  ASSUME NEW st \in Stacks, NEW t \in All, st[t] # <<>>,
         NEW new, new = Pop(st, t),
         NEW h, NEW c \in Nat, Nested(st, h, c)
  PROVE  Nested(new, h, c)
<1>1. \A u \in All : \A i \in 1 .. Len(new[u]) :
        i \in 1 .. Len(st[u]) /\ new[u][i] = st[u][i]
  BY Popped, SMTT(30)
<1> SUFFICES ASSUME NEW u \in All, NEW j \in 1 .. Len(new[u])
             PROVE
    /\ new[u][j].pc \in {"hook", "crashed"} => h # "user" /\ c > 0
    /\ \A i \in 1 .. Len(new[u]) : i < j /\ new[u][i].pc = "crashed" =>
         /\ new[u][j].hook # "user"
         /\ new[u][j].pc \in {"hook", "crashed"} => c > 1
         /\ new[u][j].pc \in {"send", "push"} => new[u][j].recursive
  BY DEF Nested
<1> QED
  BY <1>1 DEF Nested

----------------------------------------------------------------------------
(* A thread that stays where it is, and threads on their way out.            *)

Still == {"sleep", "exit"}
Asleep(st) == \E t \in All : \E i \in 1 .. Len(st[t]) : st[t][i].pc \in Still

LEMMA AsleepChanged ==
  ASSUME NEW st \in Stacks, NEW t \in All, st[t] # <<>>, NEW e \in Events,
         NEW new, new = Put(st, t, e),
         \/ e.pc \in Still
         \/ Asleep(st) /\ st[t][Len(st[t])].pc \notin Still
  PROVE  Asleep(new)
<1>1. /\ \A u \in All : Len(new[u]) = Len(st[u])
      /\ \A u \in All : \A i \in 1 .. Len(st[u]) :
           new[u][i] = IF u = t /\ i = Len(st[t]) THEN e ELSE st[u][i]
      /\ Len(st[t]) \in Nat \ {0}
  BY Changed
<1>2. Len(st[t]) \in 1 .. Len(new[t])
  BY <1>1
<1>3. CASE e.pc \in Still
  BY <1>1, <1>2, <1>3 DEF Asleep
<1>4. CASE Asleep(st) /\ st[t][Len(st[t])].pc \notin Still
  BY <1>1, <1>4 DEF Asleep
<1> QED
  BY <1>3, <1>4

LEMMA AsleepPushed ==
  ASSUME NEW st \in Stacks, NEW t \in All, NEW e \in Events,
         NEW new, new = Push(st, t, e), Asleep(st)
  PROVE  Asleep(new)
<1>1. ASSUME NEW u \in All, NEW i \in 1 .. Len(st[u])
      PROVE  i \in 1 .. Len(new[u]) /\ new[u][i] = st[u][i]
  BY Pushed, SMTT(30)
<1> QED
  BY <1>1 DEF Asleep

LEMMA AsleepPopped ==
  ASSUME NEW st \in Stacks, NEW t \in All, st[t] # <<>>,
         NEW new, new = Pop(st, t), Asleep(st),
         st[t][Len(st[t])].pc \notin Still
  PROVE  Asleep(new)
<1>1. ASSUME NEW u \in All, NEW i \in 1 .. Len(st[u])
      PROVE  \/ i \in 1 .. Len(new[u]) /\ new[u][i] = st[u][i]
             \/ u = t /\ i = Len(st[t])
  BY Popped, SMTT(30)
<1> QED
  BY <1>1 DEF Asleep

\* With the actions d and the pending signals p: nobody is about to kill the
\* process with a signal that would be handled, and who has got past kill left
\* its signal pending.
Fits(e, d, p) ==
  /\ e.pc = "kill" => d[e.sig] = "default"
  /\ e.pc = "exit" => e.sig \in p
Ending(st, d, p) == \A t \in All : \A i \in 1 .. Len(st[t]) : Fits(st[t][i], d, p)

LEMMA EndingChanged ==
  ASSUME NEW st \in Stacks, NEW t \in All, st[t] # <<>>, NEW e \in Events,
         NEW new, new = Put(st, t, e),
         NEW d, NEW p, Ending(st, d, p), Fits(e, d, p)
  PROVE  Ending(new, d, p)
BY Changed DEF Ending

LEMMA EndingPushed ==
  ASSUME NEW st \in Stacks, NEW t \in All, NEW e \in Events,
         NEW new, new = Push(st, t, e),
         NEW d, NEW p, Ending(st, d, p), e.pc \in {"save", "sleep"}
  PROVE  Ending(new, d, p)
<1>1. \A u \in All : \A i \in 1 .. Len(new[u]) :
        \/ new[u][i] = e
        \/ i \in 1 .. Len(st[u]) /\ new[u][i] = st[u][i]
  BY Pushed, SMTT(30)
<1>2. Fits(e, d, p)
  BY DEF Fits
<1> QED
  BY <1>1, <1>2 DEF Ending

LEMMA EndingPopped ==
  ASSUME NEW st \in Stacks, NEW t \in All, st[t] # <<>>,
         NEW new, new = Pop(st, t),
         NEW d, NEW p, Ending(st, d, p)
  PROVE  Ending(new, d, p)
<1>1. \A u \in All : \A i \in 1 .. Len(new[u]) :
        i \in 1 .. Len(st[u]) /\ new[u][i] = st[u][i]
  BY Popped, SMTT(30)
<1> QED
  BY <1>1 DEF Ending

----------------------------------------------------------------------------
(* The three operations as the actions use them.                             *)

\* The top event of a thread, and the one an action puts in its place.
LEMMA TopEvent ==
  ASSUME TypeOK, NEW t \in All, stack[t] # <<>>
  PROVE  /\ stack \in Stacks
         /\ Len(stack[t]) \in Nat \ {0}
         /\ Top(t) = stack[t][Len(stack[t])]
         /\ Top(t) \in Events
<1>1. stack[t] \in Seq(Events) /\ Len(stack[t]) \in Nat \ {0}
  BY DEF TypeOK
<1> QED
  BY <1>1 DEF TypeOK, Top, Stacks

LEMMA WithTopIsPut ==
  ASSUME NEW t, NEW e
  PROVE  WithTop(t, e) = Put(stack, t, e)
BY DEF WithTop, Put

LEMMA EventIsEvent ==
  ASSUME NEW s \in Signals, NEW handler \in BOOLEAN,
         NEW pc \in {"save", "sleep"}
  PROVE  /\ Event(s, handler, pc) \in Events
         /\ Event(s, handler, pc).handler = handler
         /\ Event(s, handler, pc).hook # "user"
         /\ Event(s, handler, pc).pc = pc
BY DEF Event, Events, Hooks

\* A handler that starts keeps what holds of the stacks it starts on.
LEMMA Handled ==
  ASSUME NEW st \in Stacks, NEW t \in All, NEW s \in Signals,
         firstExit \in BOOLEAN, crashes \in Nat,
         Gate(st, firstExit), Nested(st, hook, crashes), Handle(t, s, st)
  PROVE  /\ stack' \in Stacks /\ firstExit' = TRUE
         /\ Gate(stack', firstExit')
         /\ Nested(stack', hook, crashes)
         /\ Asleep(st) => Asleep(stack')
         /\ \A d, p : Ending(st, d, p) => Ending(stack', d, p)
<1> DEFINE e == Event(s, TRUE, IF Passes THEN "save" ELSE "sleep")
<1>1. stack' = Push(st, t, e)
  BY DEF Handle, Push
<1>2. e \in Events
  BY EventIsEvent
<1>3. e.pc \in {"save", "sleep"} /\ e.hook # "user"
  BY EventIsEvent
<1>4. /\ firstExit' = TRUE
      /\ TRUE = (firstExit \/ e.handler)
      /\ e.handler /\ firstExit => e.pc = "sleep"
  BY EventIsEvent DEF Handle, Passes
<1> HIDE DEF e
<1>5. stack' \in Stacks
  BY <1>1, <1>2, Pushed
<1>6. Gate(stack', TRUE)
  BY <1>1, <1>2, <1>4, GatePushed
<1>7. Nested(stack', hook, crashes)
  BY <1>1, <1>2, <1>3, NestedPushed
<1>8. ASSUME Asleep(st) PROVE Asleep(stack')
  BY <1>1, <1>2, <1>8, AsleepPushed
<1>9. ASSUME NEW d, NEW p, Ending(st, d, p) PROVE Ending(stack', d, p)
  BY <1>1, <1>2, <1>3, <1>9, EndingPushed
<1> QED
  BY <1>4, <1>5, <1>6, <1>7, <1>8, <1>9

\* What is known of the top event of a thread, and of the hook, when an event
\* below it crashed.
LEMMA TopNested ==
  ASSUME TypeOK, Nested(stack, hook, crashes), NEW t \in All, stack[t] # <<>>
  PROVE  /\ Top(t).pc \in {"hook", "crashed"} => hook # "user" /\ crashes > 0
         /\ \A i \in 1 .. Len(stack[t]) - 1 : stack[t][i].pc = "crashed" =>
              /\ hook # "user" /\ crashes > 0
              /\ Top(t).hook # "user"
              /\ Top(t).pc \in {"hook", "crashed"} => crashes > 1
              /\ Top(t).pc \in {"send", "push"} => Top(t).recursive
<1>1. Len(stack[t]) \in Nat \ {0} /\ Top(t) = stack[t][Len(stack[t])]
  BY TopEvent
<1>2. /\ \A j \in 1 .. Len(stack[t]) :
           stack[t][j].pc \in {"hook", "crashed"} => hook # "user" /\ crashes > 0
      /\ \A i \in 1 .. Len(stack[t]) :
           i < Len(stack[t]) /\ stack[t][i].pc = "crashed" =>
             /\ stack[t][Len(stack[t])].hook # "user"
             /\ stack[t][Len(stack[t])].pc \in {"hook", "crashed"} => crashes > 1
             /\ stack[t][Len(stack[t])].pc \in {"send", "push"} =>
                  stack[t][Len(stack[t])].recursive
  BY <1>1 DEF Nested
<1> QED
  BY <1>1, <1>2

\* An event that goes on keeps the gate, and who sleeps.
LEMMA Topped ==
  ASSUME TypeOK, Gate(stack, firstExit), NEW t \in All, stack[t] # <<>>,
         Top(t).pc \notin Still, NEW e \in Events, e.handler = Top(t).handler
  PROVE  /\ WithTop(t, e) \in Stacks
         /\ Gate(WithTop(t, e), firstExit)
         /\ Asleep(stack) => Asleep(WithTop(t, e))
         /\ e.pc \in Still => Asleep(WithTop(t, e))
<1>1. /\ stack \in Stacks
      /\ Top(t) = stack[t][Len(stack[t])]
  BY TopEvent
<1>2. WithTop(t, e) = Put(stack, t, e)
  BY WithTopIsPut
<1>3. WithTop(t, e) \in Stacks
  BY <1>1, <1>2, Changed
<1>4. Gate(WithTop(t, e), firstExit)
  BY <1>1, <1>2, GateChanged DEF Still
<1>5. ASSUME Asleep(stack) PROVE Asleep(WithTop(t, e))
  BY <1>1, <1>2, <1>5, AsleepChanged
<1>6. ASSUME e.pc \in Still PROVE Asleep(WithTop(t, e))
  BY <1>1, <1>2, <1>6, AsleepChanged
<1> QED
  BY <1>3, <1>4, <1>5, <1>6

LEMMA ToppedNested ==
  ASSUME TypeOK, NEW t \in All, stack[t] # <<>>, NEW e \in Events,
         NEW h, NEW c \in Nat, Nested(stack, h, c),
         e.pc \in {"hook", "crashed"} => h # "user" /\ c > 0,
         \A i \in 1 .. Len(stack[t]) - 1 : stack[t][i].pc = "crashed" =>
           /\ e.hook # "user"
           /\ e.pc \in {"hook", "crashed"} => c > 1
           /\ e.pc \in {"send", "push"} => e.recursive
  PROVE  Nested(WithTop(t, e), h, c)
<1>1. stack \in Stacks
  BY TopEvent
<1>2. WithTop(t, e) = Put(stack, t, e)
  BY WithTopIsPut
<1> QED
  BY <1>1, <1>2, NestedChanged

----------------------------------------------------------------------------
(* The invariant.                                                            *)

\* The table of handlers: nothing is changed before it is set up, and what is
\* caught was saved and is among the signals to be given back.
Table ==
  early \/
    /\ ~inited => \A s \in Signals : disp[s] = "default" /\ saved[s] = "none"
    /\ \A s \in Signals :
         /\ saved[s] # "g3"
         /\ disp[s] = "g3" <=> saved[s] = "default"
         /\ disp[s] = "g3" => s \in gSignals

\* A fatal message among the tasks q.
Holds(q) == \E i \in 1 .. Len(q) : q[i] \in Message

\* The worker's thread acts on a fatal message.
Busy == {"restore", "kill", "exit"}

\* While a fatal message is queued its thread sleeps, and while a signal is
\* pending somebody has sent it, so that nobody sets up anything; the worker
\* acts on the first message of the queue.
Waiting ==
  /\ Holds(queue) => Asleep(stack)
  /\ pending # {} => Asleep(stack)
  /\ bg \in Busy => queue # <<>> /\ Head(queue) \in Message

IInv ==
  /\ TypeOK /\ Table /\ Waiting
  /\ Gate(stack, firstExit)
  /\ Nested(stack, hook, crashes)

LEMMA InitIInv == Init => IInv
<1> SUFFICES ASSUME Init PROVE IInv
  OBVIOUS
<1>1. stack = [t \in All |-> <<>>] /\ \A t \in All : Len(stack[t]) = 0
  BY DEF Init
<1>2. TypeOK
  <2>1. stack \in [All -> Seq(Events)] /\ queue \in Seq(Task)
    BY DEF Init
  <2>2. /\ disp \in [Signals -> {"default", "g3"}]
        /\ saved \in [Signals -> {"none", "default", "g3"}]
    BY DEF Init
  <2>3. sent \in 0 .. MaxSent /\ overrides \in 0 .. MaxOverrides
    BY FatalAssumption DEF Init
  <2> QED
    BY <2>1, <2>2, <2>3 DEF Init, TypeOK, Hooks
<1>3. Table
  BY DEF Init, Table
<1>4. Waiting
  BY DEF Init, Waiting, Holds, Busy
<1>5. Gate(stack, firstExit)
  BY <1>1 DEF Gate
<1>6. Nested(stack, hook, crashes)
  BY <1>1 DEF Nested
<1> QED
  BY <1>2, <1>3, <1>4, <1>5, <1>6 DEF IInv

\* The first task and the messages of a queue that grows, and of one that is
\* taken from.
LEMMA QueueGrows ==
  ASSUME NEW q \in Seq(Task), NEW m \in Task
  PROVE  /\ Append(q, m) \in Seq(Task) /\ Append(q, m) # <<>>
         /\ q # <<>> => Head(Append(q, m)) = Head(q)
         /\ Holds(Append(q, m)) => Holds(q) \/ m \in Message
<1>1. /\ Len(Append(q, m)) = Len(q) + 1
      /\ \A i \in 1 .. Len(q) : Append(q, m)[i] = q[i]
      /\ Append(q, m)[Len(q) + 1] = m
      /\ Len(q) \in Nat
  OBVIOUS
<1>2. Holds(Append(q, m)) => Holds(q) \/ m \in Message
  BY <1>1 DEF Holds
<1>3. q # <<>> => Head(Append(q, m)) = Head(q)
  OBVIOUS
<1>4. Append(q, m) \in Seq(Task)
  OBVIOUS
<1>5. Append(q, m) # <<>>
  BY <1>1
<1> QED
  BY <1>2, <1>3, <1>4, <1>5

LEMMA QueueShrinks ==
  ASSUME NEW q \in Seq(Task), q # <<>>
  PROVE  /\ Tail(q) \in Seq(Task)
         /\ Holds(Tail(q)) => Holds(q)
<1>1. /\ Len(Tail(q)) = Len(q) - 1 /\ Len(q) \in Nat \ {0}
      /\ \A i \in 1 .. Len(q) - 1 : Tail(q)[i] = q[i + 1]
  OBVIOUS
<1>2. Holds(Tail(q)) => Holds(q)
  <2> SUFFICES ASSUME NEW i \in 1 .. Len(Tail(q)), Tail(q)[i] \in Message
               PROVE  Holds(q)
    BY DEF Holds
  <2>1. i + 1 \in 1 .. Len(q) /\ q[i + 1] \in Message
    BY <1>1
  <2> QED
    BY <2>1 DEF Holds
<1> QED
  BY <1>2

LEMMA HeadHolds ==
  ASSUME NEW q \in Seq(Task), q # <<>>, Head(q) \in Message
  PROVE  Holds(q)
<1>1. Len(q) \in Nat \ {0} /\ Head(q) = q[1]
  OBVIOUS
<1> QED
  BY <1>1 DEF Holds

LEMMA TasksOfDestructor ==
  /\ Clear \in Task /\ Quit \in Task
  /\ Clear \notin Message /\ Quit \notin Message
<1>1. \A m \in Message : DOMAIN m = {"sig", "recursive"}
  BY DEF Message
<1>2. DOMAIN Clear = {"task"} /\ DOMAIN Quit = {"task"}
  BY DEF Clear, Quit
<1> QED
  BY <1>1, <1>2 DEF Task

\* A step that leaves the events alone.
LEMMA SameEvents ==
  ASSUME IInv, UNCHANGED <<stack, firstExit, hook, crashes>>,
         pending' \subseteq pending, Holds(queue') => Holds(queue),
         bg' \in Busy => queue' # <<>> /\ Head(queue') \in Message,
         TypeOK', Table'
  PROVE  IInv'
<1>1. Waiting'
  BY DEF IInv, Waiting, Asleep, Holds
<1>2. Gate(stack, firstExit)' /\ Nested(stack, hook, crashes)'
  BY DEF IInv, Gate, Nested, Past
<1> QED
  BY <1>1, <1>2 DEF IInv

\* With no event at all, no fatal message is queued and no signal is pending.
LEMMA QuietEmpty ==
  ASSUME IInv, Quiet
  PROVE  /\ ~Holds(queue) /\ pending = {} /\ bg \notin Busy
         /\ \A t \in All : Len(stack[t]) = 0
<1>1. \A t \in All : Len(stack[t]) = 0
  BY DEF Quiet
<1>2. ~Asleep(stack)
  BY <1>1 DEF Asleep
<1>3. ~Holds(queue) /\ pending = {}
  BY <1>2 DEF IInv, Waiting
<1>4. bg \notin Busy
  BY <1>3, HeadHolds DEF IInv, Waiting, TypeOK
<1> QED
  BY <1>1, <1>3, <1>4

----------------------------------------------------------------------------
(* The steps of the one who sets things up.                                  *)

LEMMA InstallTypes ==
  ASSUME NEW set \in SUBSET Signals, NEW r,
         r.d \in [Signals -> {"default", "g3"}],
         r.o \in [Signals -> {"none", "default", "g3"}], Install(set, r)
  PROVE  /\ disp' \in [Signals -> {"default", "g3"}]
         /\ saved' \in [Signals -> {"none", "default", "g3"}]
BY DEF Install

LEMMA RestoredTypes ==
  ASSUME TypeOK, NEW set
  PROVE  /\ Restored(set).d = [s \in Signals |->
              IF s \in set /\ saved[s] # "none" THEN saved[s] ELSE disp[s]]
         /\ Restored(set).o = [s \in Signals |->
              IF s \in set THEN "none" ELSE saved[s]]
         /\ Restored(set).d \in [Signals -> {"default", "g3"}]
         /\ Restored(set).o \in [Signals -> {"none", "default", "g3"}]
BY DEF Restored, TypeOK

LEMMA RestoredAt ==
  ASSUME TypeOK, NEW set, NEW s \in Signals
  PROVE  /\ Restored(set).d[s] =
              IF s \in set /\ saved[s] # "none" THEN saved[s] ELSE disp[s]
         /\ Restored(set).o[s] = IF s \in set THEN "none" ELSE saved[s]
<1>1. /\ Restored(set).d = [r \in Signals |->
            IF r \in set /\ saved[r] # "none" THEN saved[r] ELSE disp[r]]
      /\ Restored(set).o = [r \in Signals |->
            IF r \in set THEN "none" ELSE saved[r]]
  BY RestoredTypes
<1> QED
  BY <1>1

LEMMA CreateStep == ASSUME IInv, CreateLogWorker PROVE IInv'
<1>1. ~Holds(queue) /\ bg' \notin Busy
  BY QuietEmpty DEF CreateLogWorker, Busy
<1>2. TypeOK'
  BY DEF CreateLogWorker, TypeOK, sigVars, IInv
<1>3. Table'
  BY DEF CreateLogWorker, IInv, Table, sigVars
<1> QED
  BY <1>1, <1>2, <1>3, SameEvents DEF CreateLogWorker

LEMMA InitializeStep == ASSUME IInv, InitializeLogging PROVE IInv'
<1>1. TypeOK
  BY DEF IInv
<1>2. /\ ~Holds(queue) /\ pending = {} /\ bg \notin Busy
      /\ \A t \in All : Len(stack[t]) = 0
  BY QuietEmpty DEF InitializeLogging
<1>3. TypeOK'
  <2>1. /\ disp' \in [Signals -> {"default", "g3"}]
        /\ saved' \in [Signals -> {"none", "default", "g3"}]
    BY <1>1 DEF InitializeLogging, Install, TypeOK
  <2> QED
    BY <1>1, <2>1 DEF InitializeLogging, TypeOK, Hooks
<1>4. Table'
  BY <1>1 DEF InitializeLogging, Install, TypeOK, IInv, Table
<1>5. Waiting'
  BY <1>2 DEF InitializeLogging, Waiting, Holds
<1>6. Gate(stack, firstExit)'
  BY DEF InitializeLogging, IInv, Gate, Past
<1>7. Nested(stack, hook, crashes)'
  BY <1>2 DEF InitializeLogging, Nested
<1> QED
  BY <1>3, <1>4, <1>5, <1>6, <1>7 DEF IInv

LEMMA SetHookStep == ASSUME IInv, SetFatalPreLoggingHook PROVE IInv'
<1>1. TypeOK
  BY DEF IInv
<1>2. /\ ~Holds(queue) /\ pending = {} /\ bg \notin Busy
      /\ \A t \in All : Len(stack[t]) = 0
  BY QuietEmpty DEF SetFatalPreLoggingHook
<1>3. TypeOK'
  BY <1>1 DEF SetFatalPreLoggingHook, TypeOK, Hooks, sigVars
<1>4. Table'
  BY DEF SetFatalPreLoggingHook, IInv, Table, sigVars
<1>5. Waiting'
  BY <1>2 DEF SetFatalPreLoggingHook, Waiting, Holds
<1>6. Gate(stack, firstExit)'
  BY DEF SetFatalPreLoggingHook, IInv, Gate, Past
<1>7. Nested(stack, hook, crashes)'
  BY <1>2 DEF SetFatalPreLoggingHook, Nested
<1> QED
  BY <1>3, <1>4, <1>5, <1>6, <1>7 DEF IInv

LEMMA SetExitHandlerStep ==
  ASSUME IInv, NEW handler \in ExitHandlers, SetFatalExitHandler(handler)
  PROVE  IInv'
<1>1. TypeOK'
  BY FatalAssumption DEF SetFatalExitHandler, TypeOK, sigVars, IInv
<1>2. Table'
  BY DEF SetFatalExitHandler, IInv, Table, sigVars
<1> QED
  BY <1>1, <1>2, SameEvents DEF SetFatalExitHandler, IInv, Waiting

LEMMA OverrideStep ==
  ASSUME IInv, NEW set \in Overrides, OverrideSetupSignals(set)
  PROVE  IInv'
<1>1. TypeOK /\ set \in SUBSET Signals
  BY FatalAssumption DEF IInv
<1>2. TypeOK'
  <2>1. /\ disp' \in [Signals -> {"default", "g3"}]
        /\ saved' \in [Signals -> {"none", "default", "g3"}]
    BY <1>1, RestoredTypes, InstallTypes DEF OverrideSetupSignals
  <2> QED
    BY <1>1, <2>1, FatalAssumption DEF OverrideSetupSignals, TypeOK
<1>3. Table'
  <2>1. CASE early'
    BY <2>1 DEF Table
  <2>2. CASE ~early'
    <3>1. ~early /\ inited /\ inited'
      BY <1>1, <2>2 DEF OverrideSetupSignals, TypeOK
    <3>2. \A s \in Signals :
            /\ Restored(gSignals).d[s] = "default"
            /\ Restored(gSignals).o[s] = "none"
      <4>1. \A s \in Signals :
              /\ disp[s] \in {"default", "g3"}
              /\ saved[s] \in {"none", "default"}
              /\ disp[s] = "g3" <=> saved[s] = "default"
              /\ disp[s] = "g3" => s \in gSignals
        BY <1>1, <3>1 DEF IInv, Table, TypeOK
      <4> QED
        BY <1>1, <4>1, RestoredAt
    <3>3. \A s \in Signals :
            /\ disp'[s] = IF s \in set THEN "g3" ELSE "default"
            /\ saved'[s] = IF s \in set THEN "default" ELSE "none"
      BY <3>2 DEF OverrideSetupSignals, Install
    <3> QED
      BY <3>1, <3>3 DEF Table, OverrideSetupSignals
  <2> QED
    BY <2>1, <2>2
<1> QED
  BY <1>2, <1>3, SameEvents DEF OverrideSetupSignals, IInv, Waiting

----------------------------------------------------------------------------
(* The end of logging, and the tasks of the destructor.                      *)

LEMMA ShutDownStep == ASSUME IInv, ShutDownLogging PROVE IInv'
<1>1. TypeOK'
  BY DEF ShutDownLogging, TypeOK, sigVars, IInv
<1>2. Table'
  BY DEF ShutDownLogging, IInv, Table, sigVars
<1> QED
  BY <1>1, <1>2, SameEvents DEF ShutDownLogging, IInv, Waiting

LEMMA DestroyStepStep ==
  ASSUME IInv, NEW t \in Owners, DestroyLogWorker(t) \/ DestroyStep(t)
  PROVE  IInv'
<1>1. queue \in Seq(Task)
  BY DEF IInv, TypeOK
<1>2. CASE DestroyLogWorker(t)
  <2>1. TypeOK' /\ Table'
    BY <1>2 DEF DestroyLogWorker, TypeOK, Table, sigVars, IInv
  <2> QED
    BY <1>2, <2>1, SameEvents DEF DestroyLogWorker, IInv, Waiting
<1>3. CASE SpawnClear(t)
  <2>1. /\ queue' \in Seq(Task) /\ (Holds(queue') => Holds(queue))
        /\ queue # <<>> => queue' # <<>> /\ Head(queue') = Head(queue)
    BY <1>1, <1>3, QueueGrows, TasksOfDestructor DEF SpawnClear
  <2>2. TypeOK'
    BY <1>3, <2>1 DEF SpawnClear, TypeOK, sigVars, IInv
  <2>3. Table'
    BY <1>3 DEF SpawnClear, Table, sigVars, IInv
  <2>4. bg' \in Busy => queue' # <<>> /\ Head(queue') \in Message
    BY <1>3, <2>1 DEF SpawnClear, IInv, Waiting
  <2> QED
    BY <1>3, <2>1, <2>2, <2>3, <2>4, SameEvents DEF SpawnClear
<1>4. CASE OwnerReset(t)
  <2>1. /\ queue' \in Seq(Task) /\ (Holds(queue') => Holds(queue))
        /\ queue # <<>> => queue' # <<>> /\ Head(queue') = Head(queue)
    BY <1>1, <1>4, QueueGrows, TasksOfDestructor DEF OwnerReset
  <2>2. TypeOK'
    BY <1>4, <2>1 DEF OwnerReset, TypeOK, sigVars, IInv
  <2>3. Table'
    BY <1>4 DEF OwnerReset, Table, sigVars, IInv
  <2>4. bg' \in Busy => queue' # <<>> /\ Head(queue') \in Message
    BY <1>4, <2>1 DEF OwnerReset, IInv, Waiting
  <2> QED
    BY <1>4, <2>1, <2>2, <2>3, <2>4, SameEvents DEF OwnerReset
<1>5. CASE OwnerJoin(t)
  <2>1. queue' \in Seq(Task) /\ ~Holds(queue') /\ bg' \notin Busy
    BY <1>5 DEF OwnerJoin, Holds, Busy
  <2>2. TypeOK' /\ Table'
    BY <1>5, <2>1 DEF OwnerJoin, TypeOK, Table, sigVars, IInv
  <2> QED
    BY <1>5, <2>1, <2>2, SameEvents DEF OwnerJoin
<1> QED
  BY <1>2, <1>3, <1>4, <1>5 DEF DestroyStep

LEMMA BgClearStep == ASSUME IInv, BgClear \/ BgQuit PROVE IInv'
<1>1. queue \in Seq(Task) /\ queue # <<>> /\ bg' \notin Busy
  BY DEF IInv, TypeOK, BgClear, BgQuit, BgTurn, Busy
<1>2. queue' \in Seq(Task) /\ (Holds(queue') => Holds(queue))
  BY <1>1, QueueShrinks DEF BgClear, BgQuit
<1>3. TypeOK'
  BY <1>2 DEF BgClear, BgQuit, BgTurn, TypeOK, sigVars, IInv
<1>4. Table'
  BY DEF BgClear, BgQuit, Table, sigVars, IInv
<1> QED
  BY <1>1, <1>2, <1>3, <1>4, SameEvents DEF BgClear, BgQuit

----------------------------------------------------------------------------
(* The steps that begin an event.                                            *)

\* What a step on the events has to show.
LEMMA EventsMoved ==
  ASSUME IInv, UNCHANGED <<inited, early, worker, exitHandler, overrides>>,
         stack' \in Stacks, firstExit' \in BOOLEAN, hook' \in Hooks,
         crashes' \in Nat, logger' \in BOOLEAN, queue' \in Seq(Task),
         sent' \in 0 .. MaxSent,
         proc' \in {"running", "killed", "exited", "undefined"},
         bg' \in {"none", "idle", "restore", "kill", "exit", "gone"},
         pending' \subseteq Signals,
         UNCHANGED sigVars \/ \E s \in Signals : Restore(s),
         Waiting', Gate(stack, firstExit)', Nested(stack, hook, crashes)'
  PROVE  IInv'
<1>1. TypeOK
  BY DEF IInv
<1>2. /\ disp' \in [Signals -> {"default", "g3"}]
      /\ saved' \in [Signals -> {"none", "default", "g3"}]
      /\ gSignals' = gSignals
      /\ Table'
  <2>1. CASE UNCHANGED sigVars
    BY <1>1, <2>1 DEF sigVars, TypeOK, IInv, Table
  <2>2. ASSUME NEW s \in Signals, Restore(s)
        PROVE  /\ disp' \in [Signals -> {"default", "g3"}]
               /\ saved' \in [Signals -> {"none", "default", "g3"}]
               /\ gSignals' = gSignals
               /\ Table'
    <3>1. /\ disp' = Restored({s}).d /\ saved' = Restored({s}).o
          /\ gSignals' = gSignals
      BY <2>2 DEF Restore
    <3>2. \A r \in Signals :
            /\ disp'[r] = IF r = s /\ saved[r] # "none" THEN saved[r] ELSE disp[r]
            /\ saved'[r] = IF r = s THEN "none" ELSE saved[r]
      BY <1>1, <3>1, RestoredAt
    <3>3. Table'
      <4>1. CASE early
        BY <4>1 DEF Table
      <4>2. CASE ~early
        <5>1. \A r \in Signals :
                /\ disp[r] \in {"default", "g3"}
                /\ saved[r] \in {"none", "default"}
                /\ disp[r] = "g3" <=> saved[r] = "default"
                /\ disp[r] = "g3" => r \in gSignals
                /\ ~inited => disp[r] = "default" /\ saved[r] = "none"
          BY <1>1, <4>2 DEF IInv, Table, TypeOK
        <5> QED
          BY <3>1, <3>2, <5>1 DEF Table
      <4> QED
        BY <4>1, <4>2
    <3> QED
      BY <1>1, <3>1, <3>3, RestoredTypes
  <2> QED
    BY <2>1, <2>2
<1>3. TypeOK'
  BY <1>1, <1>2 DEF TypeOK, Stacks
<1> QED
  BY <1>2, <1>3 DEF IInv

\* A step that only moves events on, or ends the process.
LEMMA EventsOnly ==
  ASSUME IInv,
         UNCHANGED <<inited, early, worker, logger, sigVars, hook, crashes,
                     exitHandler, queue, bg, overrides>>,
         sent' \in 0 .. MaxSent,
         proc' \in {"running", "killed", "exited", "undefined"},
         stack' \in Stacks, firstExit' \in BOOLEAN, pending' \subseteq pending,
         Gate(stack', firstExit'), Nested(stack', hook, crashes),
         Asleep(stack) => Asleep(stack')
  PROVE  IInv'
<1>1. TypeOK
  BY DEF IInv
<1>2. Waiting'
  <2>1. Asleep(stack)' <=> Asleep(stack')
    BY DEF Asleep
  <2> QED
    BY <2>1 DEF IInv, Waiting
<1>3. Gate(stack, firstExit)'
  BY DEF Gate, Past
<1>4. Nested(stack, hook, crashes)'
  BY DEF Nested
<1> QED
  BY <1>1, <1>2, <1>3, <1>4, EventsMoved DEF TypeOK

\* A signal that is delivered, or ends the process.
LEMMA DeliverStep ==
  ASSUME IInv, NEW t \in All, NEW s \in Signals, Deliver(t, s),
         UNCHANGED <<inited, early, worker, logger, sigVars, hook, crashes,
                     exitHandler, queue, bg, overrides>>,
         pending' \subseteq pending, sent' \in 0 .. MaxSent
  PROVE  IInv'
<1>1. /\ stack \in Stacks /\ firstExit \in BOOLEAN /\ crashes \in Nat
      /\ proc \in {"running", "killed", "exited", "undefined"}
      /\ Gate(stack, firstExit) /\ Nested(stack, hook, crashes)
  BY DEF IInv, TypeOK, Stacks
<1>2. CASE disp[s] = "default"
  BY <1>1, <1>2, EventsOnly DEF Deliver
<1>3. CASE disp[s] # "default"
  <2>1. Handle(t, s, stack) /\ proc' = proc
    BY <1>3 DEF Deliver
  <2>2. /\ stack' \in Stacks /\ firstExit' = TRUE
        /\ Gate(stack', firstExit')
        /\ Nested(stack', hook, crashes)
        /\ Asleep(stack) => Asleep(stack')
    BY <1>1, <2>1, Handled
  <2> QED
    BY <1>1, <2>1, <2>2, EventsOnly
<1> QED
  BY <1>2, <1>3

LEMMA LogFatalStep == ASSUME IInv, NEW t \in All, LogFatal(t) PROVE IInv'
<1> DEFINE e == Event(Abort, FALSE, "save")
<1>1. e \in Events /\ e.handler = FALSE /\ e.hook # "user" /\ e.pc = "save"
  BY EventIsEvent, FatalAssumption
<1>2. /\ stack \in Stacks /\ firstExit \in BOOLEAN /\ crashes \in Nat
      /\ Gate(stack, firstExit) /\ Nested(stack, hook, crashes)
      /\ proc \in {"running", "killed", "exited", "undefined"}
      /\ sent \in 0 .. MaxSent
  BY DEF IInv, TypeOK, Stacks
<1>3. stack' = Push(stack, t, e)
  BY DEF LogFatal, Push
<1>4. UNCHANGED <<inited, early, worker, logger, sigVars, firstExit, hook,
                  crashes, exitHandler, queue, bg, pending, proc, sent,
                  overrides>>
  BY DEF LogFatal
<1> HIDE DEF e
<1>5. stack' \in Stacks
  BY <1>1, <1>2, <1>3, Pushed
<1>6. Gate(stack', firstExit)
  <2>1. firstExit = (firstExit \/ e.handler)
    BY <1>1, <1>2
  <2> QED
    BY <1>1, <1>2, <1>3, <2>1, GatePushed
<1>7. Nested(stack', hook, crashes)
  BY <1>1, <1>2, <1>3, NestedPushed
<1>8. ASSUME Asleep(stack) PROVE Asleep(stack')
  BY <1>1, <1>2, <1>3, <1>8, AsleepPushed
<1>9. firstExit' = firstExit /\ firstExit' \in BOOLEAN /\ Gate(stack', firstExit')
  BY <1>2, <1>4, <1>6
<1> QED
  BY <1>2, <1>4, <1>5, <1>7, <1>8, <1>9, EventsOnly

LEMMA FaultStep ==
  ASSUME IInv, NEW t \in All, NEW s \in Signals, Fault(t, s) PROVE IInv'
<1>1. sent \in 0 .. MaxSent
  BY DEF IInv, TypeOK
<1> QED
  BY <1>1, DeliverStep DEF Fault

LEMMA ArriveStep ==
  ASSUME IInv, NEW t \in All, NEW s \in Signals, Arrive(t, s) PROVE IInv'
<1>1. sent \in 0 .. MaxSent
  BY DEF IInv, TypeOK
<1> QED
  BY <1>1, DeliverStep DEF Arrive

LEMMA SentStep ==
  ASSUME IInv, NEW t \in All, NEW s \in Signals, Sent(t, s) PROVE IInv'
<1>1. sent' \in 0 .. MaxSent
  BY FatalAssumption DEF IInv, TypeOK, Sent
<1> QED
  BY <1>1, DeliverStep DEF Sent

----------------------------------------------------------------------------
(* saveMessage.                                                              *)

LEMMA CopyHookStep == ASSUME IInv, NEW t \in All, CopyHook(t) PROVE IInv'
<1> DEFINE e == [Top(t) EXCEPT !.pc = "reset", !.hook = hook]
<1>1. /\ TypeOK /\ Gate(stack, firstExit) /\ Nested(stack, hook, crashes)
      /\ firstExit \in BOOLEAN /\ crashes \in Nat /\ hook \in Hooks
      /\ proc \in {"running", "killed", "exited", "undefined"}
      /\ sent \in 0 .. MaxSent
  BY DEF IInv, TypeOK
<1>2. stack[t] # <<>> /\ Top(t).pc = "save" /\ stack' = WithTop(t, e)
  BY DEF CopyHook, At
<1>3. Top(t) \in Events
  BY <1>1, <1>2, TopEvent
<1>4. e \in Events /\ e.handler = Top(t).handler /\ e.pc = "reset" /\ e.hook = hook
  BY <1>1, <1>3 DEF Events
<1> HIDE DEF e
<1>5. /\ stack' \in Stacks /\ Gate(stack', firstExit)
      /\ Asleep(stack) => Asleep(stack')
  BY <1>1, <1>2, <1>4, Topped DEF Still
<1>6. Nested(stack', hook, crashes)
  <2>1. \A i \in 1 .. Len(stack[t]) - 1 : stack[t][i].pc = "crashed" =>
          hook # "user"
    BY <1>1, <1>2, TopNested
  <2> QED
    BY <1>1, <1>2, <1>4, <2>1, ToppedNested
<1> QED
  BY <1>1, <1>5, <1>6, EventsOnly DEF CopyHook

LEMMA ResetHookStep == ASSUME IInv, NEW t \in All, ResetHook(t) PROVE IInv'
<1> DEFINE e == [Top(t) EXCEPT !.pc = "hook"]
<1>1. /\ TypeOK /\ Gate(stack, firstExit) /\ Nested(stack, hook, crashes)
      /\ stack \in Stacks
  BY DEF IInv, TypeOK, Stacks
<1>2. /\ stack[t] # <<>> /\ Top(t).pc = "reset" /\ stack' = WithTop(t, e)
      /\ hook' = "nothing" /\ crashes' = crashes + 1 /\ crashes \in Nat
  BY <1>1 DEF ResetHook, At, Goto, TypeOK
<1>3. Top(t) \in Events
  BY <1>1, <1>2, TopEvent
<1>4. e \in Events /\ e.handler = Top(t).handler /\ e.pc = "hook" /\ e.hook = Top(t).hook
  BY <1>3 DEF Events
<1> HIDE DEF e
<1>5. /\ stack' \in Stacks /\ Gate(stack', firstExit)
      /\ Asleep(stack) => Asleep(stack')
  BY <1>1, <1>2, <1>4, Topped DEF Still
<1>6. Nested(stack', hook', crashes')
  <2>1. \A i \in 1 .. Len(stack[t]) - 1 : stack[t][i].pc = "crashed" =>
          Top(t).hook # "user" /\ crashes > 0
    BY <1>1, <1>2, TopNested
  <2>2. crashes' \in Nat /\ crashes' >= crashes /\ crashes' > 0 /\ hook' # "user"
    BY <1>2
  <2>3. Nested(stack, hook', crashes')
    BY <1>1, <1>2, <2>2, NestedLater
  <2>4. \A i \in 1 .. Len(stack[t]) - 1 : stack[t][i].pc = "crashed" =>
          e.hook # "user" /\ crashes' > 1
    BY <1>2, <1>4, <2>1
  <2> QED
    BY <1>1, <1>2, <1>4, <2>2, <2>3, <2>4, ToppedNested
<1>7. Gate(stack, firstExit)' /\ Nested(stack, hook, crashes)'
  BY <1>5, <1>6 DEF ResetHook, Gate, Nested, Past
<1>8. Waiting'
  <2>1. Asleep(stack)' <=> Asleep(stack')
    BY DEF Asleep
  <2> QED
    BY <1>5, <2>1 DEF IInv, Waiting, ResetHook
<1> QED
  BY <1>1, <1>2, <1>5, <1>7, <1>8, EventsMoved DEF ResetHook, TypeOK, Hooks

LEMMA HookReturnsStep == ASSUME IInv, NEW t \in All, HookReturns(t) PROVE IInv'
<1> DEFINE e == [Top(t) EXCEPT !.pc = "send", !.recursive = crashes > 1]
<1>1. /\ TypeOK /\ Gate(stack, firstExit) /\ Nested(stack, hook, crashes)
      /\ firstExit \in BOOLEAN /\ crashes \in Nat
      /\ proc \in {"running", "killed", "exited", "undefined"}
      /\ sent \in 0 .. MaxSent
  BY DEF IInv, TypeOK
<1>2. stack[t] # <<>> /\ Top(t).pc = "hook" /\ stack' = WithTop(t, e)
  BY DEF HookReturns, At
<1>3. Top(t) \in Events
  BY <1>1, <1>2, TopEvent
<1>4. /\ e \in Events /\ e.handler = Top(t).handler /\ e.pc = "send"
      /\ e.hook = Top(t).hook /\ e.recursive = (crashes > 1)
  <2> DEFINE r == crashes > 1
  <2>1. r \in BOOLEAN
    OBVIOUS
  <2> HIDE DEF r
  <2>2. LET f == [Top(t) EXCEPT !.pc = "send", !.recursive = r]
        IN /\ f \in Events /\ f.handler = Top(t).handler /\ f.pc = "send"
           /\ f.hook = Top(t).hook /\ f.recursive = r
    BY <1>3, <2>1 DEF Events
  <2> QED
    BY <2>2 DEF r
<1> HIDE DEF e
<1>5. /\ stack' \in Stacks /\ Gate(stack', firstExit)
      /\ Asleep(stack) => Asleep(stack')
  BY <1>1, <1>2, <1>4, Topped DEF Still
<1>6. Nested(stack', hook, crashes)
  <2>1. \A i \in 1 .. Len(stack[t]) - 1 : stack[t][i].pc = "crashed" =>
          e.hook # "user" /\ e.recursive
    BY <1>1, <1>2, <1>4, TopNested
  <2> QED
    BY <1>1, <1>2, <1>4, <2>1, ToppedNested
<1> QED
  BY <1>1, <1>5, <1>6, EventsOnly DEF HookReturns

\* The hook's thread meets another event: the stacks with "crashed" on top.
LEMMA Crashed ==
  ASSUME IInv, NEW t \in All, At(t, "hook"),
         NEW mid, mid = WithTop(t, [Top(t) EXCEPT !.pc = "crashed"])
  PROVE  /\ mid \in Stacks /\ Gate(mid, firstExit) /\ Nested(mid, hook, crashes)
         /\ Asleep(stack) => Asleep(mid)
<1> DEFINE e == [Top(t) EXCEPT !.pc = "crashed"]
<1>1. /\ TypeOK /\ Gate(stack, firstExit) /\ Nested(stack, hook, crashes)
      /\ crashes \in Nat
  BY DEF IInv, TypeOK
<1>2. stack[t] # <<>> /\ Top(t).pc = "hook" /\ mid = WithTop(t, e)
  BY DEF At
<1>3. Top(t) \in Events
  BY <1>1, <1>2, TopEvent
<1>4. /\ e \in Events /\ e.handler = Top(t).handler /\ e.pc = "crashed"
      /\ e.hook = Top(t).hook
  BY <1>3 DEF Events
<1> HIDE DEF e
<1>5. /\ mid \in Stacks /\ Gate(mid, firstExit)
      /\ Asleep(stack) => Asleep(mid)
  BY <1>1, <1>2, <1>4, Topped DEF Still
<1>6. Nested(mid, hook, crashes)
  <2>1. /\ hook # "user" /\ crashes > 0
        /\ \A i \in 1 .. Len(stack[t]) - 1 : stack[t][i].pc = "crashed" =>
             e.hook # "user" /\ crashes > 1
    BY <1>1, <1>2, <1>4, TopNested
  <2> QED
    BY <1>1, <1>2, <1>4, <2>1, ToppedNested
<1> QED
  BY <1>5, <1>6

\* It is a signal: the kernel ends the process, or the handler starts.
LEMMA CrashStep ==
  ASSUME IInv, NEW t \in All, NEW s \in Signals, At(t, "hook"),
         \/ proc' = "killed" /\ UNCHANGED <<firstExit, stack>>
         \/ /\ Handle(t, s, WithTop(t, [Top(t) EXCEPT !.pc = "crashed"]))
            /\ UNCHANGED proc,
         UNCHANGED <<inited, early, worker, logger, sigVars, hook, crashes,
                     exitHandler, queue, bg, pending, sent, overrides>>
  PROVE  IInv'
<1> DEFINE mid == WithTop(t, [Top(t) EXCEPT !.pc = "crashed"])
<1>1. /\ stack \in Stacks /\ firstExit \in BOOLEAN /\ crashes \in Nat
      /\ proc \in {"running", "killed", "exited", "undefined"}
      /\ sent \in 0 .. MaxSent
      /\ Gate(stack, firstExit) /\ Nested(stack, hook, crashes)
  BY DEF IInv, TypeOK, Stacks
<1>2. CASE proc' = "killed" /\ UNCHANGED <<firstExit, stack>>
  BY <1>1, <1>2, EventsOnly
<1>3. CASE Handle(t, s, mid) /\ proc' = proc
  <2>1. /\ mid \in Stacks /\ Gate(mid, firstExit) /\ Nested(mid, hook, crashes)
        /\ Asleep(stack) => Asleep(mid)
    BY Crashed
  <2> HIDE DEF mid
  <2>2. /\ stack' \in Stacks /\ firstExit' = TRUE
        /\ Gate(stack', firstExit')
        /\ Nested(stack', hook, crashes)
        /\ Asleep(mid) => Asleep(stack')
    BY <1>1, <1>3, <2>1, Handled
  <2> QED
    BY <1>1, <1>3, <2>1, <2>2, EventsOnly
<1> QED
  BY <1>2, <1>3

LEMMA HookThrowsStep == ASSUME IInv, NEW t \in All, HookThrows(t) PROVE IInv'
BY CrashStep, FatalAssumption DEF HookThrows

LEMMA HookCrashesStep ==
  ASSUME IInv, NEW t \in All, NEW s \in HookSignals, HookCrashes(t, s) PROVE IInv'
BY CrashStep, FatalAssumption DEF HookCrashes

LEMMA HookLogsFatalStep ==
  ASSUME IInv, NEW t \in All, HookLogsFatal(t) PROVE IInv'
<1> DEFINE mid == WithTop(t, [Top(t) EXCEPT !.pc = "crashed"])
<1> DEFINE e == Event(Abort, FALSE, "save")
<1>1. e \in Events /\ e.handler = FALSE /\ e.hook # "user" /\ e.pc = "save"
  BY EventIsEvent, FatalAssumption
<1>2. /\ stack \in Stacks /\ firstExit \in BOOLEAN /\ crashes \in Nat
      /\ proc \in {"running", "killed", "exited", "undefined"}
      /\ sent \in 0 .. MaxSent
  BY DEF IInv, TypeOK, Stacks
<1>3. /\ mid \in Stacks /\ Gate(mid, firstExit) /\ Nested(mid, hook, crashes)
      /\ Asleep(stack) => Asleep(mid)
  BY Crashed DEF HookLogsFatal
<1>4. stack' = Push(mid, t, e)
  <2>1. stack' = [stack EXCEPT ![t] = Append(mid[t], e)]
    BY DEF HookLogsFatal
  <2>2. mid = [stack EXCEPT ![t] = mid[t]]
    BY <1>2, WithTopIsPut DEF Put, Stacks
  <2> HIDE DEF mid, e
  <2> QED
    BY <1>2, <2>1, <2>2 DEF Push, Stacks
<1>5. UNCHANGED <<inited, early, worker, logger, sigVars, firstExit, hook,
                  crashes, exitHandler, queue, bg, pending, proc, sent,
                  overrides>>
  BY DEF HookLogsFatal
<1> HIDE DEF e, mid
<1>6. stack' \in Stacks
  BY <1>1, <1>3, <1>4, Pushed
<1>7. firstExit' \in BOOLEAN /\ Gate(stack', firstExit')
  <2>1. firstExit = (firstExit \/ e.handler)
    BY <1>1, <1>2
  <2>2. Gate(stack', firstExit)
    BY <1>1, <1>2, <1>3, <1>4, <2>1, GatePushed
  <2> QED
    BY <1>2, <1>5, <2>2
<1>8. Nested(stack', hook, crashes)
  BY <1>1, <1>2, <1>3, <1>4, NestedPushed
<1>9. ASSUME Asleep(stack) PROVE Asleep(stack')
  BY <1>1, <1>3, <1>4, <1>9, AsleepPushed
<1> QED
  BY <1>2, <1>5, <1>6, <1>7, <1>8, <1>9, EventsOnly

----------------------------------------------------------------------------
(* fatalCall: the application's own handler, or the hand-over.               *)

\* An event is over: it is taken away, and a hook it interrupted goes on.
LEMMA ReturnStep ==
  ASSUME IInv, NEW t \in All, At(t, "send"),
         NEW mid, mid = Pop(stack, t),
         \/ stack' = mid
         \/ /\ mid[t] # <<>> /\ mid[t][Len(mid[t])].pc = "crashed"
            /\ stack' = Put(mid, t, [mid[t][Len(mid[t])] EXCEPT !.pc = "hook"]),
         UNCHANGED <<inited, early, worker, logger, sigVars, firstExit, hook,
                     crashes, exitHandler, queue, bg, pending, proc, sent,
                     overrides>>
  PROVE  IInv'
<1>1. /\ stack \in Stacks /\ firstExit \in BOOLEAN /\ crashes \in Nat
      /\ proc \in {"running", "killed", "exited", "undefined"}
      /\ sent \in 0 .. MaxSent
      /\ Gate(stack, firstExit) /\ Nested(stack, hook, crashes) /\ TypeOK
  BY DEF IInv, TypeOK, Stacks
<1>2. /\ stack[t] # <<>> /\ Top(t) = stack[t][Len(stack[t])]
      /\ stack[t][Len(stack[t])].pc = "send"
  BY <1>1, TopEvent DEF At
<1>3. mid \in Stacks
  BY <1>1, <1>2, Popped
<1>4. Gate(mid, firstExit)
  BY <1>1, <1>2, GatePopped
<1>5. Nested(mid, hook, crashes)
  BY <1>1, <1>2, NestedPopped
<1>6. ASSUME Asleep(stack) PROVE Asleep(mid)
  BY <1>1, <1>2, <1>6, AsleepPopped DEF Still
<1>7. firstExit' = firstExit
  OBVIOUS
<1>8. CASE stack' = mid
  BY <1>1, <1>3, <1>4, <1>5, <1>6, <1>7, <1>8, EventsOnly
<1>9. CASE /\ mid[t] # <<>> /\ mid[t][Len(mid[t])].pc = "crashed"
           /\ stack' = Put(mid, t, [mid[t][Len(mid[t])] EXCEPT !.pc = "hook"])
  <2> DEFINE old == mid[t][Len(mid[t])]
  <2> DEFINE e == [old EXCEPT !.pc = "hook"]
  <2>1. mid[t] \in Seq(Events) /\ Len(mid[t]) \in Nat \ {0} /\ old \in Events
    BY <1>3, <1>9 DEF Stacks
  <2>2. /\ e \in Events /\ e.handler = old.handler /\ e.pc = "hook"
        /\ e.hook = old.hook
    BY <2>1 DEF Events
  <2>3. old.pc = "crashed" /\ old.pc # "sleep" /\ stack' = Put(mid, t, e)
    BY <1>9
  <2>4. /\ hook # "user" /\ crashes > 0
        /\ \A i \in 1 .. Len(mid[t]) - 1 : mid[t][i].pc = "crashed" =>
             e.hook # "user" /\ crashes > 1
    BY <1>5, <2>1, <2>2, <2>3 DEF Nested
  <2> HIDE DEF e
  <2>5. stack' \in Stacks
    BY <1>3, <1>9, <2>2, <2>3, Changed
  <2>6. Gate(stack', firstExit)
    BY <1>3, <1>4, <1>9, <2>2, <2>3, GateChanged
  <2>7. Nested(stack', hook, crashes)
    BY <1>1, <1>3, <1>5, <1>9, <2>2, <2>3, <2>4, NestedChanged
  <2>8. ASSUME Asleep(stack) PROVE Asleep(stack')
    BY <1>3, <1>6, <1>9, <2>2, <2>3, <2>8, AsleepChanged DEF Still
  <2> QED
    BY <1>1, <1>7, <2>5, <2>6, <2>7, <2>8, EventsOnly
<1> QED
  BY <1>8, <1>9

LEMMA FatalReturnsStep == ASSUME IInv, NEW t \in All, FatalReturns(t) PROVE IInv'
<1> DEFINE rest == Front(stack[t])
<1> DEFINE mid == Pop(stack, t)
<1>1. /\ stack \in Stacks /\ firstExit \in BOOLEAN /\ crashes \in Nat
      /\ proc \in {"running", "killed", "exited", "undefined"}
      /\ sent \in 0 .. MaxSent
      /\ Gate(stack, firstExit) /\ Nested(stack, hook, crashes)
  BY DEF IInv, TypeOK, Stacks
<1>2. /\ At(t, "send")
      /\ UNCHANGED <<inited, early, worker, logger, sigVars, firstExit, hook,
                     crashes, exitHandler, queue, bg, pending, sent, overrides>>
  BY DEF FatalReturns
<1>3. CASE proc' = "killed" /\ UNCHANGED stack
  BY <1>1, <1>2, <1>3, EventsOnly
<1>4. CASE proc' = proc /\ stack' = mid
  BY <1>2, <1>4, ReturnStep
<1>5. CASE /\ proc' = proc /\ rest # <<>> /\ Last(rest).pc = "crashed"
           /\ stack' = [stack EXCEPT ![t] = [rest EXCEPT ![Len(rest)].pc = "hook"]]
  <2>1. mid[t] = rest
    BY <1>1 DEF Stacks, Pop
  <2>2. stack' = Put(mid, t, [rest[Len(rest)] EXCEPT !.pc = "hook"])
    BY <1>1, <1>5, <2>1 DEF Stacks, Pop, Put
  <2>3. rest[Len(rest)].pc = "crashed"
    BY <1>5 DEF Last
  <2> HIDE DEF rest, mid
  <2>4. /\ mid[t] # <<>> /\ mid[t][Len(mid[t])].pc = "crashed"
        /\ stack' = Put(mid, t, [mid[t][Len(mid[t])] EXCEPT !.pc = "hook"])
    BY <1>5, <2>1, <2>2, <2>3
  <2>5. mid = Pop(stack, t)
    BY DEF mid
  <2> QED
    BY <1>2, <1>5, <2>4, <2>5, ReturnStep
<1> QED
  BY <1>3, <1>4, <1>5 DEF FatalReturns, Pop

LEMMA FatalCheckStep == ASSUME IInv, NEW t \in All, FatalCheck(t) PROVE IInv'
<1> DEFINE pc == IF logger THEN "push" ELSE "restore"
<1> DEFINE e == [Top(t) EXCEPT !.pc = pc]
<1>1. /\ TypeOK /\ Gate(stack, firstExit) /\ Nested(stack, hook, crashes)
      /\ firstExit \in BOOLEAN /\ crashes \in Nat
      /\ proc \in {"running", "killed", "exited", "undefined"}
      /\ sent \in 0 .. MaxSent
  BY DEF IInv, TypeOK
<1>2. stack[t] # <<>> /\ Top(t).pc = "send" /\ stack' = WithTop(t, e)
  BY DEF FatalCheck, At, Goto
<1>3. Top(t) \in Events /\ pc \in {"push", "restore"}
  BY <1>1, <1>2, TopEvent
<1> HIDE DEF pc
<1>4. /\ e \in Events /\ e.handler = Top(t).handler /\ e.pc \in {"push", "restore"}
      /\ e.hook = Top(t).hook /\ e.recursive = Top(t).recursive
  BY <1>3 DEF Events
<1> HIDE DEF e
<1>5. /\ stack' \in Stacks /\ Gate(stack', firstExit)
      /\ Asleep(stack) => Asleep(stack')
  BY <1>1, <1>2, <1>4, Topped DEF Still
<1>6. Nested(stack', hook, crashes)
  <2>1. \A i \in 1 .. Len(stack[t]) - 1 : stack[t][i].pc = "crashed" =>
          e.hook # "user" /\ e.recursive
    BY <1>1, <1>2, <1>4, TopNested
  <2> QED
    BY <1>1, <1>2, <1>4, <2>1, ToppedNested
<1> QED
  BY <1>1, <1>5, <1>6, EventsOnly DEF FatalCheck

LEMMA FatalSaveStep == ASSUME IInv, NEW t \in All, FatalSave(t) PROVE IInv'
<1> DEFINE e == [Top(t) EXCEPT !.pc = "sleep"]
<1> DEFINE m == [sig |-> Top(t).sig, recursive |-> Top(t).recursive]
<1>1. /\ TypeOK /\ Gate(stack, firstExit) /\ Nested(stack, hook, crashes)
      /\ crashes \in Nat /\ firstExit \in BOOLEAN /\ stack \in Stacks
      /\ queue \in Seq(Task) /\ sent \in 0 .. MaxSent
  BY DEF IInv, TypeOK, Stacks
<1>2. stack[t] # <<>> /\ Top(t).pc = "push"
  BY DEF FatalSave, At
<1>3. Top(t) \in Events
  BY <1>1, <1>2, TopEvent
<1>4. CASE proc' = "undefined" /\ UNCHANGED <<stack, queue>>
  BY <1>1, <1>4, EventsOnly DEF FatalSave
<1>5. CASE stack' = WithTop(t, e) /\ queue' = Append(queue, m) /\ proc' = proc
  <2>1. /\ e \in Events /\ e.handler = Top(t).handler /\ e.pc = "sleep"
        /\ e.hook = Top(t).hook
    BY <1>3 DEF Events
  <2>2. m \in Task
    BY <1>3 DEF Events, Message, Task
  <2> HIDE DEF m, e
  <2>3. /\ queue' \in Seq(Task) /\ queue' # <<>>
        /\ queue # <<>> => Head(queue') = Head(queue)
    BY <1>1, <1>5, <2>2, QueueGrows
  <2>4. /\ stack' \in Stacks /\ Gate(stack', firstExit) /\ Asleep(stack')
    BY <1>1, <1>2, <1>5, <2>1, Topped DEF Still
  <2>5. Nested(stack', hook, crashes)
    <3>1. \A i \in 1 .. Len(stack[t]) - 1 : stack[t][i].pc = "crashed" =>
            e.hook # "user"
      BY <1>1, <1>2, <2>1, TopNested
    <3> QED
      BY <1>1, <1>2, <1>5, <2>1, <3>1, ToppedNested
  <2>6. Gate(stack, firstExit)' /\ Nested(stack, hook, crashes)'
    BY <2>4, <2>5 DEF FatalSave, Gate, Nested, Past
  <2>7. Waiting'
    <3>1. Asleep(stack)'
      BY <2>4 DEF Asleep
    <3> QED
      BY <2>3, <3>1 DEF IInv, Waiting, FatalSave
  <2> QED
    BY <1>1, <1>5, <2>3, <2>4, <2>6, <2>7, EventsMoved DEF FatalSave, TypeOK
<1> QED
  BY <1>4, <1>5 DEF FatalSave, Goto

----------------------------------------------------------------------------
(* The end: exitWithDefaultSignalHandler and bgFatal.                        *)

LEMMA RestoreOwnStep == ASSUME IInv, NEW t \in All, RestoreOwn(t) PROVE IInv'
<1> DEFINE e == [Top(t) EXCEPT !.pc = "kill"]
<1>1. /\ TypeOK /\ Gate(stack, firstExit) /\ Nested(stack, hook, crashes)
      /\ crashes \in Nat
  BY DEF IInv, TypeOK
<1>2. stack[t] # <<>> /\ Top(t).pc = "restore" /\ stack' = WithTop(t, e)
  BY DEF RestoreOwn, At, Goto
<1>3. Top(t) \in Events
  BY <1>1, <1>2, TopEvent
<1>4. /\ e \in Events /\ e.handler = Top(t).handler /\ e.pc = "kill"
      /\ e.hook = Top(t).hook
  BY <1>3 DEF Events
<1>5. Top(t).sig \in Signals
  BY <1>3 DEF Events
<1> HIDE DEF e
<1>6. /\ stack' \in Stacks /\ Gate(stack', firstExit)
      /\ Asleep(stack) => Asleep(stack')
  BY <1>1, <1>2, <1>4, Topped DEF Still
<1>7. Nested(stack', hook, crashes)
  <2>1. \A i \in 1 .. Len(stack[t]) - 1 : stack[t][i].pc = "crashed" =>
          e.hook # "user"
    BY <1>1, <1>2, <1>4, TopNested
  <2> QED
    BY <1>1, <1>2, <1>4, <2>1, ToppedNested
<1>8. Gate(stack, firstExit)' /\ Nested(stack, hook, crashes)'
  BY <1>6, <1>7 DEF RestoreOwn, Gate, Nested, Past
<1>9. Waiting'
  <2>1. Asleep(stack)' <=> Asleep(stack')
    BY DEF Asleep
  <2> QED
    BY <1>6, <2>1 DEF IInv, Waiting, RestoreOwn
<1>10. \E s \in Signals : Restore(s)
  BY <1>5 DEF RestoreOwn
<1> QED
  BY <1>1, <1>6, <1>8, <1>9, <1>10, EventsMoved DEF RestoreOwn, TypeOK

\* kill() with the stacks st: the process ends, or a handler starts, or the
\* signal stays pending.
LEMMA KillStep ==
  ASSUME IInv, NEW c \in All, NEW s \in Signals, NEW st \in Stacks,
         Kill(c, s, st),
         Gate(st, firstExit), Nested(st, hook, crashes), Asleep(st),
         UNCHANGED <<inited, early, worker, logger, sigVars, hook, crashes,
                     exitHandler, queue, sent, overrides>>,
         bg' = bg \/ (bg \in Busy /\ bg' = "exit")
  PROVE  IInv'
<1>1. /\ firstExit \in BOOLEAN /\ crashes \in Nat /\ logger \in BOOLEAN
      /\ hook \in Hooks /\ queue \in Seq(Task) /\ pending \subseteq Signals
      /\ bg \in {"none", "idle", "restore", "kill", "exit", "gone"}
      /\ proc \in {"running", "killed", "exited", "undefined"}
      /\ sent \in 0 .. MaxSent
  BY DEF IInv, TypeOK
<1>2. /\ stack' \in Stacks /\ firstExit' \in BOOLEAN
      /\ Gate(stack', firstExit') /\ Nested(stack', hook, crashes)
      /\ Asleep(stack')
  <2>1. CASE stack' = st /\ firstExit' = firstExit
    BY <1>1, <2>1
  <2>2. CASE Handle(c, s, st)
    BY <1>1, <2>2, Handled
  <2> QED
    BY <2>1, <2>2 DEF Kill
<1>3. /\ proc' \in {"running", "killed", "exited", "undefined"}
      /\ pending' \subseteq Signals
  BY <1>1 DEF Kill
<1>4. Gate(stack, firstExit)' /\ Nested(stack, hook, crashes)'
  BY <1>2 DEF Gate, Nested, Past
<1>5. Waiting'
  <2>1. Asleep(stack)'
    BY <1>2 DEF Asleep
  <2> QED
    BY <2>1 DEF IInv, Waiting
<1>6. bg' \in {"none", "idle", "restore", "kill", "exit", "gone"}
  BY <1>1
<1> QED
  BY <1>1, <1>2, <1>3, <1>4, <1>5, <1>6, EventsMoved

LEMMA KillOwnStep == ASSUME IInv, NEW t \in All, KillOwn(t) PROVE IInv'
<1> DEFINE e == [Top(t) EXCEPT !.pc = "exit"]
<1>1. /\ TypeOK /\ Gate(stack, firstExit) /\ Nested(stack, hook, crashes)
      /\ crashes \in Nat
  BY DEF IInv, TypeOK
<1>2. stack[t] # <<>> /\ Top(t).pc = "kill"
  BY DEF KillOwn, At
<1>3. Top(t) \in Events
  BY <1>1, <1>2, TopEvent
<1>4. /\ e \in Events /\ e.handler = Top(t).handler /\ e.pc = "exit"
      /\ e.hook = Top(t).hook
  BY <1>3 DEF Events
<1>5. Top(t).sig \in Signals
  BY <1>3 DEF Events
<1>6. Kill(t, Top(t).sig, WithTop(t, e))
  BY DEF KillOwn
<1> HIDE DEF e
<1>7. /\ WithTop(t, e) \in Stacks /\ Gate(WithTop(t, e), firstExit)
      /\ Asleep(WithTop(t, e))
  BY <1>1, <1>2, <1>4, Topped DEF Still
<1>8. Nested(WithTop(t, e), hook, crashes)
  <2>1. \A i \in 1 .. Len(stack[t]) - 1 : stack[t][i].pc = "crashed" =>
          e.hook # "user"
    BY <1>1, <1>2, <1>4, TopNested
  <2> QED
    BY <1>1, <1>2, <1>4, <2>1, ToppedNested
<1> QED
  BY <1>5, <1>6, <1>7, <1>8, KillStep DEF KillOwn

LEMMA ExitOwnStep == ASSUME IInv, NEW t \in All, ExitOwn(t) PROVE IInv'
<1>1. TypeOK'
  BY DEF ExitOwn, IInv, TypeOK, sigVars
<1>2. Table'
  BY DEF ExitOwn, IInv, Table, sigVars
<1> QED
  BY <1>1, <1>2, SameEvents DEF ExitOwn, IInv, Waiting

LEMMA BgFatalStep == ASSUME IInv, BgFatal PROVE IInv'
<1>1. TypeOK'
  BY DEF BgFatal, IInv, TypeOK, sigVars
<1>2. Table'
  BY DEF BgFatal, IInv, Table, sigVars
<1> QED
  BY <1>1, <1>2, SameEvents DEF BgFatal, IInv, Waiting

\* The signal of the message the worker acts on.
LEMMA HeadSignal ==
  ASSUME IInv, bg \in Busy
  PROVE  queue # <<>> /\ Head(queue).sig \in Signals /\ Asleep(stack)
<1>1. queue # <<>> /\ Head(queue) \in Message /\ queue \in Seq(Task)
  BY DEF IInv, Waiting, TypeOK
<1>2. Asleep(stack)
  BY <1>1, HeadHolds DEF IInv, Waiting
<1> QED
  BY <1>1, <1>2 DEF Message

LEMMA BgRestoreStep == ASSUME IInv, BgRestore PROVE IInv'
<1>1. queue # <<>> /\ Head(queue).sig \in Signals
  BY HeadSignal DEF BgRestore, BgTurn, Busy
<1>2. \E s \in Signals : Restore(s)
  BY <1>1 DEF BgRestore
<1>3. /\ TypeOK /\ stack \in Stacks
      /\ Gate(stack, firstExit) /\ Nested(stack, hook, crashes)
  BY DEF IInv, TypeOK, Stacks
<1>4. Gate(stack, firstExit)' /\ Nested(stack, hook, crashes)'
  BY <1>3 DEF BgRestore, Gate, Nested, Past
<1>5. Waiting'
  BY <1>1 DEF BgRestore, BgTurn, Waiting, IInv, Asleep, Holds, Busy
<1> QED
  BY <1>2, <1>3, <1>4, <1>5, EventsMoved DEF BgRestore, TypeOK

LEMMA BgKillStep == ASSUME IInv, BgKill PROVE IInv'
<1>1. /\ Head(queue).sig \in Signals /\ Asleep(stack)
      /\ bg \in Busy /\ bg' = "exit" /\ Bg \in All
  BY HeadSignal DEF BgKill, BgTurn, Busy, All
<1>2. /\ stack \in Stacks
      /\ Gate(stack, firstExit) /\ Nested(stack, hook, crashes)
  BY DEF IInv, TypeOK, Stacks
<1> QED
  BY <1>1, <1>2, KillStep DEF BgKill

LEMMA BgExitStep == ASSUME IInv, BgExit PROVE IInv'
<1>1. TypeOK'
  BY DEF BgExit, IInv, TypeOK, sigVars
<1>2. Table'
  BY DEF BgExit, IInv, Table, sigVars
<1> QED
  BY <1>1, <1>2, SameEvents DEF BgExit, IInv, Waiting

LEMMA IInvStep == ASSUME IInv, [Next]_vars PROVE IInv'
<1>1. CASE UNCHANGED vars
  BY <1>1 DEF vars, sigVars, IInv, TypeOK, Table, Waiting, Asleep, Holds,
              Gate, Past, Nested
<1>2. Threads \subseteq All /\ Targets \subseteq All
  BY FatalAssumption DEF All
<1>3. CASE Next
  <2>1. CASE \/ CreateLogWorker \/ InitializeLogging \/ SetFatalPreLoggingHook
             \/ ShutDownLogging
    BY <2>1, CreateStep, InitializeStep, SetHookStep, ShutDownStep
  <2>2. CASE \E set \in Overrides : OverrideSetupSignals(set)
    BY <2>2, OverrideStep
  <2>3. CASE \E handler \in ExitHandlers : SetFatalExitHandler(handler)
    BY <2>3, SetExitHandlerStep
  <2>4. CASE \E t \in Threads : LogFatal(t) \/ \E s \in Signals : Fault(t, s)
    BY <1>2, <2>4, LogFatalStep, FaultStep
  <2>5. CASE \E t \in Targets, s \in Signals : Sent(t, s)
    BY <1>2, <2>5, SentStep
  <2>6. CASE \E t \in All : Continue(t)
    BY <2>6, CopyHookStep, ResetHookStep, FatalReturnsStep, FatalCheckStep,
       FatalSaveStep, RestoreOwnStep, KillOwnStep, ExitOwnStep, HookReturnsStep,
       HookThrowsStep, HookLogsFatalStep, HookCrashesStep DEF Continue
  <2>7. CASE BgStep
    BY <2>7, BgFatalStep, BgRestoreStep, BgKillStep, BgExitStep, BgClearStep
       DEF BgStep
  <2>8. CASE \E t \in Owners : DestroyLogWorker(t) \/ DestroyStep(t)
    BY <2>8, DestroyStepStep
  <2>9. CASE \E t \in All, s \in Signals : Arrive(t, s)
    BY <2>9, ArriveStep
  <2> QED
    BY <1>3, <2>1, <2>2, <2>3, <2>4, <2>5, <2>6, <2>7, <2>8, <2>9 DEF Next
<1> QED
  BY <1>1, <1>3

----------------------------------------------------------------------------
(* The theorems.                                                             *)

THEOREM Invariant == Spec => []IInv
<1>1. Init => IInv
  BY InitIInv
<1>2. IInv /\ [Next]_vars => IInv'
  BY IInvStep
<1> QED
  BY <1>1, <1>2, PTL DEF Spec

\* Every variable keeps its type: an event is always at one of the places of
\* saveMessage, fatalCall and the ways out, and a queued message has a signal.
THEOREM TypeCorrect == Spec => []TypeOK
<1>1. IInv => TypeOK
  BY DEF IInv
<1> QED
  BY <1>1, Invariant, PTL

\* What g3log catches can be given back (restoreSignalHandler), unless the
\* signals were set up before initializeLogging.
THEOREM WayBackHolds == Spec => []WayBack
<1>1. IInv => WayBack
  BY DEF IInv, Table, WayBack
<1> QED
  BY <1>1, Invariant, PTL

\* One signal passes shouldDoExit, on however many threads signals arrive.
THEOREM OneSignalPassesHolds == Spec => []OneSignalPasses
<1>1. ASSUME IInv PROVE OneSignalPasses
  <2>1. \A t \in All : DOMAIN stack[t] = 1 .. Len(stack[t])
    BY <1>1 DEF IInv, TypeOK
  <2> QED
    BY <1>1, <2>1 DEF IInv, Gate, Past, OneSignalPasses
<1> QED
  BY <1>1, Invariant, PTL

\* The user's pre-fatal hook does not run inside itself, whatever it does and
\* however often it crashes.
THEOREM HookNotReenteredHolds == Spec => []HookNotReentered
<1>1. ASSUME IInv PROVE HookNotReentered
  <2>1. \A t \in All : DOMAIN stack[t] = 1 .. Len(stack[t])
    BY <1>1 DEF IInv, TypeOK
  <2> QED
    BY <1>1, <2>1 DEF IInv, Nested, HookNotReentered
<1> QED
  BY <1>1, Invariant, PTL

\* The message of an event met in the hook says that the crash was recursive.
THEOREM RecursionNotedHolds == Spec => []RecursionNoted
<1>1. ASSUME IInv PROVE RecursionNoted
  <2> SUFFICES ASSUME NEW t \in All, At(t, "push"),
                      NEW i \in DOMAIN stack[t], stack[t][i].pc = "crashed"
               PROVE  Top(t).recursive
    BY DEF RecursionNoted
  <2>1. TypeOK /\ Nested(stack, hook, crashes)
    BY <1>1 DEF IInv
  <2>2. stack[t] # <<>> /\ Top(t).pc = "push"
    BY DEF At
  <2>3. /\ Len(stack[t]) \in Nat \ {0} /\ Top(t) = stack[t][Len(stack[t])]
        /\ i \in 1 .. Len(stack[t])
    BY <2>1, <2>2, TopEvent DEF TypeOK
  <2>4. i \in 1 .. Len(stack[t]) - 1
    BY <2>2, <2>3
  <2> QED
    BY <2>1, <2>2, <2>4, TopNested
<1> QED
  BY <1>1, Invariant, PTL

----------------------------------------------------------------------------
(* The end by the signal.                                                    *)

\* While the process runs, whoever is about to kill it has put the default
\* action back, and who has got past kill left the signal pending.
OnTheWay ==
  /\ Ending(stack, disp, pending)
  /\ bg = "kill" => disp[Head(queue).sig] = "default"
  /\ bg = "exit" => Head(queue).sig \in pending

EInv == early \/
  /\ \A s \in pending : disp[s] = "default"
  /\ proc = "running" => OnTheWay
  /\ proc = "exited" => pending # {}

\* A step that ends the process by a signal, or in undefined behaviour.
LEMMA KilledEnds ==
  ASSUME EInv, ~early, proc' \in {"killed", "undefined"}, disp' = disp,
         pending' \subseteq pending
  PROVE  EInv'
BY DEF EInv

\* A step that moves events on, none of them to its end.
LEMMA OnTheWayMoved ==
  ASSUME EInv, ~early, proc = "running", proc' = "running",
         UNCHANGED <<disp, pending>>,
         bg \in Busy => bg' = bg /\ Head(queue') = Head(queue),
         bg \notin Busy => bg' \notin {"kill", "exit"},
         Ending(stack', disp, pending)
  PROVE  EInv'
<1>1. OnTheWay
  BY DEF EInv
<1>2. Ending(stack, disp, pending)'
  BY DEF Ending, Fits
<1>3. /\ bg' = "kill" => disp'[Head(queue').sig] = "default"
      /\ bg' = "exit" => Head(queue').sig \in pending'
  BY <1>1 DEF OnTheWay, Busy
<1> QED
  BY <1>2, <1>3 DEF EInv, OnTheWay

LEMMA ToppedEnding ==
  ASSUME IInv, NEW d, NEW p, Ending(stack, d, p),
         NEW t \in All, stack[t] # <<>>, NEW e \in Events, Fits(e, d, p)
  PROVE  WithTop(t, e) \in Stacks /\ Ending(WithTop(t, e), d, p)
<1>1. stack \in Stacks /\ WithTop(t, e) = Put(stack, t, e)
  BY WithTopIsPut DEF IInv, TypeOK, Stacks
<1>2. WithTop(t, e) \in Stacks
  BY <1>1, Changed
<1>3. Ending(WithTop(t, e), d, p)
  BY <1>1, EndingChanged
<1> QED
  BY <1>2, <1>3

\* The default actions stay while g3log gives others back.
LEMMA RestoreKeepsDefaults ==
  ASSUME IInv, ~early, NEW s \in Signals, Restore(s)
  PROVE  /\ disp'[s] = "default"
         /\ \A r \in Signals : disp[r] = "default" => disp'[r] = "default"
<1>1. \A r \in Signals :
        /\ disp[r] \in {"default", "g3"}
        /\ saved[r] \in {"none", "default"}
        /\ disp[r] = "g3" <=> saved[r] = "default"
  BY DEF IInv, Table, TypeOK
<1>2. \A r \in Signals :
        disp'[r] = IF r \in {s} /\ saved[r] # "none" THEN saved[r] ELSE disp[r]
  BY RestoredAt DEF Restore, IInv
<1> QED
  BY <1>1, <1>2

LEMMA EndingRestored ==
  ASSUME IInv, ~early, NEW s \in Signals, Restore(s),
         NEW st \in Stacks, NEW p, Ending(st, disp, p)
  PROVE  Ending(st, disp', p)
<1>1. \A t \in All : \A i \in 1 .. Len(st[t]) : st[t][i].sig \in Signals
  <2>1. \A t \in All : \A i \in 1 .. Len(st[t]) : st[t][i] \in Events
    BY DEF Stacks
  <2> QED
    BY <2>1 DEF Events
<1> QED
  BY <1>1, RestoreKeepsDefaults DEF Ending, Fits

\* More signals pending do no harm.
LEMMA EndingLater ==
  ASSUME NEW st, NEW d, NEW p, Ending(st, d, p), NEW q, p \subseteq q
  PROVE  Ending(st, d, q)
BY DEF Ending, Fits

\* The steps with no event: no signal is pending.
LEMMA QuietEInv ==
  ASSUME IInv, EInv, Quiet, ~early', proc' = proc, UNCHANGED <<stack, pending>>,
         bg' = bg \/ bg' = "idle"
  PROVE  EInv'
<1>1. /\ pending = {} /\ bg \notin Busy /\ \A t \in All : Len(stack[t]) = 0
  BY QuietEmpty
<1>2. Ending(stack, disp, pending)'
  BY <1>1 DEF Ending
<1> QED
  BY <1>1, <1>2 DEF EInv, OnTheWay, Quiet, Busy

\* The steps on the worker and its queue that leave the events alone.
LEMMA QueueEInv ==
  ASSUME IInv, EInv, ~early, proc = "running", proc' = "running",
         UNCHANGED <<disp, pending, stack>>,
         bg \in Busy => bg' = bg /\ Head(queue') = Head(queue),
         bg \notin Busy => bg' \notin {"kill", "exit"}
  PROVE  EInv'
<1>1. Ending(stack', disp, pending)
  BY DEF EInv, OnTheWay, Ending
<1> QED
  BY <1>1, OnTheWayMoved

LEMMA DestroyEInv ==
  ASSUME IInv, EInv, ~early, NEW t \in Owners,
         DestroyLogWorker(t) \/ DestroyStep(t)
  PROVE  EInv'
<1>1. queue \in Seq(Task) /\ (bg \in Busy => queue # <<>>)
  BY DEF IInv, TypeOK, Waiting
<1>2. /\ proc = "running" /\ proc' = "running"
      /\ UNCHANGED <<disp, pending, stack>>
  BY DEF DestroyLogWorker, DestroyStep, SpawnClear, OwnerReset, OwnerJoin,
         Destroying, sigVars
<1>3. CASE DestroyLogWorker(t)
  BY <1>2, <1>3, QueueEInv DEF DestroyLogWorker, Busy
<1>4. CASE SpawnClear(t) \/ OwnerReset(t)
  <2>1. bg' = bg /\ (bg \in Busy => Head(queue') = Head(queue))
    BY <1>1, <1>4, QueueGrows, TasksOfDestructor DEF SpawnClear, OwnerReset
  <2> QED
    BY <1>2, <2>1, QueueEInv DEF Busy
<1>5. CASE OwnerJoin(t)
  BY <1>2, <1>5, QueueEInv DEF OwnerJoin, Busy
<1> QED
  BY <1>3, <1>4, <1>5 DEF DestroyStep

\* The steps that begin an event.
LEMMA DeliverEInv ==
  ASSUME IInv, EInv, ~early, proc = "running",
         NEW t \in All, NEW s \in Signals, Deliver(t, s),
         UNCHANGED <<disp, queue, bg, pending>>
  PROVE  EInv'
<1>1. CASE disp[s] = "default"
  BY <1>1, KilledEnds DEF Deliver
<1>2. CASE disp[s] # "default"
  <2>1. Handle(t, s, stack) /\ proc' = "running"
    BY <1>2 DEF Deliver
  <2>2. /\ stack \in Stacks /\ firstExit \in BOOLEAN /\ crashes \in Nat
        /\ Gate(stack, firstExit) /\ Nested(stack, hook, crashes)
    BY DEF IInv, TypeOK, Stacks
  <2>3. Ending(stack, disp, pending)
    BY DEF EInv, OnTheWay
  <2>4. Ending(stack', disp, pending)
    BY <2>1, <2>2, <2>3, Handled
  <2> QED
    BY <2>1, <2>4, OnTheWayMoved DEF Busy
<1> QED
  BY <1>1, <1>2

\* A signal that g3log sent arrives: its action is the default one.
LEMMA ArriveEInv ==
  ASSUME IInv, EInv, ~early, NEW t \in All, NEW s \in Signals, Arrive(t, s)
  PROVE  EInv'
<1>1. disp[s] = "default"
  BY DEF EInv, Arrive
<1>2. proc' = "killed" /\ disp' = disp /\ pending' \subseteq pending
  BY <1>1 DEF Arrive, Deliver, sigVars
<1> QED
  BY <1>2, KilledEnds

LEMMA LogFatalEInv ==
  ASSUME IInv, EInv, ~early, NEW t \in All, LogFatal(t) PROVE EInv'
<1> DEFINE e == Event(Abort, FALSE, "save")
<1>1. e \in Events /\ e.pc = "save"
  BY EventIsEvent, FatalAssumption
<1>2. stack \in Stacks /\ proc = "running" /\ proc' = "running"
  BY DEF IInv, TypeOK, Stacks, LogFatal
<1>3. stack' = Push(stack, t, e)
  BY DEF LogFatal, Push
<1>4. Ending(stack, disp, pending)
  BY <1>2 DEF EInv, OnTheWay
<1> HIDE DEF e
<1>5. Ending(stack', disp, pending)
  BY <1>1, <1>2, <1>3, <1>4, EndingPushed
<1>6. UNCHANGED <<disp, queue, bg, pending>>
  BY DEF LogFatal, sigVars
<1> QED
  BY <1>2, <1>5, <1>6, OnTheWayMoved DEF Busy

\* An event goes on, and does not get as far as kill.
LEMMA GoEInv ==
  ASSUME IInv, EInv, ~early, proc = "running", proc' = "running",
         NEW t \in All, stack[t] # <<>>, NEW e \in Events,
         stack' = WithTop(t, e), e.pc \notin {"kill", "exit"},
         UNCHANGED <<disp, bg, pending>>,
         bg \in Busy => Head(queue') = Head(queue)
  PROVE  EInv'
<1>1. Ending(stack, disp, pending) /\ Fits(e, disp, pending)
  BY DEF EInv, OnTheWay, Fits
<1>2. Ending(stack', disp, pending)
  BY <1>1, ToppedEnding
<1> QED
  BY <1>2, OnTheWayMoved DEF Busy

LEMMA SaveMessageEInv ==
  ASSUME IInv, EInv, ~early, NEW t \in All,
         CopyHook(t) \/ ResetHook(t) \/ HookReturns(t) \/ FatalCheck(t)
  PROVE  EInv'
<1>1. /\ stack[t] # <<>> /\ proc = "running" /\ proc' = "running"
      /\ UNCHANGED <<disp, bg, pending, queue>>
  BY DEF At, CopyHook, ResetHook, HookReturns, FatalCheck, sigVars
<1>2. TypeOK /\ Top(t) \in Events /\ hook \in Hooks /\ crashes \in Nat
  BY <1>1, TopEvent DEF IInv, TypeOK
<1>3. PICK e \in Events : /\ stack' = WithTop(t, e)
                          /\ e.pc \in {"reset", "hook", "send", "push",
                                       "restore"}
  <2>1. CASE CopyHook(t)
    <3> DEFINE e == [Top(t) EXCEPT !.pc = "reset", !.hook = hook]
    <3>1. e \in Events /\ e.pc = "reset"
      BY <1>2 DEF Events
    <3>2. stack' = WithTop(t, e)
      BY <2>1 DEF CopyHook
    <3> QED
      BY <3>1, <3>2
  <2>2. CASE ResetHook(t) \/ FatalCheck(t)
    BY <1>2, <2>2 DEF ResetHook, FatalCheck, Goto, Events
  <2>3. CASE HookReturns(t)
    <3> DEFINE r == crashes > 1
    <3> DEFINE e == [Top(t) EXCEPT !.pc = "send", !.recursive = r]
    <3>1. r \in BOOLEAN /\ stack' = WithTop(t, e)
      BY <2>3 DEF HookReturns
    <3> HIDE DEF r
    <3>2. e \in Events /\ e.pc = "send"
      BY <1>2, <3>1 DEF Events
    <3> QED
      BY <3>1, <3>2
  <2> QED
    BY <2>1, <2>2, <2>3
<1> QED
  BY <1>1, <1>3, GoEInv

LEMMA FatalSaveEInv ==
  ASSUME IInv, EInv, ~early, NEW t \in All, FatalSave(t) PROVE EInv'
<1> DEFINE e == [Top(t) EXCEPT !.pc = "sleep"]
<1> DEFINE m == [sig |-> Top(t).sig, recursive |-> Top(t).recursive]
<1>1. /\ stack[t] # <<>> /\ proc = "running" /\ UNCHANGED <<disp, bg, pending>>
  BY DEF At, FatalSave, sigVars
<1>2. Top(t) \in Events /\ queue \in Seq(Task) /\ (bg \in Busy => queue # <<>>)
  BY <1>1, TopEvent DEF IInv, TypeOK, Waiting
<1>3. CASE proc' = "undefined"
  BY <1>1, <1>3, KilledEnds
<1>4. CASE stack' = WithTop(t, e) /\ queue' = Append(queue, m) /\ proc' = proc
  <2>1. e \in Events /\ e.pc = "sleep" /\ m \in Task
    BY <1>2 DEF Events, Message, Task
  <2> HIDE DEF e, m
  <2>2. bg \in Busy => Head(queue') = Head(queue)
    BY <1>2, <1>4, <2>1, QueueGrows
  <2> QED
    BY <1>1, <1>4, <2>1, <2>2, GoEInv
<1> QED
  BY <1>3, <1>4 DEF FatalSave, Goto

\* The hook's thread meets another event.
LEMMA CrashedEnding ==
  ASSUME IInv, EInv, ~early, NEW t \in All, At(t, "hook"),
         NEW mid, mid = WithTop(t, [Top(t) EXCEPT !.pc = "crashed"])
  PROVE  mid \in Stacks /\ Ending(mid, disp, pending)
<1> DEFINE e == [Top(t) EXCEPT !.pc = "crashed"]
<1>1. stack[t] # <<>> /\ proc = "running" /\ Ending(stack, disp, pending)
  BY DEF At, EInv, OnTheWay
<1>2. Top(t) \in Events
  BY <1>1, TopEvent DEF IInv
<1>3. e \in Events /\ Fits(e, disp, pending)
  BY <1>2 DEF Events, Fits
<1> HIDE DEF e
<1>4. mid = WithTop(t, e)
  BY DEF e
<1> QED
  BY <1>1, <1>3, <1>4, ToppedEnding

LEMMA CrashEInv ==
  ASSUME IInv, EInv, ~early, NEW t \in All, NEW s \in Signals, At(t, "hook"),
         \/ proc' = "killed" /\ UNCHANGED <<firstExit, stack>>
         \/ /\ Handle(t, s, WithTop(t, [Top(t) EXCEPT !.pc = "crashed"]))
            /\ UNCHANGED proc,
         UNCHANGED <<disp, queue, bg, pending>>
  PROVE  EInv'
<1> DEFINE mid == WithTop(t, [Top(t) EXCEPT !.pc = "crashed"])
<1>1. CASE proc' = "killed"
  BY <1>1, KilledEnds
<1>2. CASE Handle(t, s, mid) /\ proc' = proc
  <2>1. mid \in Stacks /\ Ending(mid, disp, pending)
    BY CrashedEnding
  <2>2. Gate(mid, firstExit) /\ Nested(mid, hook, crashes)
    BY Crashed
  <2>3. firstExit \in BOOLEAN /\ crashes \in Nat /\ proc = "running"
    BY DEF IInv, TypeOK, At
  <2> HIDE DEF mid
  <2>4. Ending(stack', disp, pending)
    BY <1>2, <2>1, <2>2, <2>3, Handled
  <2> QED
    BY <1>2, <2>3, <2>4, OnTheWayMoved DEF Busy
<1> QED
  BY <1>1, <1>2

LEMMA HookLogsFatalEInv ==
  ASSUME IInv, EInv, ~early, NEW t \in All, HookLogsFatal(t) PROVE EInv'
<1> DEFINE mid == WithTop(t, [Top(t) EXCEPT !.pc = "crashed"])
<1> DEFINE e == Event(Abort, FALSE, "save")
<1>1. e \in Events /\ e.pc = "save"
  BY EventIsEvent, FatalAssumption
<1>2. mid \in Stacks /\ Ending(mid, disp, pending)
  BY CrashedEnding DEF HookLogsFatal
<1>3. stack' = Push(mid, t, e)
  <2>1. stack' = [stack EXCEPT ![t] = Append(mid[t], e)] /\ stack \in Stacks
    BY DEF HookLogsFatal, IInv, TypeOK, Stacks
  <2>2. mid = [stack EXCEPT ![t] = mid[t]]
    BY <2>1, WithTopIsPut DEF Put, Stacks
  <2> HIDE DEF mid, e
  <2> QED
    BY <2>1, <2>2 DEF Push, Stacks
<1>4. /\ proc = "running" /\ proc' = "running"
      /\ UNCHANGED <<disp, queue, bg, pending>>
  BY DEF HookLogsFatal, At, sigVars
<1> HIDE DEF e, mid
<1>5. Ending(stack', disp, pending)
  BY <1>1, <1>2, <1>3, EndingPushed
<1> QED
  BY <1>4, <1>5, OnTheWayMoved DEF Busy

LEMMA FatalReturnsEInv ==
  ASSUME IInv, EInv, ~early, NEW t \in All, FatalReturns(t) PROVE EInv'
<1> DEFINE rest == Front(stack[t])
<1> DEFINE mid == Pop(stack, t)
<1>1. /\ stack[t] # <<>> /\ proc = "running" /\ stack \in Stacks
      /\ UNCHANGED <<disp, queue, bg, pending>>
  BY DEF FatalReturns, At, sigVars, IInv, TypeOK, Stacks
<1>2. Ending(stack, disp, pending)
  BY <1>1 DEF EInv, OnTheWay
<1>3. mid \in Stacks
  BY <1>1, Popped
<1>4. Ending(mid, disp, pending)
  BY <1>1, <1>2, EndingPopped
<1>5. mid[t] = rest
  BY <1>1 DEF Pop, Stacks
<1>6. CASE proc' = "killed"
  BY <1>1, <1>6, KilledEnds
<1>7. CASE proc' = proc /\ stack' = mid
  BY <1>1, <1>4, <1>7, OnTheWayMoved DEF Busy
<1>8. CASE /\ proc' = proc /\ rest # <<>>
           /\ stack' = [stack EXCEPT ![t] = [rest EXCEPT ![Len(rest)].pc = "hook"]]
  <2> DEFINE e == [rest[Len(rest)] EXCEPT !.pc = "hook"]
  <2>1. /\ rest \in Seq(Events) /\ Len(rest) \in Nat \ {0}
        /\ rest[Len(rest)] \in Events
    BY <1>3, <1>5, <1>8 DEF Stacks
  <2>2. e \in Events /\ Fits(e, disp, pending)
    BY <2>1 DEF Events, Fits
  <2>3. stack' = Put(mid, t, e)
    BY <1>1, <1>8, <1>5 DEF Stacks, Pop, Put
  <2> HIDE DEF e, mid, rest
  <2>4. Ending(stack', disp, pending)
    BY <1>3, <1>4, <1>5, <1>8, <2>2, <2>3, EndingChanged
  <2> QED
    BY <1>1, <1>8, <2>4, OnTheWayMoved DEF Busy
<1> QED
  BY <1>6, <1>7, <1>8 DEF FatalReturns, Pop

LEMMA RestoreOwnEInv ==
  ASSUME IInv, EInv, ~early, NEW t \in All, RestoreOwn(t) PROVE EInv'
<1> DEFINE e == [Top(t) EXCEPT !.pc = "kill"]
<1>1. /\ stack[t] # <<>> /\ proc = "running" /\ proc' = "running"
      /\ UNCHANGED <<queue, bg, pending>> /\ stack' = WithTop(t, e)
      /\ Restore(Top(t).sig) /\ stack \in Stacks
  BY DEF At, RestoreOwn, Goto, IInv, TypeOK, Stacks
<1>2. Top(t) \in Events /\ pending \subseteq Signals
  BY <1>1, TopEvent DEF IInv, TypeOK
<1>3. e \in Events /\ e.pc = "kill" /\ e.sig = Top(t).sig /\ e.sig \in Signals
  BY <1>2 DEF Events
<1> HIDE DEF e
<1>4. OnTheWay /\ Ending(stack, disp, pending)
  BY <1>1 DEF EInv, OnTheWay
<1>5. /\ disp'[e.sig] = "default"
      /\ \A r \in Signals : disp[r] = "default" => disp'[r] = "default"
  BY <1>1, <1>3, RestoreKeepsDefaults
<1>6. Ending(stack, disp', pending)
  BY <1>1, <1>3, <1>4, EndingRestored
<1>7. Ending(stack', disp', pending)
  <2>1. Fits(e, disp', pending)
    BY <1>3, <1>5 DEF Fits
  <2> QED
    BY <1>1, <1>3, <1>6, <2>1, WithTopIsPut, EndingChanged
<1>8. bg = "kill" => disp'[Head(queue).sig] = "default"
  BY <1>4, <1>5, HeadSignal DEF OnTheWay, Busy
<1>9. \A s \in pending : disp'[s] = "default"
  BY <1>2, <1>5 DEF EInv
<1>10. Ending(stack, disp, pending)'
  BY <1>1, <1>7 DEF Ending, Fits
<1> QED
  BY <1>1, <1>4, <1>8, <1>9, <1>10 DEF EInv, OnTheWay

\* kill() of a signal whose action is the default one: it ends the process, or
\* is left pending.
LEMMA KillEnds ==
  ASSUME NEW c, NEW s, disp[s] = "default", NEW st, Kill(c, s, st)
  PROVE  \/ proc' = "killed" /\ pending' \subseteq pending
         \/ stack' = st /\ proc' = proc /\ pending' = pending \cup {s}
BY DEF Kill

LEMMA KillOwnEInv ==
  ASSUME IInv, EInv, ~early, NEW t \in All, KillOwn(t) PROVE EInv'
<1> DEFINE e == [Top(t) EXCEPT !.pc = "exit"]
<1> DEFINE p == pending \cup {Top(t).sig}
<1>1. /\ stack[t] # <<>> /\ proc = "running" /\ Top(t).pc = "kill"
      /\ UNCHANGED <<disp, queue, bg>> /\ Kill(t, Top(t).sig, WithTop(t, e))
  BY DEF At, KillOwn, sigVars
<1>2. OnTheWay /\ Ending(stack, disp, pending)
  BY <1>1 DEF EInv, OnTheWay
<1>3. /\ Len(stack[t]) \in Nat \ {0} /\ Top(t) = stack[t][Len(stack[t])]
      /\ Top(t) \in Events
  BY <1>1, TopEvent DEF IInv
<1>4. disp[Top(t).sig] = "default"
  BY <1>1, <1>2, <1>3 DEF Ending, Fits
<1>5. CASE proc' = "killed" /\ pending' \subseteq pending
  BY <1>1, <1>5, KilledEnds
<1>6. CASE stack' = WithTop(t, e) /\ proc' = proc /\ pending' = p
  <2>1. e \in Events /\ Fits(e, disp, p)
    BY <1>3 DEF Events, Fits
  <2>2. pending \subseteq p
    OBVIOUS
  <2>3. \A s \in p : disp[s] = "default"
    BY <1>4 DEF EInv
  <2> HIDE DEF e, p
  <2>4. Ending(stack, disp, p)
    BY <1>2, <2>2, EndingLater
  <2>5. Ending(stack', disp, p)
    BY <1>1, <1>6, <2>1, <2>4, ToppedEnding
  <2>6. Ending(stack, disp, pending)'
    BY <1>1, <1>6, <2>5 DEF Ending, Fits
  <2>7. OnTheWay'
    BY <1>1, <1>2, <1>6, <2>2, <2>6 DEF OnTheWay
  <2> QED
    BY <1>1, <1>6, <2>3, <2>7 DEF EInv
<1> QED
  BY <1>1, <1>4, <1>5, <1>6, KillEnds

LEMMA ExitOwnEInv ==
  ASSUME IInv, EInv, ~early, NEW t \in All, ExitOwn(t) PROVE EInv'
<1>1. /\ stack[t] # <<>> /\ proc = "running" /\ Top(t).pc = "exit"
      /\ proc' = "exited" /\ UNCHANGED <<disp, pending>>
  BY DEF At, ExitOwn, sigVars
<1>2. Ending(stack, disp, pending)
  BY <1>1 DEF EInv, OnTheWay
<1>3. Len(stack[t]) \in Nat \ {0} /\ Top(t) = stack[t][Len(stack[t])]
  BY <1>1, TopEvent DEF IInv
<1>4. Top(t).sig \in pending
  BY <1>1, <1>2, <1>3 DEF Ending, Fits
<1> QED
  BY <1>1, <1>4 DEF EInv

LEMMA BgEInv == ASSUME IInv, EInv, ~early, BgStep PROVE EInv'
<1>1. OnTheWay /\ proc = "running" /\ Ending(stack, disp, pending)
  BY DEF BgStep, BgFatal, BgRestore, BgKill, BgExit, BgClear, BgQuit, BgTurn,
         EInv, OnTheWay
<1>2. CASE BgFatal \/ BgClear \/ BgQuit
  <2>1. /\ proc' = "running" /\ UNCHANGED <<disp, pending, stack>>
        /\ bg \notin Busy /\ bg' \notin {"kill", "exit"}
    BY <1>1, <1>2 DEF BgFatal, BgClear, BgQuit, BgTurn, sigVars, Busy
  <2> QED
    BY <1>1, <2>1, QueueEInv
<1>3. CASE BgRestore
  <2>1. /\ queue # <<>> /\ Head(queue).sig \in Signals /\ stack \in Stacks
        /\ pending \subseteq Signals
    BY <1>3, HeadSignal DEF BgRestore, BgTurn, IInv, TypeOK, Stacks, Busy
  <2>2. Restore(Head(queue).sig)
    BY <1>3 DEF BgRestore
  <2>3. /\ disp'[Head(queue).sig] = "default"
        /\ \A r \in Signals : disp[r] = "default" => disp'[r] = "default"
    BY <2>1, <2>2, RestoreKeepsDefaults
  <2>4. Ending(stack, disp', pending)
    BY <1>1, <2>1, <2>2, EndingRestored
  <2>5. Ending(stack, disp, pending)'
    BY <1>3, <2>4 DEF Ending, Fits, BgRestore
  <2>6. \A s \in pending : disp'[s] = "default"
    BY <2>1, <2>3 DEF EInv
  <2> QED
    BY <1>1, <1>3, <2>3, <2>5, <2>6 DEF BgRestore, EInv, OnTheWay
<1>4. CASE BgKill
  <2> DEFINE s == Head(queue).sig
  <2>1. /\ bg = "kill" /\ bg' = "exit" /\ UNCHANGED <<disp, queue>>
        /\ Kill(Bg, s, stack)
    BY <1>4 DEF BgKill, BgTurn, sigVars
  <2>2. disp[s] = "default"
    BY <1>1, <2>1 DEF OnTheWay
  <2> HIDE DEF s
  <2>3. CASE proc' = "killed" /\ pending' \subseteq pending
    BY <2>1, <2>3, KilledEnds
  <2>4. CASE stack' = stack /\ proc' = proc /\ pending' = pending \cup {s}
    <3>1. \A r \in pending' : disp'[r] = "default"
      BY <2>1, <2>2, <2>4 DEF EInv
    <3>2. Ending(stack, disp, pending')
      BY <1>1, <2>4, EndingLater
    <3>3. Ending(stack, disp, pending)'
      BY <2>1, <2>4, <3>2 DEF Ending, Fits
    <3>4. OnTheWay'
      BY <2>1, <2>4, <3>3 DEF OnTheWay, s
    <3> QED
      BY <1>1, <2>4, <3>1, <3>4 DEF EInv
  <2> QED
    BY <2>1, <2>2, <2>3, <2>4, KillEnds
<1>5. CASE BgExit
  <2>1. Head(queue).sig \in pending /\ proc' = "exited" /\ UNCHANGED <<disp, pending>>
    BY <1>1, <1>5 DEF BgExit, BgTurn, OnTheWay, sigVars
  <2> QED
    BY <2>1 DEF EInv
<1> QED
  BY <1>2, <1>3, <1>4, <1>5 DEF BgStep

LEMMA EInvStep == ASSUME IInv, EInv, [Next]_vars PROVE EInv'
<1>1. CASE UNCHANGED vars
  BY <1>1 DEF vars, sigVars, EInv, OnTheWay, Ending, Fits
<1>2. CASE Next /\ early'
  BY <1>2 DEF EInv
<1>3. CASE Next /\ ~early'
  <2>1. ~early /\ Threads \subseteq All /\ Targets \subseteq All
    <3>1. early => early'
      BY <1>3 DEF Next, CreateLogWorker, InitializeLogging, ShutDownLogging,
         SetFatalPreLoggingHook, OverrideSetupSignals, SetFatalExitHandler,
         DestroyLogWorker, DestroyStep, SpawnClear, OwnerReset, OwnerJoin,
         LogFatal, Fault, Sent, Arrive, Continue, CopyHook, ResetHook,
         FatalReturns, FatalCheck, FatalSave, RestoreOwn, KillOwn, ExitOwn,
         HookReturns, HookThrows, HookLogsFatal, HookCrashes,
         BgStep, BgFatal, BgRestore, BgKill, BgExit, BgClear, BgQuit
    <3> QED
      BY <1>3, <3>1, FatalAssumption DEF All
  <2>2. CASE \/ CreateLogWorker \/ InitializeLogging \/ SetFatalPreLoggingHook
             \/ \E set \in Overrides : OverrideSetupSignals(set)
             \/ \E handler \in ExitHandlers : SetFatalExitHandler(handler)
    BY <1>3, <2>2, QuietEInv DEF CreateLogWorker, InitializeLogging,
       SetFatalPreLoggingHook, OverrideSetupSignals, SetFatalExitHandler
  <2>3. CASE \E t \in Threads : LogFatal(t) \/ \E s \in Signals : Fault(t, s)
    BY <2>1, <2>3, LogFatalEInv, DeliverEInv DEF Fault, sigVars
  <2>4. CASE \E t \in Targets, s \in Signals : Sent(t, s)
    BY <2>1, <2>4, DeliverEInv DEF Sent, sigVars
  <2>5. ASSUME NEW t \in All, Continue(t) PROVE EInv'
    <3>1. CASE CopyHook(t) \/ ResetHook(t) \/ HookReturns(t) \/ FatalCheck(t)
      BY <2>1, <3>1, SaveMessageEInv
    <3>2. CASE \/ FatalSave(t) \/ FatalReturns(t)
               \/ RestoreOwn(t) \/ KillOwn(t) \/ ExitOwn(t)
      BY <2>1, <3>2, FatalSaveEInv, FatalReturnsEInv, RestoreOwnEInv,
         KillOwnEInv, ExitOwnEInv
    <3>3. CASE HookThrows(t)
      BY <2>1, <3>3, CrashEInv, FatalAssumption DEF HookThrows, sigVars
    <3>4. CASE \E s \in HookSignals : HookCrashes(t, s)
      BY <2>1, <3>4, CrashEInv, FatalAssumption DEF HookCrashes, sigVars
    <3>5. CASE HookLogsFatal(t)
      BY <2>1, <3>5, HookLogsFatalEInv
    <3> QED
      BY <2>5, <3>1, <3>2, <3>3, <3>4, <3>5 DEF Continue
  <2>6. CASE BgStep
    BY <2>1, <2>6, BgEInv
  <2>7. CASE ShutDownLogging
    BY <2>1, <2>7, QueueEInv DEF ShutDownLogging, sigVars, Busy
  <2>8. CASE \E t \in Owners : DestroyLogWorker(t) \/ DestroyStep(t)
    BY <2>1, <2>8, DestroyEInv
  <2>9. CASE \E t \in All, s \in Signals : Arrive(t, s)
    BY <2>1, <2>9, ArriveEInv
  <2> QED
    BY <1>3, <2>2, <2>3, <2>4, <2>5, <2>6, <2>7, <2>8, <2>9 DEF Next
<1> QED
  BY <1>1, <1>2, <1>3

\* A fatal event that ends the process ends it by its signal, whoever kills, with
\* or without a worker's thread: g3log does not catch the signal again, and
\* exit() is reached only while the signal is still pending, unless the signals
\* were set up before initializeLogging.
THEOREM EndsByItsSignalHolds == Spec => []EndsByItsSignal
<1>1. Init => EInv
  BY DEF Init, EInv, OnTheWay, Ending, All
<1>2. IInv /\ EInv /\ [Next]_vars => EInv'
  BY EInvStep
<1>3. EInv => EndsByItsSignal
  BY DEF EInv, EndsByItsSignal
<1> QED
  BY <1>1, <1>2, <1>3, Invariant, PTL DEF Spec
=============================================================================
