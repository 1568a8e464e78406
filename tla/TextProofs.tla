----------------------------- MODULE TextProofs ------------------------------
(****************************************************************************)
(* What is proved of the texts of messages: of every stack, every report and *)
(* every text that a printf-like statement writes, whatever their length, and *)
(* of the time in front of them, for every format.                           *)
(****************************************************************************)
EXTENDS LogMessage, TimeFormat, FiniteSetTheorems, SequenceTheorems, TLAPS

----------------------------------------------------------------------------
(* Recursion over an interval.                                               *)

\* Induction over an interval, for a set instead of a predicate: its least
\* element outside of the set would be the least interval of that kind.
LEMMA IntervalInduction ==
  ASSUME NEW n \in Nat, NEW S, 0 \in S,
         \A k \in 0..n - 1 : k \in S => k + 1 \in S
  PROVE  0..n \subseteq S
<1> DEFINE bad == {k \in 0..n : k \notin S}
           T == {1..k : k \in bad}
           R == StrictSubsetOrdering(Nat)
<1>1. SUFFICES ASSUME bad # {} PROVE FALSE OBVIOUS
<1>2. IsWellFoundedOn(R, FiniteSubsetsOf(Nat))
  BY FS_StrictSubsetOrderingWellFounded
<1>3. T \subseteq FiniteSubsetsOf(Nat) /\ T # {}
  <2>1. \A k \in Nat : IsFiniteSet(1..k) BY FS_Interval
  <2>2. QED BY <1>1, <2>1 DEF FiniteSubsetsOf
<1>4. PICK x \in T : \A y \in T : <<y, x>> \notin R
  <2> HIDE DEF R, T
  <2>1. QED BY <1>2, <1>3, WFMin
<1>5. PICK k \in bad : x = 1..k BY <1>4
<1>6. k \in 1..n /\ k - 1 \in 0..n - 1 BY <1>5
<1>7. 1..k - 1 \subseteq 1..k /\ k \in 1..k /\ k \notin 1..k - 1 BY <1>6
<1>8. <<1..k - 1, x>> \in R BY <1>5, <1>6, <1>7 DEF StrictSubsetOrdering
<1>9. k - 1 \in S
  <2>1. 1..k - 1 \notin T BY <1>4, <1>8
  <2>2. k - 1 \notin bad BY <2>1
  <2>3. QED BY <1>6, <2>2
<1>10. QED BY <1>5, <1>6, <1>9

\* A function on 0 .. n may be defined by its first value and a step.
Recurs(f, n, start, step) ==
  f[0] = start /\ \A k \in 0 .. n - 1 : f[k + 1] = step[<<k, f[k]>>]

LEMMA Recursion ==
  ASSUME NEW n \in Nat, NEW V, NEW start \in V,
         NEW step \in [(0 .. n - 1) \X V -> V]
  PROVE  \E f \in [0 .. n -> V] : Recurs(f, n, start, step)
<1> DEFINE Solves(f, k) == Recurs(f, k, start, step)
           S == {k \in 0 .. n : \E f \in [0 .. k -> V] : Solves(f, k)}
<1>1. 0 \in S
  <2>1. [i \in 0 .. 0 |-> start] \in [0 .. 0 -> V] OBVIOUS
  <2>2. Solves([i \in 0 .. 0 |-> start], 0) BY DEF Recurs
  <2> HIDE DEF Solves
  <2>3. \E f \in [0 .. 0 -> V] : Solves(f, 0) BY <2>1, <2>2, Zenon
  <2>4. QED BY <2>3
<1>2. ASSUME NEW k \in 0 .. n - 1, k \in S PROVE k + 1 \in S
  <2>1. PICK f \in [0 .. k -> V] : Solves(f, k) BY <1>2
  <2> USE DEF Recurs
  <2>2. <<k, f[k]>> \in (0 .. n - 1) \X V BY <2>1
  <2>3. PICK last \in V : last = step[<<k, f[k]>>] BY <2>2
  <2> DEFINE g == [i \in 0 .. k + 1 |-> IF i = k + 1 THEN last ELSE f[i]]
  <2>4. g \in [0 .. k + 1 -> V] OBVIOUS
  <2>5. g[0] = start BY <2>1
  <2>6. ASSUME NEW i \in 0 .. k PROVE g[i + 1] = step[<<i, g[i]>>]
    <3>1. CASE i = k
      <4>1. g[i + 1] = last /\ g[i] = f[k] BY <3>1
      <4>2. QED BY <2>3, <3>1, <4>1
    <3>2. CASE i \in 0 .. k - 1
      <4>1. g[i + 1] = f[i + 1] /\ g[i] = f[i] BY <3>2
      <4>2. QED BY <2>1, <3>2, <4>1
    <3>3. QED BY <3>1, <3>2
  <2> HIDE DEF g
  <2>7. QED BY <2>4, <2>5, <2>6
<1>3. n \in S
  <2> HIDE DEF S
  <2>1. QED BY <1>1, <1>2, IntervalInduction
<1>4. QED BY <1>3

\* Induction over sequences, for a set of them.
LEMMA SeqInduction ==
  ASSUME NEW W, NEW S, <<>> \in S,
         \A s \in Seq(W) : \A e \in W : s \in S => Append(s, e) \in S
  PROVE  Seq(W) \subseteq S
<1> SUFFICES ASSUME NEW t \in Seq(W) PROVE t \in S OBVIOUS
<1> DEFINE n == Len(t)
           First(k) == SubSeq(t, 1, k)
           T == {k \in 0 .. n : First(k) \in S}
<1>1. n \in Nat OBVIOUS
<1>2. 0 \in T
  <2>1. First(0) = <<>> OBVIOUS
  <2> HIDE DEF First
  <2>2. QED BY <1>1, <2>1
<1>3. ASSUME NEW k \in 0 .. n - 1, k \in T PROVE k + 1 \in T
  <2>1. First(k + 1) = Append(First(k), t[k + 1]) OBVIOUS
  <2>2. First(k) \in Seq(W) /\ t[k + 1] \in W OBVIOUS
  <2> HIDE DEF First
  <2>3. First(k + 1) \in S BY <1>3, <2>1, <2>2
  <2>4. QED BY <1>1, <2>3
<1>4. 0 .. n \subseteq T
  <2> HIDE DEF T, n, First
  <2>1. QED BY <1>1, <1>2, <1>3, IntervalInduction
<1>5. First(n) = t OBVIOUS
<1>6. n \in 0 .. n BY <1>1
<1>7. QED BY <1>4, <1>5, <1>6

----------------------------------------------------------------------------
(* FlattenSeq.                                                               *)

\* f[k] is the first k of the n sequences in one.
Joins(f, seqs, n) ==
  f[0] = <<>> /\ \A k \in 0 .. n - 1 : f[k + 1] = f[k] \o seqs[k + 1]

LEMMA FlattenSteps ==
  ASSUME NEW W, NEW seqs \in Seq(Seq(W)), NEW n \in Nat, n = Len(seqs)
  PROVE  \E f \in [0 .. n -> Seq(W)] : Joins(f, seqs, n) /\ FlattenSeq(seqs) = f[n]
<1> DEFINE V == Seq(W)
           step == [x \in (0 .. n - 1) \X V |-> x[2] \o seqs[x[1] + 1]]
           Solves(f) == f = [i \in 1 .. n |->
                               IF i = 1 THEN seqs[i] ELSE f[i - 1] \o seqs[i]]
           flatten == CHOOSE f : Solves(f)
<1>1. \A k \in 0 .. n - 1 : seqs[k + 1] \in Seq(W)
  BY ElementOfSeq
<1>2. step \in [(0 .. n - 1) \X V -> V] /\ <<>> \in V BY <1>1
<1>3. PICK h \in [0 .. n -> V] : Joins(h, seqs, n)
  <2>1. PICK h \in [0 .. n -> V] : Recurs(h, n, <<>>, step)
    <3> HIDE DEF V, step
    <3>1. QED BY <1>2, Recursion
  <2>2. ASSUME NEW k \in 0 .. n - 1 PROVE h[k + 1] = h[k] \o seqs[k + 1]
    <3>1. <<k, h[k]>> \in (0 .. n - 1) \X V BY <2>1
    <3>2. step[<<k, h[k]>>] = h[k] \o seqs[k + 1] BY <3>1
    <3> HIDE DEF step
    <3>3. QED BY <2>1, <3>2 DEF Recurs
  <2>3. QED BY <2>1, <2>2 DEF Joins, Recurs
<1>4. ASSUME 0 < n PROVE h[1] = seqs[1]
  <2>1. PICK z \in 0 .. n - 1 : z = 0 /\ z + 1 = 1 BY <1>4
  <2>2. h[z + 1] = h[z] \o seqs[z + 1] /\ seqs[z + 1] \in Seq(W)
    BY <1>1, <1>3 DEF Joins
  <2>3. h[1] = <<>> \o seqs[1] /\ seqs[1] \in Seq(W) BY <1>3, <2>1, <2>2 DEF Joins
  <2>4. QED BY <2>3, ConcatEmptySeq
<1>5. Solves([k \in 1 .. n |-> h[k]])
  <2> DEFINE f == [k \in 1 .. n |-> h[k]]
  <2>1. ASSUME NEW k \in 1 .. n
        PROVE  f[k] = IF k = 1 THEN seqs[k] ELSE f[k - 1] \o seqs[k]
    <3>1. CASE k = 1 BY <1>4, <3>1
    <3>2. CASE k # 1
      <4>1. PICK j \in 0 .. n - 1 : k = j + 1 /\ j = k - 1 /\ j # 0
        <5>1. k - 1 \in 0 .. n - 1 /\ k = (k - 1) + 1 /\ k - 1 # 0 BY <3>2
        <5>2. QED BY <5>1
      <4>2. f[k] = h[j + 1] /\ f[k - 1] = h[j] BY <4>1
      <4>3. h[j + 1] = h[j] \o seqs[j + 1] BY <1>3, <4>1 DEF Joins
      <4> HIDE DEF f
      <4>4. QED BY <3>2, <4>1, <4>2, <4>3
    <3>3. QED BY <3>1, <3>2
  <2>2. f = [k \in 1 .. n |-> f[k]] OBVIOUS
  <2> HIDE DEF f
  <2>3. f = [k \in 1 .. n |-> IF k = 1 THEN seqs[k] ELSE f[k - 1] \o seqs[k]]
    BY <2>1, <2>2, Zenon
  <2>4. QED BY <2>3 DEF f
<1>6. Solves(flatten)
  <2> HIDE DEF Solves
  <2>1. QED BY <1>5, Zenon
<1>7. PICK g : Solves(g) /\ g = flatten BY <1>6, Zenon
<1> HIDE DEF flatten
<1>8. ASSUME 0 < n PROVE g[n] = h[n]
  <2> DEFINE S == {k \in 0 .. n : k = 0 \/ g[k] = h[k]}
  <2>1. 0 \in S OBVIOUS
  <2>2. ASSUME NEW k \in 0 .. n - 1, k \in S PROVE k + 1 \in S
    <3>1. k + 1 \in 1 .. n /\ (k + 1) - 1 = k OBVIOUS
    <3>2. g[k + 1] = IF k + 1 = 1 THEN seqs[k + 1] ELSE g[k] \o seqs[k + 1]
      BY <1>7, <3>1
    <3>3. h[k + 1] = h[k] \o seqs[k + 1] BY <1>3 DEF Joins
    <3>4. g[k + 1] = h[k + 1]
      <4>1. CASE k = 0
        <5>1. k + 1 = 1 BY <4>1
        <5>2. QED BY <1>4, <1>8, <3>2, <5>1
      <4>2. CASE k # 0
        <5>1. k + 1 # 1 BY <4>2
        <5>2. g[k] = h[k] BY <2>2, <4>2
        <5>3. QED BY <3>2, <3>3, <5>1, <5>2
      <4>3. QED BY <4>1, <4>2
    <3>5. QED BY <3>1, <3>4
  <2>3. 0 .. n \subseteq S
    <3> HIDE DEF S
    <3>1. QED BY <2>1, <2>2, IntervalInduction
  <2>4. n \in 0 .. n /\ n # 0 BY <1>8
  <2>5. QED BY <2>3, <2>4
<1>9. FlattenSeq(seqs) = IF n = 0 THEN seqs ELSE g[n]
  <2>1. FlattenSeq(seqs) = IF n = 0 THEN seqs ELSE flatten[n]
    BY DEF FlattenSeq, flatten
  <2>2. QED BY <1>7, <2>1
<1>10. FlattenSeq(seqs) = h[n]
  <2>1. n = 0 => seqs = <<>> BY EmptySeq
  <2>2. h[0] = <<>> BY <1>3 DEF Joins
  <2>3. QED BY <1>8, <1>9, <2>1, <2>2
<1>11. QED BY <1>3, <1>10

LEMMA FlattenType ==
  ASSUME NEW W, NEW seqs \in Seq(Seq(W))
  PROVE  FlattenSeq(seqs) \in Seq(W)
<1>1. Len(seqs) \in Nat OBVIOUS
<1>2. PICK f \in [0 .. Len(seqs) -> Seq(W)] : FlattenSeq(seqs) = f[Len(seqs)]
  BY FlattenSteps
<1>3. QED BY <1>1, <1>2

LEMMA FlattenNone == FlattenSeq(<<>>) = <<>>
BY DEF FlattenSeq

LEMMA FlattenAppend ==
  ASSUME NEW W, NEW seqs \in Seq(Seq(W)), NEW last \in Seq(W)
  PROVE  FlattenSeq(Append(seqs, last)) = FlattenSeq(seqs) \o last
<1>1. PICK n \in Nat : n = Len(seqs) OBVIOUS
<1>2. PICK longer : longer = Append(seqs, last) OBVIOUS
<1>3. /\ longer \in Seq(Seq(W)) /\ n + 1 = Len(longer)
      /\ longer[n + 1] = last /\ \A k \in 0 .. n - 1 : longer[k + 1] = seqs[k + 1]
  BY <1>1, <1>2, AppendProperties
<1>4. PICK f \in [0 .. n -> Seq(W)] : Joins(f, seqs, n) /\ FlattenSeq(seqs) = f[n]
  BY <1>1, FlattenSteps
<1>5. PICK g \in [0 .. n + 1 -> Seq(W)] :
        Joins(g, longer, n + 1) /\ FlattenSeq(longer) = g[n + 1]
  <2>1. PICK m \in Nat : m = n + 1 OBVIOUS
  <2>2. \E g \in [0 .. m -> Seq(W)] : Joins(g, longer, m) /\ FlattenSeq(longer) = g[m]
    BY <1>3, <2>1, FlattenSteps
  <2>3. QED BY <2>1, <2>2
<1> DEFINE S == {k \in 0 .. n : f[k] = g[k]}
<1>6. 0 \in S BY <1>4, <1>5 DEF Joins
<1>7. ASSUME NEW k \in 0 .. n - 1, k \in S PROVE k + 1 \in S
  <2>1. f[k + 1] = f[k] \o seqs[k + 1] BY <1>4 DEF Joins
  <2>2. k \in 0 .. (n + 1) - 1 OBVIOUS
  <2>3. g[k + 1] = g[k] \o longer[k + 1] BY <1>5, <2>2 DEF Joins
  <2>4. f[k + 1] = g[k + 1] BY <1>3, <1>7, <2>1, <2>3
  <2>5. QED BY <2>4
<1>8. 0 .. n \subseteq S
  <2> HIDE DEF S
  <2>1. QED BY <1>6, <1>7, IntervalInduction
<1>9. f[n] = g[n]
  <2>1. n \in 0 .. n BY <1>1
  <2>2. QED BY <1>8, <2>1
<1>10. g[n + 1] = g[n] \o last
  <2>1. n \in 0 .. (n + 1) - 1 BY <1>1
  <2>2. g[n + 1] = g[n] \o longer[n + 1] BY <1>5, <2>1 DEF Joins
  <2>3. QED BY <1>3, <2>2
<1>11. QED BY <1>2, <1>4, <1>5, <1>9, <1>10

LEMMA FlattenConcat ==
  ASSUME NEW W, NEW s \in Seq(Seq(W)), NEW t \in Seq(Seq(W))
  PROVE  FlattenSeq(s \o t) = FlattenSeq(s) \o FlattenSeq(t)
<1> DEFINE S == {u \in Seq(Seq(W)) :
                   FlattenSeq(s \o u) = FlattenSeq(s) \o FlattenSeq(u)}
<1>1. FlattenSeq(s) \in Seq(W) BY FlattenType
<1>2. <<>> \in S
  <2>1. s \o <<>> = s /\ <<>> \in Seq(Seq(W)) BY ConcatEmptySeq
  <2>2. FlattenSeq(s) \o <<>> = FlattenSeq(s) BY <1>1, ConcatEmptySeq
  <2>3. QED BY <2>1, <2>2, FlattenNone
<1>3. ASSUME NEW u \in Seq(Seq(W)), NEW e \in Seq(W), u \in S
      PROVE  Append(u, e) \in S
  <2>1. s \o u \in Seq(Seq(W)) /\ FlattenSeq(u) \in Seq(W)
    BY FlattenType, ConcatProperties
  <2>2. s \o Append(u, e) = Append(s \o u, e) OBVIOUS
  <2>3. /\ FlattenSeq(Append(u, e)) = FlattenSeq(u) \o e
        /\ FlattenSeq(Append(s \o u, e)) = FlattenSeq(s \o u) \o e
    BY <2>1, FlattenAppend
  <2>4. (FlattenSeq(s) \o FlattenSeq(u)) \o e
          = FlattenSeq(s) \o (FlattenSeq(u) \o e)
    BY <1>1, <2>1, ConcatAssociative, SMTT(30)
  <2>5. Append(u, e) \in Seq(Seq(W)) BY AppendProperties
  <2>6. QED BY <1>3, <2>2, <2>3, <2>4, <2>5
<1>4. Seq(Seq(W)) \subseteq S
  <2> HIDE DEF S
  <2>1. QED BY <1>2, <1>3, SeqInduction
<1>5. QED BY <1>4

LEMMA FlattenOne ==
  ASSUME NEW W, NEW s \in Seq(W)
  PROVE  FlattenSeq(<<s>>) = s
<1>1. <<>> \in Seq(Seq(W)) /\ Append(<<>>, s) = <<s>> OBVIOUS
<1>2. FlattenSeq(<<s>>) = <<>> \o s BY <1>1, FlattenAppend, FlattenNone
<1>3. QED BY <1>2, ConcatEmptySeq

----------------------------------------------------------------------------
(* Positions.                                                                *)

LEMMA MinExists ==
  ASSUME NEW n \in Nat, NEW I, I \subseteq 1 .. n, I # {}
  PROVE  Min(I) \in I
<1> DEFINE S == {k \in 0 .. n : \A j \in I : j > k}
<1>1. SUFFICES ASSUME \A i \in I : \E j \in I : j < i PROVE FALSE
  <2>1. \A i, j \in I : ~(j < i) => i =< j OBVIOUS
  <2>2. (\E i \in I : \A j \in I : i =< j) => Min(I) \in I
    BY DEF Min
  <2>3. QED BY <2>1, <2>2
<1>2. 0 \in S OBVIOUS
<1>3. ASSUME NEW k \in 0 .. n - 1, k \in S PROVE k + 1 \in S
  <2>1. k + 1 \notin I BY <1>1, <1>3
  <2>2. \A j \in I : j > k + 1 BY <1>3, <2>1
  <2>3. QED BY <2>2
<1>4. 0 .. n \subseteq S
  <2> HIDE DEF S
  <2>1. QED BY <1>2, <1>3, IntervalInduction
<1>5. n \in 0 .. n OBVIOUS
<1>6. PICK i \in I : i \in 1 .. n OBVIOUS
<1>7. i > n BY <1>4, <1>5
<1>8. QED BY <1>6, <1>7

LEMMA MaxExists ==
  ASSUME NEW n \in Nat, NEW I, I \subseteq 1 .. n, I # {}
  PROVE  Max(I) \in I
<1> DEFINE S == {k \in 0 .. n : \A j \in I : j =< n - k}
<1>1. SUFFICES ASSUME \A i \in I : \E j \in I : j > i PROVE FALSE
  <2>1. \A i, j \in I : ~(j > i) => i >= j OBVIOUS
  <2>2. (\E i \in I : \A j \in I : i >= j) => Max(I) \in I
    BY DEF Max
  <2>3. QED BY <2>1, <2>2
<1>2. 0 \in S OBVIOUS
<1>3. ASSUME NEW k \in 0 .. n - 1, k \in S PROVE k + 1 \in S
  <2>1. n - k \notin I BY <1>1, <1>3
  <2>2. \A j \in I : j =< n - (k + 1) BY <1>3, <2>1
  <2>3. QED BY <2>2
<1>4. 0 .. n \subseteq S
  <2> HIDE DEF S
  <2>1. QED BY <1>2, <1>3, IntervalInduction
<1>5. n \in 0 .. n /\ n - n = 0 OBVIOUS
<1>6. PICK i \in I : i \in 1 .. n OBVIOUS
<1>7. i =< 0 BY <1>4, <1>5
<1>8. QED BY <1>6, <1>7

\* FirstOf and LastOf find the character, if anything.
LEMMA FirstFound ==
  ASSUME NEW W, NEW line \in Seq(W), NEW c
  PROVE  \/ FirstOf(c, line) = 0
         \/ FirstOf(c, line) \in 1 .. Len(line) /\ line[FirstOf(c, line)] = c
<1> DEFINE I == {i \in 1 .. Len(line) : line[i] = c}
<1>1. FirstOf(c, line) = IF I # {} THEN Min(I) ELSE 0
  BY DEF FirstOf, SelectInSeq
<1>2. I # {} => Min(I) \in I
  <2>1. Len(line) \in Nat /\ I \subseteq 1 .. Len(line) OBVIOUS
  <2> HIDE DEF I
  <2>2. QED BY <2>1, MinExists
<1>3. QED BY <1>1, <1>2

LEMMA LastFound ==
  ASSUME NEW W, NEW line \in Seq(W), NEW c, NEW end \in 0 .. Len(line)
  PROVE  \/ LastOf(c, line, end) = 0
         \/ LastOf(c, line, end) \in 1 .. end /\ line[LastOf(c, line, end)] = c
<1> DEFINE I == {i \in 1 .. end : line[i] = c}
<1>1. LastOf(c, line, end) = IF I # {} THEN Max(I) ELSE 0
  BY DEF LastOf, SelectLastInSubSeq
<1>2. I # {} => Max(I) \in I
  <2>1. end \in Nat /\ I \subseteq 1 .. end OBVIOUS
  <2> HIDE DEF I
  <2>2. QED BY <2>1, MaxExists
<1>3. QED BY <1>1, <1>2

----------------------------------------------------------------------------
(* The stack dump.                                                           *)

Words == STRING
Line == Seq(Words)

PlainWords(text) == [i \in 1 .. Len(text) |-> PlainWord(text[i])]

LEMMA PlainWordType ==
  ASSUME NEW word \in Words
  PROVE  PlainWord(word) \in Line
<1>1. Mangled \in Words BY MessageAssumption DEF Words
<1>2. <<>> \in Line /\ <<word>> \in Line /\ <<Mangled>> \in Line
  BY <1>1 DEF Line
<1>3. CASE word \in {"(", ")"} BY <1>2, <1>3 DEF PlainWord
<1>4. CASE word \notin {"(", ")"} /\ word = Demangled
  BY <1>2, <1>4 DEF PlainWord
<1>5. CASE word \notin {"(", ")"} /\ word # Demangled
  BY <1>2, <1>5 DEF PlainWord
<1>6. QED BY <1>3, <1>4, <1>5

LEMMA PlainWordsType ==
  ASSUME NEW text \in Line
  PROVE  /\ PlainWords(text) \in Seq(Line)
         /\ Len(PlainWords(text)) = Len(text)
         /\ \A i \in 1 .. Len(text) : PlainWords(text)[i] = PlainWord(text[i])
<1>1. \A i \in 1 .. Len(text) : PlainWord(text[i]) \in Line
  BY PlainWordType, ElementOfSeq DEF Line
<1>2. Len(text) \in Nat BY DEF Line
<1>3. QED BY <1>1, <1>2 DEF PlainWords

LEMMA PlainType ==
  ASSUME NEW text \in Line
  PROVE  Plain(text) \in Line
<1>1. FlattenSeq(PlainWords(text)) \in Line
  BY PlainWordsType, FlattenType DEF Line
<1>2. QED BY <1>1 DEF Plain, PlainWords

LEMMA PlainConcat ==
  ASSUME NEW s \in Line, NEW t \in Line
  PROVE  Plain(s \o t) = Plain(s) \o Plain(t)
<1>1. s \o t \in Line BY ConcatProperties DEF Line
<1>2. PlainWords(s \o t) = PlainWords(s) \o PlainWords(t)
  <2> DEFINE u == PlainWords(s \o t)
             v == PlainWords(s) \o PlainWords(t)
  <2>1. /\ Len(s) \in Nat /\ Len(t) \in Nat /\ Len(s \o t) = Len(s) + Len(t)
        /\ \A i \in 1 .. Len(s) + Len(t) :
             (s \o t)[i] = IF i <= Len(s) THEN s[i] ELSE t[i - Len(s)]
    BY ConcatProperties DEF Line
  <2>2. /\ u \in Seq(Line) /\ Len(u) = Len(s) + Len(t)
        /\ \A i \in 1 .. Len(s) + Len(t) : u[i] = PlainWord((s \o t)[i])
    BY <1>1, <2>1, PlainWordsType
  <2>3. /\ v \in Seq(Line) /\ Len(v) = Len(s) + Len(t)
        /\ \A i \in 1 .. Len(s) + Len(t) :
             v[i] = IF i <= Len(s) THEN PlainWords(s)[i]
                    ELSE PlainWords(t)[i - Len(s)]
    <3>1. /\ PlainWords(s) \in Seq(Line) /\ Len(PlainWords(s)) = Len(s)
          /\ PlainWords(t) \in Seq(Line) /\ Len(PlainWords(t)) = Len(t)
      BY PlainWordsType
    <3> HIDE DEF PlainWords
    <3>2. /\ v \in Seq(Line) /\ Len(v) = Len(PlainWords(s)) + Len(PlainWords(t))
          /\ \A i \in 1 .. Len(PlainWords(s)) + Len(PlainWords(t)) :
               v[i] = IF i <= Len(PlainWords(s)) THEN PlainWords(s)[i]
                      ELSE PlainWords(t)[i - Len(PlainWords(s))]
      BY <3>1, ConcatProperties
    <3> HIDE DEF v
    <3>3. QED BY <3>1, <3>2
  <2> HIDE DEF u, v
  <2>4. ASSUME NEW i \in 1 .. Len(s) + Len(t) PROVE u[i] = v[i]
    <3>1. CASE i <= Len(s)
      <4>1. i \in 1 .. Len(s) BY <2>1, <3>1
      <4>2. QED BY <2>1, <2>2, <2>3, <3>1, <4>1, PlainWordsType
    <3>2. CASE ~(i <= Len(s))
      <4>1. i - Len(s) \in 1 .. Len(t) BY <2>1, <3>2
      <4>2. QED BY <2>1, <2>2, <2>3, <3>2, <4>1, PlainWordsType
    <3>3. QED BY <3>1, <3>2
  <2>5. u = v BY <2>2, <2>3, <2>4, SeqEqual
  <2>6. QED BY <2>5 DEF u, v
<1>3. FlattenSeq(PlainWords(s) \o PlainWords(t))
        = FlattenSeq(PlainWords(s)) \o FlattenSeq(PlainWords(t))
  BY PlainWordsType, FlattenConcat DEF Line
<1>4. QED BY <1>2, <1>3 DEF Plain, PlainWords

LEMMA PlainOne ==
  ASSUME NEW word \in Words
  PROVE  Plain(<<word>>) = PlainWord(word)
<1>1. PlainWords(<<word>>) = <<PlainWord(word)>>
  <2>1. /\ <<word>> \in Line /\ Len(<<word>>) = 1 /\ <<word>>[1] = word
        /\ <<PlainWord(word)>> \in Seq(Line) /\ 1 \in 1 .. 1
    <3>1. PlainWord(word) \in Line BY PlainWordType
    <3>2. <<word>> \in Line BY DEF Line
    <3>3. <<PlainWord(word)>> \in Seq(Line) BY <3>1
    <3>4. QED BY <3>2, <3>3
  <2>2. /\ PlainWords(<<word>>) \in Seq(Line) /\ Len(PlainWords(<<word>>)) = 1
        /\ PlainWords(<<word>>)[1] = PlainWord(word)
    BY <2>1, PlainWordsType
  <2>3. QED BY <2>1, <2>2
<1>2. FlattenSeq(<<PlainWord(word)>>) = PlainWord(word)
  BY PlainWordType, FlattenOne DEF Line
<1>3. QED BY <1>1, <1>2 DEF Plain, PlainWords

\* A piece of a line.
LEMMA PieceType ==
  ASSUME NEW line \in Line, NEW m \in 1 .. Len(line) + 1, NEW n \in 0 .. Len(line)
  PROVE  SubSeq(line, m, n) \in Line
<1>1. \A i \in m .. n : line[i] \in Words BY ElementOfSeq DEF Line
<1>2. QED BY <1>1, SubSeqProperties DEF Line

\* A character between two pieces.
LEMMA Cut ==
  ASSUME NEW line \in Line, NEW m \in 1 .. Len(line), NEW k \in m .. Len(line),
         NEW n \in k .. Len(line)
  PROVE  SubSeq(line, m, n)
           = (SubSeq(line, m, k - 1) \o <<line[k]>>) \o SubSeq(line, k + 1, n)
<1>1. Len(line) \in Nat BY DEF Line
<1>2. SubSeq(line, m, k) = SubSeq(line, m, k - 1) \o <<line[k]>>
  BY SubSeqRecursiveSecond DEF Line
<1>3. SubSeq(line, m, k) \o SubSeq(line, k + 1, n) = SubSeq(line, m, n)
  <2>1. m \in 1 .. Len(line) + 1 /\ k \in m - 1 .. Len(line) BY <1>1
  <2>2. QED BY <2>1, ConcatAdjacentSubSeq DEF Line
<1>4. QED BY <1>2, <1>3

\* So its plain text is that of the pieces, if the character is a parenthesis.
LEMMA PlainCut ==
  ASSUME NEW line \in Line, NEW m \in 1 .. Len(line), NEW k \in m .. Len(line),
         NEW n \in k .. Len(line), line[k] \in {"(", ")"}
  PROVE  Plain(SubSeq(line, m, n))
           = Plain(SubSeq(line, m, k - 1)) \o Plain(SubSeq(line, k + 1, n))
<1>1. Len(line) \in Nat /\ line[k] \in Words BY ElementOfSeq DEF Line
<1>2. PICK s : s = SubSeq(line, m, k - 1) OBVIOUS
<1>3. PICK t : t = SubSeq(line, k + 1, n) OBVIOUS
<1>4. s \in Line /\ t \in Line
  <2>1. /\ m \in 1 .. Len(line) + 1 /\ k - 1 \in 0 .. Len(line)
        /\ k + 1 \in 1 .. Len(line) + 1 /\ n \in 0 .. Len(line)
    BY <1>1
  <2>2. QED BY <1>2, <1>3, <2>1, PieceType
<1>5. PICK c : c = <<line[k]>> OBVIOUS
<1>6. c \in Line BY <1>1, <1>5 DEF Line
<1>7. Plain(c) = <<>>
  <2>1. line[k] # Demangled BY MessageAssumption
  <2>2. PlainWord(line[k]) = <<>> BY <2>1 DEF PlainWord
  <2>3. QED BY <1>1, <1>5, <2>2, PlainOne
<1>8. Plain(s \o c) = Plain(s)
  <2>1. Plain(s \o c) = Plain(s) \o <<>> BY <1>4, <1>6, <1>7, PlainConcat
  <2>2. QED BY <1>4, <2>1, PlainType, ConcatEmptySeq DEF Line
<1>9. s \o c \in Line BY <1>4, <1>6, ConcatProperties DEF Line
<1>10. Plain((s \o c) \o t) = Plain(s) \o Plain(t)
  BY <1>4, <1>8, <1>9, PlainConcat
<1>11. QED BY <1>2, <1>3, <1>5, <1>10, Cut

\* FrameText takes the parentheses out of a line and puts another name for a
\* name, whatever the line looks like.
LEMMA FrameKept ==
  ASSUME NEW line \in Line
  PROVE  FrameText(line) \in Line /\ Plain(FrameText(line)) = Plain(line)
<1> DEFINE close == FirstOf(")", line)
           open == LastOf("(", line, close)
           plus == LastOf("+", line, close)
           end == Len(line)
           pre == SubSeq(line, 1, open - 1)
           name == SubSeq(line, open + 1, plus - 1)
           demangled == IF name = <<Mangled>> THEN <<Demangled>> ELSE name
           offset == SubSeq(line, plus, close - 1)
           rest == SubSeq(line, close + 1, Len(line))
<1>1. end \in Nat BY DEF Line
<1>2. close = 0 \/ (close \in 1 .. end /\ line[close] = ")")
  BY FirstFound DEF Line
<1>3. close \in 0 .. end BY <1>1, <1>2
<1>4. /\ open = 0 \/ (open \in 1 .. close /\ line[open] = "(")
      /\ plus = 0 \/ (plus \in 1 .. close /\ line[plus] = "+")
  <2> HIDE DEF close
  <2>1. QED BY <1>3, LastFound DEF Line
<1> HIDE DEF close, open, plus
<1>5. FrameText(line)
        = IF 0 \in {close, open} \/ plus < open THEN line
          ELSE pre \o demangled \o offset \o rest
  BY DEF FrameText, FrameSplit, close, open, plus
<1>6. CASE 0 \in {close, open} \/ plus < open BY <1>5, <1>6
<1>7. CASE ~(0 \in {close, open} \/ plus < open)
  <2>1. /\ close \in 1 .. end /\ line[close] = ")"
        /\ open \in 1 .. close /\ line[open] = "("
        /\ plus \in 1 .. close /\ line[plus] = "+"
        /\ open <= plus
    BY <1>1, <1>2, <1>4, <1>7
  <2>2. open # plus /\ plus # close /\ open # close
    BY <2>1
  <2>3. open < plus /\ plus < close BY <1>1, <2>1, <2>2
  <2>4. /\ open - 1 \in 0 .. end /\ open + 1 \in 1 .. end + 1
        /\ plus - 1 \in 0 .. end /\ plus \in 1 .. end + 1
        /\ close - 1 \in 0 .. end /\ close + 1 \in 1 .. end + 1
    BY <1>1, <2>1, <2>3
  <2>5. /\ pre \in Line /\ name \in Line /\ offset \in Line /\ rest \in Line
    <3>1. 1 \in 1 .. end + 1 /\ end \in 0 .. end BY <1>1
    <3>2. QED BY <2>4, <3>1, PieceType
  <2>6. demangled \in Line /\ Plain(demangled) = Plain(name)
    <3>1. /\ Mangled \in Words /\ Demangled \in Words
          /\ Mangled \notin {"(", ")"} /\ Demangled \notin {"(", ")"}
      BY MessageAssumption DEF Words
    <3>2. <<Demangled>> \in Line BY <3>1 DEF Line
    <3>3. PlainWord(Mangled) = PlainWord(Demangled) BY <3>1 DEF PlainWord
    <3>4. Plain(<<Mangled>>) = Plain(<<Demangled>>) BY <3>1, <3>3, PlainOne
    <3> HIDE DEF name
    <3>5. QED BY <2>5, <3>2, <3>4
  <2>7. Plain(line) = Plain(pre) \o Plain(SubSeq(line, open + 1, end))
    <3>1. SubSeq(line, 1, end) = line BY SubSeqFull DEF Line
    <3>2. 1 \in 1 .. end /\ open \in 1 .. end /\ end \in open .. end
      BY <1>1, <2>1
    <3>3. QED BY <2>1, <3>1, <3>2, PlainCut, ZenonT(30)
  <2>8. Plain(SubSeq(line, open + 1, end))
          = Plain(SubSeq(line, open + 1, close - 1)) \o Plain(rest)
    <3>1. /\ open + 1 \in 1 .. end /\ close \in open + 1 .. end
          /\ end \in close .. end
      BY <1>1, <2>1, <2>3
    <3>2. QED BY <2>1, <3>1, PlainCut
  <2>9. SubSeq(line, open + 1, close - 1) = name \o offset
    <3>1. /\ open + 1 \in 1 .. end + 1
          /\ plus - 1 \in (open + 1) - 1 .. end
          /\ close - 1 \in plus - 1 .. end
          /\ (plus - 1) + 1 = plus
      BY <1>1, <2>1, <2>3
    <3>2. QED BY <3>1, ConcatAdjacentSubSeq DEF Line
  <2> HIDE DEF pre, name, demangled, offset, rest
  <2>10. /\ pre \o demangled \in Line
         /\ (pre \o demangled) \o offset \in Line
         /\ ((pre \o demangled) \o offset) \o rest \in Line
    BY <2>5, <2>6, ConcatProperties DEF Line
  <2>11. Plain(((pre \o demangled) \o offset) \o rest)
           = ((Plain(pre) \o Plain(name)) \o Plain(offset)) \o Plain(rest)
    <3>1. Plain(pre \o demangled) = Plain(pre) \o Plain(name)
      BY <2>5, <2>6, PlainConcat, ZenonT(30)
    <3>2. Plain((pre \o demangled) \o offset)
            = Plain(pre \o demangled) \o Plain(offset)
      BY <2>5, <2>10, PlainConcat
    <3>3. Plain(((pre \o demangled) \o offset) \o rest)
            = Plain((pre \o demangled) \o offset) \o Plain(rest)
      BY <2>5, <2>10, PlainConcat
    <3>4. QED BY <3>1, <3>2, <3>3
  <2>12. Plain(line)
           = Plain(pre) \o ((Plain(name) \o Plain(offset)) \o Plain(rest))
    BY <2>5, <2>7, <2>8, <2>9, PlainConcat
  <2>13. /\ Plain(pre) \in Line /\ Plain(name) \in Line
         /\ Plain(offset) \in Line /\ Plain(rest) \in Line
    BY <2>5, PlainType
  <2>14. Plain(((pre \o demangled) \o offset) \o rest) = Plain(line)
    <3>1. PICK a \in Line, b \in Line, c \in Line, d \in Line :
            a = Plain(pre) /\ b = Plain(name) /\ c = Plain(offset) /\ d = Plain(rest)
      BY <2>13
    <3>2. PICK e : e = b \o c OBVIOUS
    <3>3. e \in Line BY <3>2, ConcatProperties DEF Line
    <3>4. (a \o b) \o c = a \o e BY <3>2, ConcatAssociative, SMTT(30) DEF Line
    <3>5. (a \o e) \o d = a \o (e \o d) BY <3>3, ConcatAssociative, SMTT(30) DEF Line
    <3>6. QED BY <2>11, <2>12, <3>1, <3>2, <3>4, <3>5
  <2>15. QED BY <1>5, <1>7, <2>10, <2>14
<1>8. QED BY <1>6, <1>7

\* Plain texts may be joined before or after.
LEMMA PlainFlatten ==
  ASSUME NEW lines \in Seq(Line)
  PROVE  /\ [i \in 1 .. Len(lines) |-> Plain(lines[i])] \in Seq(Line)
         /\ Plain(FlattenSeq(lines))
              = FlattenSeq([i \in 1 .. Len(lines) |-> Plain(lines[i])])
<1> DEFINE All(u) == [i \in 1 .. Len(u) |-> Plain(u[i])]
           S == {u \in Seq(Line) : /\ All(u) \in Seq(Line)
                                   /\ Plain(FlattenSeq(u)) = FlattenSeq(All(u))}
<1>1. <<>> \in S
  <2>1. All(<<>>) = <<>> /\ <<>> \in Seq(Line) /\ Plain(<<>>) = <<>>
    BY FlattenNone DEF Plain
  <2>2. QED BY <2>1, FlattenNone
<1>2. ASSUME NEW u \in Seq(Line), NEW e \in Line, u \in S
      PROVE  Append(u, e) \in S
  <2>1. Append(u, e) \in Seq(Line) /\ Plain(e) \in Line
    BY PlainType, AppendProperties
  <2>2. All(Append(u, e)) = Append(All(u), Plain(e)) OBVIOUS
  <2> HIDE DEF All
  <2>3. FlattenSeq(u) \in Line BY FlattenType DEF Line
  <2>4. FlattenSeq(Append(u, e)) = FlattenSeq(u) \o e
    BY FlattenAppend DEF Line
  <2>5. Plain(FlattenSeq(Append(u, e))) = Plain(FlattenSeq(u)) \o Plain(e)
    BY <2>3, <2>4, PlainConcat
  <2>6. FlattenSeq(Append(All(u), Plain(e))) = FlattenSeq(All(u)) \o Plain(e)
    BY <1>2, <2>1, FlattenAppend DEF Line
  <2>7. Append(All(u), Plain(e)) \in Seq(Line)
    BY <1>2, <2>1, AppendProperties
  <2>8. QED BY <1>2, <2>1, <2>2, <2>5, <2>6, <2>7
<1>3. Seq(Line) \subseteq S
  <2> HIDE DEF S
  <2>1. QED BY <1>1, <1>2, SeqInduction
<1>4. lines \in S BY <1>3
<1>5. QED BY <1>4

\* The dump of any stack loses nothing of any frame but stackdump's own.
LEMMA DumpKept ==
  ASSUME NEW frames \in Seq(Line), frames # <<>>
  PROVE  Plain(stackdump(<<>>, frames)) = Plain(FlattenSeq(Tail(frames)))
<1> DEFINE n == Len(frames) - 1
           shown == [i \in 1 .. n |-> FrameText(frames[i + 1])]
           tail == Tail(frames)
<1>1. n \in Nat BY EmptySeq
<1>2. /\ tail \in Seq(Line) /\ Len(tail) = n
      /\ \A i \in 1 .. n : tail[i] = frames[i + 1]
  BY HeadTailProperties
<1>3. \A i \in 1 .. n : /\ FrameText(frames[i + 1]) \in Line
                       /\ Plain(FrameText(frames[i + 1])) = Plain(tail[i])
  <2>1. \A i \in 1 .. n : tail[i] \in Line BY <1>1, <1>2, ElementOfSeq
  <2>2. QED BY <1>2, <2>1, FrameKept
<1>4. /\ shown \in Seq(Line) /\ Len(shown) = n
      /\ \A i \in 1 .. n : shown[i] = FrameText(frames[i + 1])
  BY <1>1, <1>3
<1>5. [i \in 1 .. Len(shown) |-> Plain(shown[i])]
        = [i \in 1 .. Len(tail) |-> Plain(tail[i])]
  BY <1>2, <1>3, <1>4
<1>6. stackdump(<<>>, frames) = FlattenSeq(shown) BY DEF stackdump
<1> HIDE DEF shown, tail
<1>7. Plain(FlattenSeq(shown)) = Plain(FlattenSeq(tail))
  BY <1>2, <1>4, <1>5, PlainFlatten
<1>8. QED BY <1>6, <1>7 DEF tail

LEMMA StackType ==
  ASSUME NEW stack \in Stacks
  PROVE  stack.frames \in Seq(Line) \ {<<>>}
<1>1. Frames \subseteq Seq(Line) \ {<<>>} /\ Lines \subseteq Line
  BY MessageAssumption DEF Line, Words
<1>2. \A l \in Line : <<l, l>> \in Seq(Line) \ {<<>>} OBVIOUS
<1>3. QED BY <1>1, <1>2 DEF Stacks

\* No frame of the stack but stackdump's own is missing in a dump, nor any part
\* of its line, whatever it looks like and however many frames there are
\* (crashhandler_unix.cpp stackdump).
THEOREM FramesKeptHolds ==
  ASSUME subject \in Subjects \cup {Nothing}
  PROVE  FramesKept
<1>1. ASSUME subject.kind = "stack" PROVE subject \in Stacks
  BY <1>1 DEF Subjects, Reports, Prints, Nothing
<1>2. QED BY <1>1, StackType, DumpKept DEF FramesKept

----------------------------------------------------------------------------
(* printf-like entries.                                                      *)

\* A printf-like entry is what was written, or a beginning of it with the mark
\* that it was cut, for every text and every size of the buffer; but for one of
\* exactly that length (logcapture.cpp capturef).
THEOREM CutIsMarkedHolds ==
  ASSUME subject \in Subjects \cup {Nothing}
  PROVE  CutIsMarked
<1> SUFFICES ASSUME subject.kind = "print" PROVE CutIsMarked
  BY DEF CutIsMarked
<1>1. subject \in Prints
  BY DEF Subjects, Reports, Stacks, Nothing
<1>2. PICK text \in Seq(Words), size \in Nat \ {0} :
        text # <<>> /\ text = subject.text /\ size = subject.size
  BY <1>1, MessageAssumption DEF Prints, Words
<1>3. Len(text) \in Nat \ {0} BY <1>2, EmptySeq
<1>4. CASE Len(text) > size
  <2>1. size - 1 \in 0 .. Len(text) - 1 BY <1>2, <1>3, <1>4
  <2>2. capturef(text, size) = SubSeq(text, 1, size - 1) \o <<Truncated>>
    <3>1. Written(text, size) = SubSeq(text, 1, size - 1)
      BY <1>2, <1>3, <1>4 DEF Written
    <3>2. capturef(text, size) = Written(text, size) \o <<Truncated>>
      BY <1>2, <1>4 DEF capturef
    <3>3. QED BY <3>1, <3>2
  <2>3. QED BY <1>2, <2>1, <2>2 DEF CutIsMarked
<1>5. CASE Len(text) < size
  <2>1. SubSeq(text, 1, Len(text)) = text BY SubSeqFull
  <2>2. capturef(text, size) = text
    <3>1. Written(text, size) = text
      BY <1>2, <1>3, <1>5, <2>1 DEF Written
    <3>2. ~(Len(text) > size) BY <1>2, <1>3, <1>5
    <3>3. QED BY <1>2, <3>1, <3>2 DEF capturef
  <2>3. QED BY <1>2, <2>2 DEF CutIsMarked
<1>6. CASE Len(text) = size
  <2>1. capturef(text, size) = SubSeq(text, 1, Len(text) - 1)
    <3>1. Written(text, size) = SubSeq(text, 1, Len(text) - 1)
      BY <1>2, <1>3, <1>6 DEF Written
    <3>2. ~(Len(text) > size) BY <1>2, <1>3, <1>6
    <3>3. QED BY <1>2, <3>1, <3>2 DEF capturef
  <2>2. Front(text) = SubSeq(text, 1, Len(text) - 1) BY DEF Front
  <2>3. QED BY <1>2, <1>6, <2>1, <2>2 DEF CutIsMarked
<1>7. QED BY <1>2, <1>3, <1>4, <1>5, <1>6

----------------------------------------------------------------------------
(* Parts of a text.                                                          *)

\* part is in the text and ends at e, from p on.
Between(text, part, p, e) ==
  p + Len(part) <= e /\ part = SubSeq(text, e - Len(part) + 1, e)

\* The parts are in the text, the k-th of them ending at at[k].
Placed(at, text, parts) ==
  /\ at \in [0 .. Len(parts) -> 0 .. Len(text)]
  /\ at[0] = 0
  /\ \A k \in 0 .. Len(parts) - 1 :
       Between(text, parts[k + 1], at[k], at[k + 1])
Says(text, parts) == \E at : Placed(at, text, parts)

\* g is the recursion of SaysInOrder.
EndsAt(g, text, parts, n) ==
  /\ g[0] = {0}
  /\ \A k \in 0 .. n - 1 : g[k + 1] = EndsOf(text, parts[k + 1], g[k])

LEMMA EndsDefined ==
  ASSUME NEW W, NEW text \in Seq(W), NEW parts \in Seq(Seq(W)),
         NEW n \in Nat, n = Len(parts)
  PROVE  \E g : /\ EndsAt(g, text, parts, n)
                /\ SaysInOrder(text, parts) <=> g[n] # {}
<1> DEFINE V == SUBSET (0 .. Len(text))
           step == [x \in (0 .. n - 1) \X V |-> EndsOf(text, parts[x[1] + 1], x[2])]
           Solves(f) == f = [k \in 0 .. n |->
                 IF k = 0 THEN {0} ELSE EndsOf(text, parts[k], f[k - 1])]
           ends == CHOOSE f : Solves(f)
<1>1. step \in [(0 .. n - 1) \X V -> V] BY DEF EndsOf
<1>2. {0} \in V OBVIOUS
<1>3. PICK h \in [0 .. n -> V] : Recurs(h, n, {0}, step)
  <2> HIDE DEF V, step
  <2>1. QED BY <1>1, <1>2, Recursion
<1>4. ASSUME NEW k \in 0 .. n - 1 PROVE h[k + 1] = EndsOf(text, parts[k + 1], h[k])
  <2>1. <<k, h[k]>> \in (0 .. n - 1) \X V BY <1>3
  <2>2. step[<<k, h[k]>>] = EndsOf(text, parts[k + 1], h[k]) BY <2>1
  <2> HIDE DEF step
  <2>3. QED BY <1>3, <2>2 DEF Recurs
<1>5. Solves(h)
  <2>1. ASSUME NEW k \in 0 .. n
        PROVE  h[k] = IF k = 0 THEN {0} ELSE EndsOf(text, parts[k], h[k - 1])
    <3>1. CASE k = 0 BY <1>3, <3>1 DEF Recurs
    <3>2. CASE k # 0
      <4>1. PICK j \in 0 .. n - 1 : k = j + 1 /\ j = k - 1
        <5>1. k - 1 \in 0 .. n - 1 /\ k = (k - 1) + 1 BY <3>2
        <5>2. QED BY <5>1
      <4>2. h[j + 1] = EndsOf(text, parts[j + 1], h[j]) BY <1>4
      <4>3. QED BY <3>2, <4>1, <4>2
    <3>3. QED BY <3>1, <3>2
  <2>2. h = [k \in 0 .. n |-> h[k]] BY <1>3
  <2>3. QED BY <2>1, <2>2, Zenon
<1>6. Solves(ends)
  <2> HIDE DEF Solves
  <2>1. QED BY <1>5, Zenon
<1>7. PICK g : Solves(g) /\ g = ends BY <1>6, Zenon
<1> HIDE DEF ends
<1>8. g[0] = {0} BY <1>7
<1>9. ASSUME NEW k \in 0 .. n - 1 PROVE g[k + 1] = EndsOf(text, parts[k + 1], g[k])
  <2>1. k + 1 \in 0 .. n /\ k + 1 # 0 /\ (k + 1) - 1 = k OBVIOUS
  <2>2. QED BY <1>7, <2>1
<1>10. SaysInOrder(text, parts) <=> g[n] # {}
  <2>1. SaysInOrder(text, parts) <=> ends[n] # {} BY DEF SaysInOrder, ends
  <2>2. QED BY <1>7, <2>1
<1>11. QED BY <1>8, <1>9, <1>10 DEF EndsAt

\* SaysInOrder finds the parts wherever they are.
LEMMA SaysFound ==
  ASSUME NEW W, NEW text \in Seq(W), NEW parts \in Seq(Seq(W)), Says(text, parts)
  PROVE  SaysInOrder(text, parts)
<1>1. PICK n \in Nat : n = Len(parts) OBVIOUS
<1>2. PICK at : Placed(at, text, parts) BY DEF Says
<1>3. PICK g : /\ EndsAt(g, text, parts, n)
               /\ SaysInOrder(text, parts) <=> g[n] # {}
  BY <1>1, EndsDefined
<1> DEFINE S == {k \in 0 .. n : at[k] \in g[k]}
<1>4. 0 \in S BY <1>1, <1>2, <1>3 DEF Placed, EndsAt
<1>5. ASSUME NEW k \in 0 .. n - 1, k \in S PROVE k + 1 \in S
  <2>1. k + 1 \in 0 .. n /\ at[k + 1] \in 0 .. Len(text)
    BY <1>1, <1>2 DEF Placed
  <2>2. Between(text, parts[k + 1], at[k], at[k + 1]) BY <1>1, <1>2 DEF Placed
  <2>3. at[k] \in g[k] BY <1>5
  <2>4. at[k + 1] \in EndsOf(text, parts[k + 1], g[k])
    BY <2>1, <2>2, <2>3 DEF EndsOf, Between
  <2>5. QED BY <1>3, <2>1, <2>4 DEF EndsAt
<1>6. 0 .. n \subseteq S
  <2> HIDE DEF S
  <2>1. QED BY <1>4, <1>5, IntervalInduction
<1>7. n \in 0 .. n OBVIOUS
<1>8. QED BY <1>3, <1>6, <1>7

LEMMA SaysNothing ==
  ASSUME NEW W, NEW text \in Seq(W)
  PROVE  Says(text, <<>>)
<1>1. Placed([k \in 0 .. 0 |-> 0], text, <<>>)
  BY DEF Placed
<1>2. QED BY <1>1 DEF Says

LEMMA SaysItself ==
  ASSUME NEW W, NEW text \in Seq(W)
  PROVE  Says(text, <<text>>)
<1>1. Len(<<text>>) = 1 /\ <<text>>[1] = text OBVIOUS
<1>2. Len(text) \in Nat OBVIOUS
<1> DEFINE at == [k \in 0 .. 1 |-> IF k = 0 THEN 0 ELSE Len(text)]
<1>3. at \in [0 .. 1 -> 0 .. Len(text)] /\ at[0] = 0 /\ at[1] = Len(text)
  BY <1>2
<1>4. Between(text, text, 0, Len(text))
  <2>1. SubSeq(text, 1, Len(text)) = text BY SubSeqFull
  <2>2. Len(text) - Len(text) + 1 = 1 /\ 0 + Len(text) <= Len(text) BY <1>2
  <2>3. QED BY <2>1, <2>2 DEF Between
<1> HIDE DEF at
<1>5. ASSUME NEW k \in 0 .. 1 - 1
      PROVE  Between(text, <<text>>[k + 1], at[k], at[k + 1])
  <2>1. k = 0 /\ k + 1 = 1 OBVIOUS
  <2>2. QED BY <1>1, <1>3, <1>4, <2>1
<1>6. Placed(at, text, <<text>>) BY <1>1, <1>3, <1>5 DEF Placed
<1>7. QED BY <1>6 DEF Says

\* What is between two positions stays there when text is added in front or
\* behind.
LEMMA BetweenBefore ==
  ASSUME NEW W, NEW text \in Seq(W), NEW more \in Seq(W), NEW part \in Seq(W),
         NEW p \in 0 .. Len(text), NEW e \in 0 .. Len(text),
         Between(text, part, p, e)
  PROVE  Between(text \o more, part, p, e)
<1>1. /\ Len(text) \in Nat /\ Len(part) \in Nat
      /\ p + Len(part) <= e
  BY DEF Between
<1>2. SubSeq(text, e - Len(part) + 1, e) = SubSeq(text \o more, e - Len(part) + 1, e)
  <2>1. PICK m \in 1 .. e + 1 : m = e - Len(part) + 1
    <3>1. e - Len(part) + 1 \in 1 .. e + 1 BY <1>1
    <3>2. QED BY <3>1
  <2>2. CASE m = e + 1
    <3>1. e < m BY <2>2
    <3>2. QED BY <2>1, <3>1, SubSeqEmpty
  <2>3. CASE m # e + 1
    <3>1. m \in 1 .. Len(text) /\ e \in 1 .. Len(text) BY <1>1, <2>1, <2>3
    <3>2. QED BY <2>1, <3>1, SubSeqOfConcat1
  <2>4. QED BY <2>2, <2>3
<1>3. QED BY <1>2 DEF Between

LEMMA BetweenBehind ==
  ASSUME NEW W, NEW text \in Seq(W), NEW more \in Seq(W), NEW part \in Seq(W),
         NEW p \in 0 .. Len(more), NEW e \in 0 .. Len(more),
         Between(more, part, p, e)
  PROVE  Between(text \o more, part, Len(text) + p, Len(text) + e)
<1>1. PICK l \in Nat : l = Len(text) OBVIOUS
<1>2. PICK s \in Nat : s = Len(part) OBVIOUS
<1>3. Len(more) \in Nat OBVIOUS
<1>4. p + s <= e BY <1>2 DEF Between
<1>5. SubSeq(more, e - s + 1, e) = SubSeq(text \o more, (l + e) - s + 1, l + e)
  <2>1. PICK m \in 1 .. e + 1 : m = e - s + 1
    <3>1. e - s + 1 \in 1 .. e + 1 BY <1>3, <1>4
    <3>2. QED BY <3>1
  <2>2. (l + e) - s + 1 = l + m BY <1>3, <2>1
  <2>3. CASE m = e + 1
    <3>1. e < m /\ l + e < l + m /\ l + e \in Int /\ l + m \in Int BY <1>3, <2>3
    <3>2. QED BY <2>1, <2>2, <3>1, SubSeqEmpty
  <2>4. CASE m # e + 1
    <3>1. /\ l + m \in Len(text) + 1 .. Len(text) + Len(more)
          /\ l + e \in Len(text) + 1 .. Len(text) + Len(more)
          /\ (l + m) - Len(text) = m /\ (l + e) - Len(text) = e
      BY <1>1, <1>3, <2>1, <2>4
    <3>2. SubSeq(text \o more, l + m, l + e)
            = SubSeq(more, (l + m) - Len(text), (l + e) - Len(text))
      BY <3>1, SubSeqOfConcat2
    <3>3. QED BY <2>1, <2>2, <3>1, <3>2
  <2>5. QED BY <2>3, <2>4
<1>6. (l + p) + s <= l + e BY <1>3, <1>4
<1>7. QED BY <1>1, <1>2, <1>5, <1>6 DEF Between

\* Two texts say one after the other what each of them says.
LEMMA SaysBoth ==
  ASSUME NEW W, NEW text \in Seq(W), NEW parts \in Seq(Seq(W)), Says(text, parts),
         NEW more \in Seq(W), NEW others \in Seq(Seq(W)), Says(more, others)
  PROVE  Says(text \o more, parts \o others)
<1>1. PICK n \in Nat : n = Len(parts) OBVIOUS
<1>2. PICK m \in Nat : m = Len(others) OBVIOUS
<1>3. PICK l \in Nat : l = Len(text) OBVIOUS
<1>4. PICK r \in Nat : r = Len(more) OBVIOUS
<1>5. PICK f \in [0 .. n -> 0 .. l] : Placed(f, text, parts)
  BY <1>1, <1>3 DEF Says, Placed
<1>6. PICK g \in [0 .. m -> 0 .. r] : Placed(g, more, others)
  BY <1>2, <1>4 DEF Says, Placed
<1>7. PICK both : both = text \o more OBVIOUS
<1>8. PICK all : all = parts \o others OBVIOUS
<1>9. both \in Seq(W) /\ Len(both) = l + r
  BY <1>3, <1>4, <1>7, ConcatProperties
<1>10. /\ all \in Seq(Seq(W)) /\ Len(all) = n + m
       /\ \A k \in 1 .. n + m : all[k] = IF k <= n THEN parts[k] ELSE others[k - n]
  BY <1>1, <1>2, <1>8, ConcatProperties
<1> DEFINE at == [k \in 0 .. n + m |-> IF k <= n THEN f[k] ELSE l + g[k - n]]
<1>11. at \in [0 .. n + m -> 0 .. l + r]
  <2>1. ASSUME NEW k \in 0 .. n + m, ~(k <= n) PROVE k - n \in 0 .. m
    BY <1>1, <1>2, <2>1
  <2>2. ASSUME NEW k \in 0 .. n + m
        PROVE  (IF k <= n THEN f[k] ELSE l + g[k - n]) \in 0 .. l + r
    <3>1. CASE k <= n
      <4>1. k \in 0 .. n BY <1>1, <1>2, <3>1
      <4>2. f[k] \in 0 .. l BY <1>5, <4>1
      <4>3. QED BY <1>3, <1>4, <3>1, <4>2
    <3>2. CASE ~(k <= n)
      <4>1. PICK x \in 0 .. r : x = g[k - n] BY <1>6, <2>1, <3>2
      <4>2. l + x \in 0 .. l + r BY <1>3, <1>4, <4>1, SMTT(30)
      <4>3. QED BY <3>2, <4>1, <4>2
    <3>3. QED BY <3>1, <3>2
  <2>3. QED BY <2>2
<1>12. at[0] = 0 BY <1>5 DEF Placed
<1>13. ASSUME NEW k \in 0 .. n + m - 1
       PROVE  Between(both, all[k + 1], at[k], at[k + 1])
  <2>1. CASE k < n
    <3>1. k \in 0 .. n - 1 /\ k + 1 \in 1 .. n + m /\ k + 1 <= n BY <1>1, <1>2, <2>1
    <3>2. at[k] = f[k] /\ at[k + 1] = f[k + 1] /\ all[k + 1] = parts[k + 1]
      BY <1>1, <1>2, <1>10, <3>1
    <3>3. f[k] \in 0 .. l /\ f[k + 1] \in 0 .. l /\ parts[k + 1] \in Seq(W)
      <4>1. k + 1 \in 1 .. Len(parts) /\ k \in 0 .. n /\ k + 1 \in 0 .. n
        BY <1>1, <3>1
      <4>2. QED BY <1>5, <4>1, ElementOfSeq
    <3>4. Between(text, parts[k + 1], f[k], f[k + 1])
      BY <1>1, <1>5, <3>1 DEF Placed
    <3> HIDE DEF at
    <3>5. QED BY <1>3, <1>7, <3>2, <3>3, <3>4, BetweenBefore
  <2>2. CASE ~(k < n)
    <3>1. PICK j \in 0 .. m - 1 : j = k - n /\ j + 1 = (k + 1) - n /\ j + 1 \in 1 .. m
      <4>1. k - n \in 0 .. m - 1 /\ (k - n) + 1 = (k + 1) - n BY <1>1, <1>2, <2>2
      <4>2. QED BY <4>1
    <3>2. k + 1 \in 1 .. n + m /\ ~(k + 1 <= n) BY <1>1, <1>2, <2>2
    <3>3. at[k + 1] = l + g[j + 1] /\ all[k + 1] = others[j + 1]
      <4>1. k + 1 \in 0 .. n + m BY <1>1, <1>2, <3>2
      <4>2. at[k + 1] = l + g[(k + 1) - n] BY <3>2, <4>1
      <4> HIDE DEF at
      <4>3. QED BY <1>10, <3>1, <3>2, <4>2
    <3>4. g[j] \in 0 .. r /\ g[j + 1] \in 0 .. r /\ others[j + 1] \in Seq(W)
      <4>1. j + 1 \in 1 .. Len(others) /\ j \in 0 .. m /\ j + 1 \in 0 .. m
        BY <1>2, <3>1
      <4>2. QED BY <1>6, <4>1, ElementOfSeq
    <3>5. Between(more, others[j + 1], g[j], g[j + 1])
      BY <1>2, <1>6, <3>1 DEF Placed
    <3>6. Between(both, others[j + 1], l + g[j], l + g[j + 1])
      BY <1>3, <1>4, <1>7, <3>4, <3>5, BetweenBehind
    <3>7. CASE k # n
      <4>1. at[k] = l + g[j] BY <1>1, <1>2, <2>2, <3>1, <3>7
      <4> HIDE DEF at
      <4>2. QED BY <3>3, <3>6, <4>1
    <3>8. CASE k = n
      <4>1. at[k] = f[n] /\ n \in 0 .. n BY <1>1, <1>2, <3>8
      <4>2. Len(others[j + 1]) \in Nat /\ g[j + 1] \in 0 .. r BY <3>4
      <4> HIDE DEF at
      <4>3. at[k] \in 0 .. l /\ g[j] \in 0 .. r BY <1>5, <3>4, <4>1
      <4>5. at[k] <= l + g[j] BY <1>3, <1>4, <4>3
      <4>6. l + g[j] + Len(others[j + 1]) <= l + g[j + 1] BY <3>6 DEF Between
      <4>7. at[k] + Len(others[j + 1]) <= l + g[j + 1]
        <5>1. \A a, b, c, s \in Int : a <= b /\ b + s <= c => a + s <= c
          OBVIOUS
        <5>2. at[k] \in Int BY <1>3, <4>3
        <5>3. l + g[j] \in Int BY <1>3, <1>4, <4>3
        <5>4. l + g[j + 1] \in Int BY <1>3, <1>4, <4>2
        <5>5. Len(others[j + 1]) \in Int BY <4>2
        <5>6. QED BY <4>5, <4>6, <5>1, <5>2, <5>3, <5>4, <5>5
      <4>8. QED BY <3>3, <3>6, <4>7 DEF Between
    <3>9. QED BY <3>7, <3>8
  <2>3. QED BY <2>1, <2>2
<1> HIDE DEF at
<1>14. Placed(at, both, all) BY <1>1, <1>2, <1>9, <1>10, <1>11, <1>12, <1>13 DEF Placed
<1>15. QED BY <1>7, <1>8, <1>14 DEF Says

----------------------------------------------------------------------------
(* What the texts of messages say.                                           *)

\* Short sequences, whatever is in them.
LEMMA Tuples ==
  ASSUME NEW a, NEW b, NEW c
  PROVE  /\ Append(<<a>>, b) = <<a, b>>
         /\ Append(<<a, b>>, c) = <<a, b, c>>
         /\ <<a>> \o <<b>> = <<a, b>>
         /\ <<a>> \o <<b, c>> = <<a, b, c>>
<1>1. PICK W : a \in W /\ b \in W /\ c \in W
  <2>1. \E W : W = {a, b, c} OBVIOUS
  <2>2. QED BY <2>1
<1>2. /\ <<a>> \in Seq(W) /\ <<a, b>> \in Seq(W) /\ <<a, b, c>> \in Seq(W)
      /\ <<b>> \in Seq(W) /\ <<b, c>> \in Seq(W)
  BY <1>1
<1>3. Append(<<a>>, b) = <<a, b>>
  <2>1. /\ Append(<<a>>, b) \in Seq(W) /\ Len(Append(<<a>>, b)) = 2
        /\ Append(<<a>>, b)[1] = a /\ Append(<<a>>, b)[2] = b
    BY <1>1, <1>2, AppendProperties
  <2>2. /\ <<a, b>> \in Seq(W) /\ Len(<<a, b>>) = 2
        /\ <<a, b>>[1] = a /\ <<a, b>>[2] = b
    BY <1>1, <1>2
  <2>3. \A i \in 1 .. 2 : i = 1 \/ i = 2 OBVIOUS
  <2>4. QED BY <2>1, <2>2, <2>3, SeqEqual
<1>4. Append(<<a, b>>, c) = <<a, b, c>>
  <2>1. /\ Append(<<a, b>>, c) \in Seq(W) /\ Len(Append(<<a, b>>, c)) = 3
        /\ Append(<<a, b>>, c)[1] = a /\ Append(<<a, b>>, c)[2] = b
        /\ Append(<<a, b>>, c)[3] = c
    BY <1>1, <1>2, AppendProperties
  <2>2. /\ <<a, b, c>> \in Seq(W) /\ Len(<<a, b, c>>) = 3
        /\ <<a, b, c>>[1] = a /\ <<a, b, c>>[2] = b /\ <<a, b, c>>[3] = c
    BY <1>1, <1>2
  <2>3. \A i \in 1 .. 3 : i = 1 \/ i = 2 \/ i = 3 OBVIOUS
  <2>4. QED BY <2>1, <2>2, <2>3, SeqEqual
<1>5. <<a>> \o <<b>> = <<a, b>>
  <2>1. <<a>> \o <<b>> = Append(<<a>>, b) BY <1>1, <1>2
  <2>2. QED BY <1>3, <2>1
<1>6. <<a>> \o <<b, c>> = <<a, b, c>>
  <2>1. <<a>> \o <<b, c>> = Append(Append(<<a>>, b), c) BY <1>1, <1>2
  <2>2. QED BY <1>3, <1>4, <2>1
<1>7. QED BY <1>3, <1>4, <1>5, <1>6

LEMMA Quadruple ==
  ASSUME NEW a, NEW b, NEW c, NEW d
  PROVE  Append(<<a, b, c>>, d) = <<a, b, c, d>>
<1>1. PICK W : a \in W /\ b \in W /\ c \in W /\ d \in W
  <2>1. \E W : W = {a, b, c, d} OBVIOUS
  <2>2. QED BY <2>1
<1>2. <<a, b, c>> \in Seq(W) /\ <<a, b, c, d>> \in Seq(W) BY <1>1
<1>3. /\ Append(<<a, b, c>>, d) \in Seq(W) /\ Len(Append(<<a, b, c>>, d)) = 4
      /\ Append(<<a, b, c>>, d)[1] = a /\ Append(<<a, b, c>>, d)[2] = b
      /\ Append(<<a, b, c>>, d)[3] = c /\ Append(<<a, b, c>>, d)[4] = d
  BY <1>1, <1>2, AppendProperties
<1>4. /\ <<a, b, c, d>> \in Seq(W) /\ Len(<<a, b, c, d>>) = 4
      /\ <<a, b, c, d>>[1] = a /\ <<a, b, c, d>>[2] = b
      /\ <<a, b, c, d>>[3] = c /\ <<a, b, c, d>>[4] = d
  BY <1>1, <1>2
<1>5. \A i \in 1 .. 4 : i = 1 \/ i = 2 \/ i = 3 \/ i = 4 OBVIOUS
<1>6. QED BY <1>3, <1>4, <1>5, SeqEqual

\* The wording of the layouts; the provers do not take a literal for a STRING.
Wording ==
  {"time", "thread", "letter of", "FATAL SIGNAL RECEIVED",
   "EXIT trigger caused by LOG(FATAL) entry",
   "EXIT trigger caused by broken Contract",
   "UNKNOWN or Custom made Log Message Type", "STACKDUMP", "recursive crash",
   "first", "Exiting after fatal event", "UNKNOWN SIGNAL",
   "Received fatal signal", "function", "text", "expression",
   "YELLOW", "GREEN", "RED", "WHITE", "SIGABRT"}
Shown == Words \cup Wording \cup {LevelText(level) : level \in Nat}
Text == Seq(Shown)

\* The text says the parts; both are made of words and of levels.
Tells(text, parts) == text \in Text /\ parts \in Seq(Text) /\ Says(text, parts)

LEMMA TellsFound ==
  ASSUME NEW text, NEW parts, Tells(text, parts)
  PROVE  SaysInOrder(text, parts)
BY SaysFound DEF Tells, Text

LEMMA TellsBoth ==
  ASSUME NEW text, NEW parts, Tells(text, parts),
         NEW more, NEW others, Tells(more, others)
  PROVE  Tells(text \o more, parts \o others)
<1>1. /\ text \in Text /\ parts \in Seq(Text) /\ Says(text, parts)
      /\ more \in Text /\ others \in Seq(Text) /\ Says(more, others)
  BY DEF Tells
<1>2. text \o more \in Text /\ parts \o others \in Seq(Text)
  BY <1>1, ConcatProperties DEF Text
<1>3. Says(text \o more, parts \o others) BY <1>1, SaysBoth DEF Text
<1>4. QED BY <1>2, <1>3 DEF Tells

LEMMA TellsItself ==
  ASSUME NEW text \in Text
  PROVE  Tells(text, <<text>>)
<1>1. Says(text, <<text>>) BY SaysItself DEF Text
<1>2. QED BY <1>1 DEF Tells

LEMMA TellsNothing ==
  ASSUME NEW text \in Text
  PROVE  Tells(text, <<>>)
<1>1. Says(text, <<>>) BY SaysNothing DEF Text
<1>2. QED BY <1>1 DEF Tells

\* More text may say one part more, or nothing.
LEMMA TellsPart ==
  ASSUME NEW text, NEW parts, Tells(text, parts), NEW part \in Text
  PROVE  Tells(text \o part, Append(parts, part))
<1>1. Tells(text \o part, parts \o <<part>>) BY TellsBoth, TellsItself
<1>2. parts \o <<part>> = Append(parts, part) BY DEF Tells
<1>3. QED BY <1>1, <1>2

LEMMA TellsSkip ==
  ASSUME NEW text, NEW parts, Tells(text, parts), NEW more \in Text
  PROVE  Tells(text \o more, parts)
<1>1. Tells(text \o more, parts \o <<>>) BY TellsBoth, TellsNothing
<1>2. parts \o <<>> = parts BY ConcatEmptySeq DEF Tells
<1>3. QED BY <1>1, <1>2

\* An empty part is said anywhere.
LEMMA TellsEmpty ==
  ASSUME NEW text, NEW parts, Tells(text, parts)
  PROVE  Tells(text, Append(parts, <<>>))
<1>1. <<>> \in Text BY DEF Text
<1>2. Tells(text \o <<>>, Append(parts, <<>>)) BY <1>1, TellsPart
<1>3. text \o <<>> = text BY ConcatEmptySeq DEF Tells, Text
<1>4. QED BY <1>2, <1>3

\* Words are texts.
LEMMA LinesAreTexts == Line \subseteq Text
<1> SUFFICES ASSUME NEW line \in Line PROVE line \in Text OBVIOUS
<1>1. \A i \in 1 .. Len(line) : line[i] \in Shown
  BY ElementOfSeq DEF Line, Shown
<1>2. Len(line) \in Nat /\ line = [i \in 1 .. Len(line) |-> line[i]] BY DEF Line
<1>3. QED BY <1>1, <1>2 DEF Text

LEMMA WordsAreTexts ==
  /\ <<>> \in Text
  /\ \A a \in Shown : <<a>> \in Text
  /\ \A a, b \in Shown : <<a, b>> \in Text
  /\ \A a, b, c \in Shown : <<a, b, c>> \in Text
BY DEF Text

\* A message and what it is made of.
Message(details, file, path, function, level, expression, message) ==
  [details |-> details, timestamp |-> "time", file |-> file,
   file_path |-> path, function |-> function, level |-> level,
   expression |-> expression, message |-> message]

LEMMA LevelShown ==
  ASSUME NEW level \in Nat
  PROVE  LevelText(level) \in Shown
BY DEF Shown

LEMMA WordingShown == Wording \subseteq Shown
BY DEF Shown

LEMMA ColorShown ==
  ASSUME NEW level \in Nat
  PROVE  GetColor(level) \in Shown
<1>1. CASE level = 500 BY <1>1, WordingShown, ZenonT(30) DEF GetColor, Wording, wasFatal, Fatal
<1>2. CASE level = 100 BY <1>2, WordingShown, ZenonT(30) DEF GetColor, Wording, wasFatal, Fatal
<1>3. CASE level = 800 \/ wasFatal(level)
  BY <1>3, WordingShown, ZenonT(30) DEF GetColor, Wording, wasFatal, Fatal
<1>4. CASE ~(level \in {100, 500, 800} \/ wasFatal(level))
  BY <1>4, WordingShown, ZenonT(30) DEF GetColor, Wording, wasFatal, Fatal
<1>5. QED BY <1>1, <1>2, <1>3, <1>4

\* The details say the time, the file and the function, in both layouts.
LEMMA DefaultDetails ==
  ASSUME NEW msg, NEW file \in Text, NEW function \in Text, NEW level \in Nat,
         msg.timestamp = "time", msg.file = file, msg.function = function,
         msg.level = level
  PROVE  Tells(DefaultLogDetailsToString(msg), <<<<"time">>, file, function>>)
<1>1. PICK t : t = <<"time">> OBVIOUS
<1>2. PICK s : s = <<"letter of", LevelText(level)>> OBVIOUS
<1>3. t \in Text /\ s \in Text
  <2>1. "time" \in Shown /\ "thread" \in Shown /\ "letter of" \in Shown
    BY WordingShown DEF Wording
  <2>2. QED BY <1>1, <1>2, <2>1, LevelShown, WordsAreTexts
<1>4. Tells(s \o t, <<t>>)
  <2>1. Tells(s \o t, <<>> \o <<t>>) BY <1>3, TellsBoth, TellsNothing, TellsItself
  <2>2. <<>> \o <<t>> = <<t>> OBVIOUS
  <2>3. QED BY <2>1, <2>2
<1>5. Tells((s \o t) \o file, <<t, file>>)
  <2>1. Tells((s \o t) \o file, Append(<<t>>, file)) BY <1>4, TellsPart
  <2>2. Append(<<t>>, file) = <<t, file>> BY Tuples
  <2>3. QED BY <2>1, <2>2, Zenon
<1>6. Tells(((s \o t) \o file) \o function, <<t, file, function>>)
  <2>1. Tells(((s \o t) \o file) \o function, Append(<<t, file>>, function))
    BY <1>5, TellsPart
  <2>2. Append(<<t, file>>, function) = <<t, file, function>> BY Tuples
  <2>3. QED BY <2>1, <2>2, Zenon
<1>7. DefaultLogDetailsToString(msg) = ((s \o t) \o file) \o function
  BY <1>1, <1>2 DEF DefaultLogDetailsToString, shortLevel
<1>8. QED BY <1>1, <1>6, <1>7

LEMMA FullDetails ==
  ASSUME NEW msg, NEW file \in Text, NEW function \in Text, NEW level \in Nat,
         msg.timestamp = "time", msg.file = file, msg.function = function,
         msg.level = level
  PROVE  Tells(FullLogDetailsToString(msg), <<<<"time">>, file, function>>)
<1>1. PICK t : t = <<"time">> OBVIOUS
<1>2. PICK s : s = <<LevelText(level), "thread">> OBVIOUS
<1>3. t \in Text /\ s \in Text
  <2>1. "time" \in Shown /\ "thread" \in Shown /\ "letter of" \in Shown
    BY WordingShown DEF Wording
  <2>2. QED BY <1>1, <1>2, <2>1, LevelShown, WordsAreTexts
<1>4. Tells(t \o s, <<t>>) BY <1>3, TellsItself, TellsSkip
<1>5. Tells((t \o s) \o file, <<t, file>>)
  <2>1. Tells((t \o s) \o file, Append(<<t>>, file)) BY <1>4, TellsPart
  <2>2. Append(<<t>>, file) = <<t, file>> BY Tuples
  <2>3. QED BY <2>1, <2>2, Zenon
<1>6. Tells(((t \o s) \o file) \o function, <<t, file, function>>)
  <2>1. Tells(((t \o s) \o file) \o function, Append(<<t, file>>, function))
    BY <1>5, TellsPart
  <2>2. Append(<<t, file>>, function) = <<t, file, function>> BY Tuples
  <2>3. QED BY <2>1, <2>2, Zenon
<1>7. t \o s = <<"time", LevelText(level), "thread">>
  BY <1>1, <1>2, Tuples
<1>8. FullLogDetailsToString(msg) = ((t \o s) \o file) \o function
  BY <1>7 DEF FullLogDetailsToString
<1>9. QED BY <1>1, <1>6, <1>8

LEMMA DetailsTell ==
  ASSUME NEW msg, NEW file \in Text, NEW function \in Text, NEW level \in Nat,
         msg.timestamp = "time", msg.file = file, msg.function = function,
         msg.level = level
  PROVE  Tells(Details(msg), <<<<"time">>, file, function>>)
BY DefaultDetails, FullDetails DEF Details

\* Every layout says what the details and the message say, and an expression
\* where there is one.  Only a signal's message has no place, and it has none.
LEMMA LayoutTells ==
  ASSUME NEW details, NEW file \in Text, NEW path, NEW function \in Text,
         NEW level \in Nat, NEW expression \in Text, NEW message, NEW parts,
         NEW func,
         level # FatalException,
         level = FatalSignal => file = <<>> /\ function = <<>>,
         level # Contract => expression = <<>>,
         Tells(message, parts)
  PROVE  Tells(toString(Message(details, file, path, function, level,
                                expression, message), func),
               <<<<"time">>, file, function, expression>> \o parts)
<1> DEFINE msg == Message(func, file, path, function, level, expression, message)
           given == Message(details, file, path, function, level, expression,
                            message)
           place == <<<<"time">>, file, function>>
           said == <<<<"time">>, file, function, expression>>
<1>1. /\ msg = [given EXCEPT !.details = func]
      /\ msg.timestamp = "time" /\ msg.file = file /\ msg.function = function
      /\ msg.level = level /\ msg.expression = expression /\ msg.message = message
  BY DEF Message
<1> HIDE DEF msg, given
<1>0. /\ Fatal = 1000 /\ Contract = 2000
      /\ FatalSignal = 2001 /\ FatalException = 2002
  BY DEF Fatal, Contract, FatalSignal, FatalException
<1>2. Tells(Details(msg), place) BY <1>1, DetailsTell
<1>3. said = Append(place, expression) BY Quadruple
<1>4. ASSUME expression = <<>> PROVE Tells(Details(msg), said)
  BY <1>2, <1>3, <1>4, TellsEmpty
<1>5. CASE ~wasFatal(level)
  <2>1. toString(given, func) = Details(msg) \o message
    BY <1>0, <1>1, <1>5, SMTT(30) DEF toString, normalToString, wasFatal
  <2>2. level # Contract BY <1>5 DEF wasFatal, Contract, Fatal
  <2>3. QED BY <1>4, <2>1, <2>2, TellsBoth DEF given
<1>6. CASE wasFatal(level) /\ level = FatalSignal
  <2>1. PICK t : t = <<"time">> OBVIOUS
  <2>2. PICK s : s = <<"FATAL SIGNAL RECEIVED">> OBVIOUS
  <2>3. t \in Text /\ s \in Text
    <3>1. "time" \in Shown /\ "FATAL SIGNAL RECEIVED" \in Shown
      BY WordingShown DEF Wording
    <3>2. QED BY <2>1, <2>2, <3>1, WordsAreTexts
  <2>4. toString(given, func) = (t \o s) \o message
    <3>1. t \o s = <<"time", "FATAL SIGNAL RECEIVED">>
      BY <2>1, <2>2, Tuples
    <3>2. toString(given, func) = fatalSignalToString(msg)
      BY <1>0, <1>1, <1>6 DEF toString, wasFatal
    <3>3. QED BY <1>1, <3>1, <3>2 DEF fatalSignalToString
  <2>5. Tells(t \o s, <<t>>) BY <2>3, TellsItself, TellsSkip
  <2>6. expression = <<>> /\ file = <<>> /\ function = <<>>
    BY <1>6 DEF FatalSignal, Contract
  <2>7. Tells(t \o s, Append(<<t>>, file)) BY <2>5, <2>6, TellsEmpty
  <2>8. Tells(t \o s, Append(<<t, file>>, function))
    <3>1. Append(<<t>>, file) = <<t, file>> BY Tuples
    <3>2. QED BY <2>6, <2>7, <3>1, TellsEmpty
  <2>9. Tells(t \o s, said)
    <3>1. Append(<<t, file>>, function) = place BY <2>1, Tuples
    <3>2. QED BY <1>3, <2>6, <2>8, <3>1, TellsEmpty
  <2>10. QED BY <2>4, <2>9, TellsBoth DEF given
<1>7. CASE wasFatal(level) /\ level # FatalSignal /\ level = Fatal
  <2>1. PICK s : s = <<"EXIT trigger caused by LOG(FATAL) entry">> OBVIOUS
  <2>2. s \in Text BY <2>1, WordingShown, WordsAreTexts DEF Wording
  <2>3. toString(given, func) = (Details(msg) \o s) \o message
    <3>1. toString(given, func) = fatalLogToString(msg)
      BY <1>0, <1>1, <1>7 DEF toString, wasFatal
    <3>2. QED BY <1>1, <2>1, <3>1 DEF fatalLogToString
  <2>4. level # Contract BY <1>7 DEF Contract, Fatal
  <2>5. Tells(Details(msg) \o s, said) BY <1>4, <2>2, <2>4, TellsSkip
  <2>6. QED BY <2>3, <2>5, TellsBoth DEF given
<1>8. CASE wasFatal(level) /\ level # FatalSignal /\ level # Fatal /\ level = Contract
  <2>1. PICK s : s = <<"EXIT trigger caused by broken Contract">> OBVIOUS
  <2>2. s \in Text BY <2>1, WordingShown, WordsAreTexts DEF Wording
  <2>3. toString(given, func) = ((Details(msg) \o s) \o expression) \o message
    BY <1>1, <1>8, <2>1 DEF toString, fatalCheckToString
  <2>4. Tells(Details(msg) \o s, place) BY <1>2, <2>2, TellsSkip
  <2>5. Tells((Details(msg) \o s) \o expression, said)
    BY <1>3, <2>4, TellsPart
  <2>6. QED BY <2>3, <2>5, TellsBoth DEF given
<1>9. CASE wasFatal(level) /\ level # FatalSignal /\ level # Fatal /\ level # Contract
  <2>1. PICK s : s = <<"UNKNOWN or Custom made Log Message Type">> OBVIOUS
  <2>2. s \in Text BY <2>1, WordingShown, WordsAreTexts DEF Wording
  <2>3. toString(given, func) = (Details(msg) \o s) \o message
    BY <1>1, <1>9, <2>1 DEF toString, fatalCustomToString
  <2>4. Tells(Details(msg) \o s, said) BY <1>4, <1>9, <2>2, TellsSkip
  <2>5. QED BY <2>3, <2>4, TellsBoth DEF given
<1>10. QED BY <1>5, <1>6, <1>7, <1>8, <1>9

\* The name of a file.
LEMMA FileNameType ==
  ASSUME NEW path \in Line
  PROVE  splitFileName(path) \in Line /\ (path = <<>> => splitFileName(path) = <<>>)
<1> DEFINE I == {i \in 1 .. Len(path) : path[i] \in {"(", "/", "\\"}}
           last == SelectLastInSeq(path, LAMBDA x : x \in {"(", "/", "\\"})
<1>1. Len(path) \in Nat BY DEF Line
<1>2. last = IF I # {} THEN Max(I) ELSE 0 BY DEF SelectLastInSeq
<1>3. I # {} => Max(I) \in I
  <2>1. I \subseteq 1 .. Len(path) OBVIOUS
  <2> HIDE DEF I
  <2>2. QED BY <1>1, <2>1, MaxExists
<1>4. last \in 0 .. Len(path) BY <1>1, <1>2, <1>3
<1>5. splitFileName(path) = SubSeq(path, last + 1, Len(path))
  BY DEF splitFileName
<1> HIDE DEF last, I
<1>6. last + 1 \in 1 .. Len(path) + 1 /\ Len(path) \in 0 .. Len(path) BY <1>1, <1>4
<1>7. splitFileName(path) \in Line BY <1>5, <1>6, PieceType
<1>8. ASSUME path = <<>> PROVE splitFileName(path) = <<>>
  <2>1. last = 0 /\ Len(path) = 0 BY <1>4, <1>8
  <2>2. QED BY <1>5, <2>1, SubSeqEmpty
<1>9. QED BY <1>7, <1>8

LEMMA DumpType ==
  ASSUME NEW frames \in Seq(Line), frames # <<>>
  PROVE  stackdump(<<>>, frames) \in Line
<1> DEFINE n == Len(frames) - 1
           shown == [i \in 1 .. n |-> FrameText(frames[i + 1])]
<1>1. n \in Nat BY EmptySeq
<1>2. \A i \in 1 .. n : frames[i + 1] \in Line
  <2>1. \A i \in 1 .. n : i + 1 \in 1 .. Len(frames) BY <1>1
  <2>2. QED BY <2>1, ElementOfSeq
<1>3. shown \in Seq(Line) BY <1>1, <1>2, FrameKept
<1>4. stackdump(<<>>, frames) = FlattenSeq(shown) BY DEF stackdump
<1> HIDE DEF shown
<1>5. QED BY <1>3, <1>4, FlattenType DEF Line

LEMMA ReasonType ==
  ASSUME NEW level \in Nat, NEW signal \in Shown
  PROVE  exitReasonName(level, signal) \in Text
<1>1. "UNKNOWN SIGNAL" \in Shown BY WordingShown DEF Wording
<1>2. <<signal>> \in Text /\ <<"UNKNOWN SIGNAL", signal, LevelText(level)>> \in Text
  BY <1>1, LevelShown, WordsAreTexts
<1>3. QED BY <1>2 DEF exitReasonName

\* What LogCaptures hold.
CaptureOk(capture) ==
  /\ capture.file \in Line /\ capture.function \in Text /\ capture.level \in Nat
  /\ capture.text \in Text /\ capture.expression \in Text
  /\ capture.signal \in Shown /\ capture.stack_trace \in Text
  /\ capture.level # FatalException
  /\ capture.level = FatalSignal => capture.file = <<>> /\ capture.function = <<>>
  /\ capture.level # Contract => capture.expression = <<>>

LEMMA CaptureType ==
  ASSUME NEW capture \in Statements \cup Crashes
  PROVE  CaptureOk(capture)
<1>1. /\ Levels \subseteq Nat \ {FatalSignal, FatalException} /\ Paths \subseteq Line
      /\ Frames \subseteq Seq(Line) \ {<<>>} /\ Signals \subseteq Shown
  BY MessageAssumption DEF Line, Words, Shown
<1>2. <<"STACKDUMP">> \in Text /\ <<"function">> \in Text /\ <<"text">> \in Text
      /\ <<"expression">> \in Text /\ <<>> \in Text /\ <<>> \in Line
      /\ <<"Received fatal signal">> \in Text
  <2>1. /\ "STACKDUMP" \in Shown /\ "function" \in Shown /\ "text" \in Shown
        /\ "expression" \in Shown /\ "Received fatal signal" \in Shown
    BY WordingShown DEF Wording
  <2>2. <<>> \in Line BY DEF Line
  <2>3. QED BY <2>1, <2>2, WordsAreTexts
<1>3. ASSUME NEW dump \in Line, NEW frames \in Frames
      PROVE  <<"STACKDUMP">> \o stackdump(dump, frames) \in Text
  <2>1. stackdump(<<>>, frames) \in Line BY <1>1, DumpType
  <2>2. stackdump(dump, frames) \in Line BY <2>1 DEF stackdump
  <2>3. QED BY <1>2, <2>2, LinesAreTexts, ConcatProperties DEF Text
<1>4. ASSUME NEW path \in Paths, NEW level \in Levels \cup {Contract},
             NEW frames \in Frames,
             capture = Captured(path, <<"function">>, level, <<"text">>,
                         IF level = Contract THEN <<"expression">> ELSE <<>>,
                         "SIGABRT", <<>>, frames)
      PROVE  CaptureOk(capture)
  <2>1. level \in Nat \ {FatalSignal, FatalException}
    BY <1>1 DEF Contract, FatalSignal, FatalException
  <2>2. "SIGABRT" \in Shown BY WordingShown DEF Wording
  <2>3. capture.stack_trace \in Text BY <1>2, <1>3, <1>4 DEF Captured
  <2>4. QED BY <1>1, <1>2, <1>4, <2>1, <2>2, <2>3 DEF Captured, CaptureOk
<1>5. ASSUME NEW signal \in Signals, NEW frames \in Frames,
             capture = CapturedSignal(signal, frames)
      PROVE  CaptureOk(capture)
  <2>1. FatalSignal \in Nat /\ FatalSignal \notin {FatalException, Contract}
    BY DEF FatalSignal, FatalException, Contract
  <2>2. stackdump(<<>>, frames) \in Line BY <1>1, DumpType
  <2>3. capture.stack_trace \in Text
    BY <1>2, <1>3, <1>5, <2>2 DEF CapturedSignal, Captured
  <2>4. <<"Received fatal signal">> \o exitReasonName(FatalSignal, signal) \in Text
    BY <1>1, <1>2, <2>1, ReasonType, ConcatProperties DEF Text
  <2>5. QED
    BY <1>1, <1>2, <1>5, <2>1, <2>3, <2>4 DEF CapturedSignal, Captured, CaptureOk
<1>6. QED BY <1>4, <1>5 DEF Statements, Crashes

\* What ReportComplete expects behind the text of a fatal event.
End(capture, first) ==
  IF ~wasFatal(capture.level) THEN <<>>
  ELSE <<capture.stack_trace, first,
         <<"Exiting after fatal event", LevelText(capture.level)>>,
         exitReasonName(capture.level, capture.signal)>>

\* The text that the sinks are sent.
SentText(capture, first) ==
  IF ~wasFatal(capture.level) THEN capture.text \o <<>>
  ELSE ((capture.text \o (IF first = <<>> THEN capture.stack_trace
                          ELSE (capture.stack_trace \o <<"recursive crash">>) \o first))
          \o <<"Exiting after fatal event", LevelText(capture.level)>>)
          \o exitReasonName(capture.level, capture.signal)

LEMMA SentIs ==
  ASSUME NEW capture, NEW first
  PROVE  Sent(capture, first)
           = Message("default", splitFileName(capture.file), capture.file,
                     capture.function, capture.level, capture.expression,
                     SentText(capture, first))
<1> DEFINE text == capture.text \o
             (IF ~wasFatal(capture.level) THEN <<>>
              ELSE IF first = <<>> THEN capture.stack_trace
              ELSE capture.stack_trace \o <<"recursive crash">> \o first)
<1>1. saveMessage(capture, first)
        = Message("default", splitFileName(capture.file), capture.file,
                  capture.function, capture.level, capture.expression, text)
  <2> HIDE DEF text
  <2>1. saveMessage(capture, first)
          = [New(capture.file, capture.function, capture.level) EXCEPT
               !.expression = capture.expression, !.message = text]
    BY DEF saveMessage, text
  <2>2. QED BY <2>1 DEF New, Message
<1>2. \A a, b, c, d, e, f, g : Copy(Message(a, b, c, d, e, f, g))
                                 = Message(a, b, c, d, e, f, g)
  BY DEF Copy, Message
<1>3. CASE ~wasFatal(capture.level)
  <2>1. text = SentText(capture, first) BY <1>3 DEF SentText
  <2> HIDE DEF text
  <2>2. QED BY <1>1, <1>2, <1>3, <2>1 DEF Sent
<1>4. CASE wasFatal(capture.level)
  <2>1. SentText(capture, first)
          = (text \o <<"Exiting after fatal event", LevelText(capture.level)>>)
              \o exitReasonName(capture.level, capture.signal)
    BY <1>4 DEF SentText
  <2> HIDE DEF text
  <2>2. PICK file : file = splitFileName(capture.file) OBVIOUS
  <2> DEFINE Having(m) == Message("default", file, capture.file, capture.function,
                                  capture.level, capture.expression, m)
  <2>3. /\ Having(text).message = text /\ Having(text).level = capture.level
        /\ \A m : [Having(text) EXCEPT !.message = m] = Having(m)
    BY DEF Message
  <2> HIDE DEF Having
  <2>4. LastMessage(Having(text), capture.signal) = Having(SentText(capture, first))
    BY <2>1, <2>3 DEF LastMessage
  <2>5. QED BY <1>1, <1>2, <1>4, <2>2, <2>4 DEF Sent, Having
<1>5. QED BY <1>3, <1>4

LEMMA SentTells ==
  ASSUME NEW capture, CaptureOk(capture), NEW first \in Text
  PROVE  /\ Tells(SentText(capture, first), <<capture.text>> \o End(capture, first))
         /\ End(capture, first) \in Seq(Text)
<1>1. PICK text \in Text, stack \in Text, level \in Nat, signal \in Shown :
        /\ text = capture.text /\ stack = capture.stack_trace
        /\ level = capture.level /\ signal = capture.signal
  BY DEF CaptureOk
<1>2. CASE ~wasFatal(level)
  <2>1. SentText(capture, first) = text \o <<>> /\ End(capture, first) = <<>>
    BY <1>1, <1>2 DEF SentText, End
  <2>2. Tells(text \o <<>>, <<text>> \o <<>>)
    BY TellsItself, TellsNothing, TellsBoth, WordsAreTexts
  <2>3. QED BY <1>1, <2>1, <2>2
<1>3. CASE wasFatal(level)
  <2>1. PICK again : again = <<"recursive crash">> OBVIOUS
  <2>2. PICK exiting : exiting = <<"Exiting after fatal event", LevelText(level)>>
    OBVIOUS
  <2>3. PICK reason \in Text : reason = exitReasonName(level, signal) BY ReasonType
  <2>4. again \in Text /\ exiting \in Text
    <3>1. "recursive crash" \in Shown /\ "Exiting after fatal event" \in Shown
      BY WordingShown DEF Wording
    <3>2. QED BY <2>1, <2>2, <3>1, LevelShown, WordsAreTexts
  <2>5. PICK stacks : stacks = IF first = <<>> THEN stack ELSE (stack \o again) \o first
    OBVIOUS
  <2>6. PICK both : both = <<stack, first>> OBVIOUS
  <2>7. Tells(stacks, both)
    <3>1. Append(<<stack>>, first) = both BY <2>6, Tuples
    <3>2. CASE first = <<>>
      <4>1. Tells(stack, Append(<<stack>>, <<>>)) BY TellsItself, TellsEmpty
      <4>2. QED BY <2>5, <3>1, <3>2, <4>1
    <3>3. CASE first # <<>>
      <4>1. Tells(stack \o again, <<stack>>) BY <2>4, TellsItself, TellsSkip
      <4>2. Tells((stack \o again) \o first, Append(<<stack>>, first))
        BY <4>1, TellsPart
      <4>3. QED BY <2>5, <3>1, <3>3, <4>2
    <3>4. QED BY <3>2, <3>3
  <2>8. PICK one : one = <<text>> OBVIOUS
  <2>9. one \in Seq(Text) /\ both \in Seq(Text) BY <2>6, <2>8
  <2>10. Tells(((text \o stacks) \o exiting) \o reason,
               Append(Append(one \o both, exiting), reason))
    <3>1. Tells(text \o stacks, one \o both) BY <2>7, <2>8, TellsItself, TellsBoth
    <3>2. Tells((text \o stacks) \o exiting, Append(one \o both, exiting))
      BY <2>4, <3>1, TellsPart
    <3>3. QED BY <3>2, TellsPart
  <2>11. PICK end : end = Append(Append(both, exiting), reason) OBVIOUS
  <2>12. end \in Seq(Text) BY <2>4, <2>9, <2>11, AppendProperties
  <2>13. Append(Append(one \o both, exiting), reason) = one \o end
    <3>1. Append(both, exiting) \in Seq(Text) BY <2>4, <2>9, AppendProperties
    <3>2. one \o Append(both, exiting) = Append(one \o both, exiting)
      BY <2>4, <2>9
    <3>3. one \o Append(Append(both, exiting), reason)
            = Append(one \o Append(both, exiting), reason)
      BY <2>9, <3>1
    <3>4. QED BY <2>11, <3>2, <3>3
  <2>14. End(capture, first) = end
    <3>1. End(capture, first) = <<stack, first, exiting, reason>>
      BY <1>1, <1>3, <2>2, <2>3 DEF End
    <3>2. Append(both, exiting) = <<stack, first, exiting>> BY <2>6, Tuples
    <3>3. Append(<<stack, first, exiting>>, reason) = <<stack, first, exiting, reason>>
      BY Quadruple
    <3>4. QED BY <2>11, <3>1, <3>2, <3>3
  <2>15. SentText(capture, first) = ((text \o stacks) \o exiting) \o reason
    BY <1>1, <1>3, <2>1, <2>2, <2>3, <2>5 DEF SentText
  <2>16. QED BY <1>1, <2>8, <2>10, <2>12, <2>13, <2>14, <2>15
<1>4. QED BY <1>2, <1>3

\* Parts are the same however they are grouped.
LEMMA Grouped ==
  ASSUME NEW place \in Seq(Text), NEW expression \in Text, NEW text \in Text,
         NEW end \in Seq(Text)
  PROVE  /\ (place \o <<expression, text>>) \o end
              = Append(place, expression) \o (<<text>> \o end)
         /\ (place \o <<text>>) \o end = place \o (<<text>> \o end)
<1>1. PICK one : one = <<text>> OBVIOUS
<1>2. PICK said : said = Append(place, expression) OBVIOUS
<1>3. one \in Seq(Text) /\ said \in Seq(Text) BY <1>1, <1>2, AppendProperties
<1>4. place \o <<expression, text>> = said \o one
  <2>1. place \o <<expression, text>> = Append(said, text) BY <1>2
  <2>2. said \o one = Append(said, text) BY <1>1, <1>3
  <2>3. QED BY <2>1, <2>2
<1>5. (said \o one) \o end = said \o (one \o end) BY <1>3, ConcatAssociative, SMTT(30)
<1>6. (place \o one) \o end = place \o (one \o end) BY <1>3, ConcatAssociative, SMTT(30)
<1>7. QED BY <1>1, <1>2, <1>4, <1>5, <1>6

\* The console.
LEMMA PrintTells ==
  ASSUME NEW msg, NEW file \in Text, NEW function \in Text, NEW level \in Nat,
         msg.timestamp = "time", msg.file = file, msg.function = function,
         msg.level = level, NEW parts, Tells(msg.message, parts),
         NEW threshold \in Nat, threshold <= level
  PROVE  Tells(PrintMessage(msg, threshold), <<<<"time">>, file, function>> \o parts)
<1>1. PICK place : place = <<<<"time">>, file, function>> OBVIOUS
<1>2. PICK color \in Text : color = <<GetColor(level)>>
  BY ColorShown, WordsAreTexts
<1>3. Tells(DefaultLogDetailsToString(msg), place) BY <1>1, DefaultDetails
<1>4. Tells(color \o DefaultLogDetailsToString(msg), place)
  <2>1. Tells(color \o DefaultLogDetailsToString(msg), <<>> \o place)
    BY <1>3, TellsNothing, TellsBoth
  <2>2. <<>> \o place = place BY <1>3, ConcatEmptySeq DEF Tells
  <2>3. QED BY <2>1, <2>2
<1>5. PrintMessage(msg, threshold)
        = (color \o DefaultLogDetailsToString(msg)) \o msg.message
  <2>1. ~(level < threshold) OBVIOUS
  <2>2. QED BY <1>2, <2>1 DEF PrintMessage
<1>6. QED BY <1>1, <1>4, <1>5, TellsBoth

LEMMA ThresholdType ==
  ASSUME NEW flag \in 0 .. 4, NEW toStderr \in BOOLEAN
  PROVE  Threshold(flag, toStderr) \in Nat
BY DEF Threshold

\* For every statement, signal, path and stack: the text in the file, of a sink
\* that takes strings, of an assigned message and on the console says all that
\* was given, in its order, and what a fatal event adds (logmessage.cpp,
\* g3log.cpp saveMessage, logworker.cpp bgFatal, custom_sink.cpp).
THEOREM ReportCompleteHolds ==
  ASSUME subject \in Subjects \cup {Nothing}
  PROVE  ReportComplete
<1> SUFFICES ASSUME subject.kind = "report" PROVE ReportComplete
  BY DEF ReportComplete
<1>1. subject \in Reports BY DEF Subjects, Stacks, Prints, Nothing
<1>2. PICK capture \in Statements \cup Crashes, first \in {<<>>, <<"first">>},
           func \in {"default", "full"} :
        capture = subject.capture /\ first = subject.first /\ func = subject.func
  BY <1>1 DEF Reports
<1>3. CaptureOk(capture) BY CaptureType
<1>4. first \in Text
  <2>1. "first" \in Shown BY WordingShown DEF Wording
  <2>2. QED BY <2>1, WordsAreTexts
<1>5. PICK file \in Text, function \in Text, level \in Nat, text \in Text,
           expression \in Text :
        /\ file = splitFileName(capture.file) /\ function = capture.function
        /\ level = capture.level /\ text = capture.text
        /\ expression = capture.expression
  BY <1>3, FileNameType, LinesAreTexts DEF CaptureOk
<1>6. /\ level # FatalException
      /\ level = FatalSignal => file = <<>> /\ function = <<>>
      /\ level # Contract => expression = <<>>
  BY <1>3, <1>5, FileNameType DEF CaptureOk
<1>7. PICK message : message = SentText(capture, first) OBVIOUS
<1>8. PICK end \in Seq(Text) :
        end = End(capture, first) /\ Tells(message, <<text>> \o end)
  BY <1>3, <1>4, <1>5, <1>7, SentTells
<1>9. PICK place \in Seq(Text) : place = <<<<"time">>, file, function>>
  <2>1. "time" \in Shown BY WordingShown DEF Wording
  <2>2. <<"time">> \in Text BY <2>1, WordsAreTexts
  <2>3. <<<<"time">>, file, function>> \in Seq(Text) BY <2>2
  <2>4. QED BY <2>3
<1>10. PICK parts : parts = (place \o <<expression, text>>) \o end OBVIOUS
<1> DEFINE Having(path) ==
             Message("default", file, path, function, level, expression, message)
<1>11. ASSUME NEW path, NEW layout
       PROVE  SaysInOrder(toString(Having(path), layout), parts)
  <2>1. Tells(toString(Having(path), layout),
              <<<<"time">>, file, function, expression>> \o (<<text>> \o end))
    BY <1>6, <1>8, LayoutTells
  <2>2. <<<<"time">>, file, function, expression>> = Append(place, expression)
    BY <1>9, Quadruple
  <2>3. Tells(toString(Having(path), layout), parts)
    <3>1. parts = Append(place, expression) \o (<<text>> \o end)
      BY <1>10, Grouped, ZenonT(30)
    <3> HIDE DEF Having
    <3>2. QED BY <2>1, <2>2, <3>1
  <2>4. QED BY <2>3, TellsFound
<1>12. PICK sent : sent = Sent(capture, first) OBVIOUS
<1>13. sent = Having(capture.file) BY <1>5, <1>7, <1>12, SentIs
<1>14. Assigned(New(<<"other">>, <<"other">>, Fatal), sent) = Having(<<"other">>)
  <2>1. PICK other : other = New(<<"other">>, <<"other">>, Fatal) OBVIOUS
  <2>2. other.details = "default" /\ other.file_path = <<"other">>
    BY <2>1 DEF New
  <2>3. ASSUME NEW old, NEW new
        PROVE  [Having(old) EXCEPT !.details = "default", !.file_path = new]
                 = Having(new)
    <3>1. [Having(old) EXCEPT !.details = "default"] = Having(old) BY DEF Message
    <3>2. [Having(old) EXCEPT !.file_path = new] = Having(new) BY DEF Message
    <3> HIDE DEF Having
    <3>3. [Having(old) EXCEPT !.details = "default", !.file_path = new]
            = [[Having(old) EXCEPT !.details = "default"] EXCEPT !.file_path = new]
      OBVIOUS
    <3>4. QED BY <3>1, <3>2, <3>3
  <2> HIDE DEF Having
  <2>4. QED BY <1>13, <2>1, <2>2, <2>3 DEF Assigned
<1>15. ASSUME NEW flag \in 0 .. 4, NEW toStderr \in BOOLEAN,
              Threshold(flag, toStderr) <= level
       PROVE  SaysInOrder(PrintMessage(sent, Threshold(flag, toStderr)),
                          (place \o <<text>>) \o end)
  <2>1. /\ sent.timestamp = "time" /\ sent.file = file /\ sent.function = function
        /\ sent.level = level /\ sent.message = message
    BY <1>13 DEF Message
  <2>2. Tells(PrintMessage(sent, Threshold(flag, toStderr)),
              place \o (<<text>> \o end))
    BY <1>8, <1>9, <1>15, <2>1, PrintTells, ThresholdType
  <2>3. QED BY <2>2, Grouped, TellsFound, ZenonT(30)
<1>16. \A given \in {toString(sent, func), Adapted(sent),
                     toString(Assigned(New(<<"other">>, <<"other">>, Fatal), sent), func)} :
         SaysInOrder(given, parts)
  <2>1. SaysInOrder(toString(sent, func), parts) BY <1>11, <1>13
  <2>2. SaysInOrder(Adapted(sent), parts) BY <1>11, <1>13 DEF Adapted
  <2>3. SaysInOrder(toString(Assigned(New(<<"other">>, <<"other">>, Fatal), sent), func),
                    parts)
    BY <1>11, <1>14
  <2>4. QED BY <2>1, <2>2, <2>3
<1> HIDE DEF Having
<1>17. QED
  BY <1>2, <1>5, <1>8, <1>9, <1>10, <1>12, <1>15, <1>16 DEF ReportComplete, End

----------------------------------------------------------------------------
(* The fraction of a second.                                                 *)

DigitChars == {"0", "1", "2", "3", "4", "5", "6", "7", "8", "9"}

LEMMA PowersAre ==
  /\ Powers[1] = 1 /\ Powers[2] = 10 /\ Powers[3] = 100 /\ Powers[4] = 1000
  /\ Powers[5] = 10000 /\ Powers[6] = 100000 /\ Powers[7] = 1000000
  /\ Powers[8] = 10000000 /\ Powers[9] = 100000000 /\ Powers[10] = 1000000000
BY DEF Powers

\* Growing powers.
LEMMA PowersGrow ==
  ASSUME NEW j \in 1 .. 10, NEW k \in 1 .. 10, j <= k
  PROVE  Powers[j] \in Nat \ {0} /\ Powers[k] \in Nat /\ Powers[j] <= Powers[k]
BY PowersAre, SMTT(30)

LEMMA DigitType ==
  ASSUME NEW n \in Nat, NEW k \in 0 .. 9
  PROVE  Digit(n, k) \in DigitChars
<1>1. PICK p \in Nat \ {0} : p = Powers[k + 1]
  <2>1. k + 1 \in 1 .. 10 OBVIOUS
  <2>2. QED BY <2>1, PowersGrow
<1>2. PICK d \in 0 .. 9 : d = (n \div p) % 10
  <2>1. n \div p \in Nat BY <1>1
  <2>2. (n \div p) % 10 \in 0 .. 9 BY <2>1
  <2>3. QED BY <2>2
<1>3. Digit(n, k) = Digits[d + 1] BY <1>1, <1>2 DEF Digit
<1>4. d + 1 \in 1 .. 10 BY <1>2
<1>5. \A e \in 1 .. 10 : Digits[e] \in DigitChars BY DEF Digits, DigitChars
<1>6. QED BY <1>3, <1>4, <1>5

\* A number less than the power has a zero there.
LEMMA DigitZero ==
  ASSUME NEW n \in Nat, NEW k \in 0 .. 9, n < Powers[k + 1]
  PROVE  Digit(n, k) = "0"
<1>1. PICK p \in Nat \ {0} : p = Powers[k + 1]
  <2>1. k + 1 \in 1 .. 10 OBVIOUS
  <2>2. QED BY <2>1, PowersGrow
<1>2. n \div p = 0 BY <1>1
<1>3. ((n \div p) % 10) + 1 = 1 BY <1>2
<1>4. QED BY <1>1, <1>3 DEF Digit, Digits

LEMMA DivDiv ==
  ASSUME NEW n \in Nat, NEW a \in Nat \ {0}, NEW b \in Nat \ {0}
  PROVE  (n \div a) \div b = n \div (a * b)
OBVIOUS

\* The digits of what is left when the last m are cut off.
LEMMA DigitOfRest ==
  ASSUME NEW n \in Nat, NEW m \in {0, 3, 6}, NEW k \in 0 .. 9 - m
  PROVE  Digit(n \div Powers[m + 1], k) = Digit(n, k + m)
<1>1. /\ m + 1 \in 1 .. 10 /\ k + 1 \in 1 .. 10 - m /\ k + 1 \in 1 .. 10
      /\ (k + m) + 1 = (k + 1) + m
  OBVIOUS
<1>2. \A j \in 1 .. 10 - m : Powers[m + 1] * Powers[j] = Powers[j + m]
  <2>1. CASE m = 0 BY <2>1, PowersAre, SMTT(30)
  <2>2. CASE m = 3 BY <2>2, PowersAre, SMTT(30)
  <2>3. CASE m = 6 BY <2>3, PowersAre, SMTT(30)
  <2>4. QED BY <2>1, <2>2, <2>3
<1>3. PICK a \in Nat \ {0} : a = Powers[m + 1] BY <1>1, PowersGrow
<1>4. PICK b \in Nat \ {0} : b = Powers[k + 1] BY <1>1, PowersGrow
<1>5. a * b = Powers[(k + 1) + m] BY <1>1, <1>2, <1>3, <1>4
<1>6. (n \div a) \div b = n \div (a * b) BY DivDiv
<1>7. Digit(n \div a, k) = Digits[(((n \div a) \div b) % 10) + 1]
  BY <1>4 DEF Digit
<1>8. Digit(n, k + m) = Digits[((n \div (a * b)) % 10) + 1]
  BY <1>1, <1>5 DEF Digit
<1>9. QED BY <1>3, <1>6, <1>7, <1>8

\* std::to_string, with zeroes in front of it.
LEMMA Filled ==
  ASSUME NEW z \in {3, 6, 9}, NEW v \in Nat, v < Powers[z + 1]
  PROVE  [i \in 1 .. z - Len(Decimal(v)) |-> "0"] \o Decimal(v)
           = [i \in 1 .. z |-> Digit(v, z - i)]
<1> DEFINE Fits(k) == v < Powers[k + 1] /\ (k = 1 \/ v >= Powers[k])
           size == CHOOSE k \in 1 .. 9 : Fits(k)
           zeros == [i \in 1 .. z - size |-> "0"]
           value == [i \in 1 .. size |-> Digit(v, size - i)]
           all == [i \in 1 .. z |-> Digit(v, z - i)]
<1>1. \E k \in 1 .. 9 : Fits(k)
  <2>1. v < 1000000000
    <3>1. z + 1 \in 1 .. 10 OBVIOUS
    <3>2. Powers[z + 1] <= Powers[10] /\ Powers[z + 1] \in Nat BY <3>1, PowersGrow
    <3>3. QED BY <3>2, PowersAre, SMTT(30)
  <2>2. CASE v < 10 BY <2>2, PowersAre, SMTT(30)
  <2>3. CASE v >= 10 BY <2>1, <2>3, PowersAre, SMTT(30)
  <2>4. QED BY <2>2, <2>3
<1>2. size \in 1 .. 9 /\ Fits(size)
  <2> HIDE DEF Fits
  <2>1. QED BY <1>1, Zenon
<1>3. size <= z
  <2>1. SUFFICES ASSUME ~(size <= z) PROVE FALSE OBVIOUS
  <2> HIDE DEF size, Fits
  <2>2. size # 1 /\ z + 1 \in 1 .. 10 /\ size \in 1 .. 10 /\ z + 1 <= size
    BY <1>2, <2>1
  <2>3. v >= Powers[size] BY <1>2, <2>2 DEF Fits
  <2>4. Powers[z + 1] <= Powers[size] /\ Powers[z + 1] \in Nat /\ Powers[size] \in Nat
    BY <2>2, PowersGrow
  <2>5. QED BY <2>3, <2>4
<1>4. Decimal(v) = value BY DEF Decimal, Fits, size, value
<1> HIDE DEF size, Fits
<1> DEFINE D == DigitChars
<1>5. /\ zeros \in Seq(D) /\ Len(zeros) = z - size
      /\ \A i \in 1 .. z - size : zeros[i] = "0"
  BY <1>2, <1>3 DEF DigitChars
<1>6. /\ value \in Seq(D) /\ Len(value) = size
      /\ \A i \in 1 .. size : value[i] = Digit(v, size - i)
  <2>1. \A i \in 1 .. size : size - i \in 0 .. 9 BY <1>2
  <2>2. \A i \in 1 .. size : Digit(v, size - i) \in D BY <2>1, DigitType
  <2>3. QED BY <1>2, <2>2
<1>7. /\ all \in Seq(D) /\ Len(all) = z
      /\ \A i \in 1 .. z : all[i] = Digit(v, z - i)
  <2>1. \A i \in 1 .. z : z - i \in 0 .. 9 OBVIOUS
  <2>2. \A i \in 1 .. z : Digit(v, z - i) \in D BY <2>1, DigitType
  <2>3. QED BY <2>2
<1>8. \A i \in 1 .. z - size : Digit(v, z - i) = "0"
  <2> SUFFICES ASSUME NEW i \in 1 .. z - size PROVE Digit(v, z - i) = "0"
    OBVIOUS
  <2>1. /\ z - i \in 0 .. 9 /\ size <= z - i
        /\ (z - i) + 1 \in 1 .. 10 /\ size + 1 \in 1 .. 10
    BY <1>2
  <2>2. v < Powers[size + 1] BY <1>2 DEF Fits
  <2>3. /\ Powers[size + 1] <= Powers[(z - i) + 1]
        /\ Powers[size + 1] \in Nat /\ Powers[(z - i) + 1] \in Nat
    BY <1>2, <2>1, PowersGrow
  <2>4. v < Powers[(z - i) + 1] BY <2>2, <2>3
  <2>5. QED BY <2>1, <2>4, DigitZero
<1> HIDE DEF zeros, value, all, D
<1>9. zeros \o value = all
  <2> DEFINE w == zeros \o value
  <2>1. /\ w \in Seq(D) /\ Len(w) = z
        /\ \A i \in 1 .. z : w[i] = IF i <= z - size THEN zeros[i]
                                    ELSE value[i - (z - size)]
    <3>1. (z - size) + size = z BY <1>2
    <3>2. QED BY <1>5, <1>6, <3>1, ConcatProperties
  <2> HIDE DEF w
  <2>2. ASSUME NEW i \in 1 .. z PROVE w[i] = all[i]
    <3>1. CASE i <= z - size
      <4>1. i \in 1 .. z - size BY <1>2, <3>1
      <4>2. QED BY <1>5, <1>7, <1>8, <2>1, <3>1, <4>1
    <3>2. CASE ~(i <= z - size)
      <4>1. i - (z - size) \in 1 .. size /\ size - (i - (z - size)) = z - i
        BY <1>2, <3>2
      <4>2. QED BY <1>6, <1>7, <2>1, <3>2, <4>1
    <3>3. QED BY <3>1, <3>2
  <2>3. w = all BY <1>7, <2>1, <2>2, SeqEqual
  <2>4. QED BY <2>3 DEF w
<1>10. Len(Decimal(v)) = size BY <1>4, <1>6
<1>11. QED BY <1>4, <1>9, <1>10 DEF zeros, all

Fractionals == {"Millisecond", "Microsecond", "Nanosecond", "NanosecondDefault"}

\* A fraction is the first decimals of the second, 3, 6 or 9 of them.
LEMMA FractionIs ==
  ASSUME NEW ns \in Nat, ns < Powers[10], NEW type \in Fractionals
  PROVE  /\ to_string(ns, type) = Decimals(ns, zeroes(type))
         /\ zeroes(type) \in {3, 6, 9}
<1>1. PICK m \in {0, 3, 6} : zeroes(type) = 9 - m /\ digitsToCut(type) = Powers[m + 1]
  <2>1. CASE type = "Millisecond"
    <3>1. zeroes(type) = 9 - 6 /\ digitsToCut(type) = Powers[6 + 1]
      BY <2>1, PowersAre, SMTT(30) DEF zeroes, digitsToCut
    <3>2. QED BY <3>1
  <2>2. CASE type = "Microsecond"
    <3>1. zeroes(type) = 9 - 3 /\ digitsToCut(type) = Powers[3 + 1]
      BY <2>2, PowersAre, SMTT(30) DEF zeroes, digitsToCut
    <3>2. QED BY <3>1
  <2>3. CASE type \in {"Nanosecond", "NanosecondDefault"}
    <3>1. zeroes(type) = 9 - 0 /\ digitsToCut(type) = Powers[0 + 1]
      BY <2>3, PowersAre, SMTT(30) DEF zeroes, digitsToCut
    <3>2. QED BY <3>1
  <2>4. QED BY <2>1, <2>2, <2>3 DEF Fractionals
<1>2. PICK z \in {3, 6, 9} : z = 9 - m /\ z = zeroes(type) BY <1>1
<1>3. PICK v \in Nat : v = ns \div digitsToCut(type)
  <2>1. PICK p \in Nat \ {0} : p = Powers[m + 1]
    <3>1. m + 1 \in 1 .. 10 OBVIOUS
    <3>2. QED BY <3>1, PowersGrow
  <2>2. ns \div p \in Nat BY <2>1
  <2>3. QED BY <1>1, <2>1, <2>2
<1>4. v < Powers[z + 1]
  <2>1. CASE m = 0 BY <1>1, <1>2, <1>3, <2>1, PowersAre, SMTT(30)
  <2>2. CASE m = 3 BY <1>1, <1>2, <1>3, <2>2, PowersAre, SMTT(30)
  <2>3. CASE m = 6 BY <1>1, <1>2, <1>3, <2>3, PowersAre, SMTT(30)
  <2>4. QED BY <2>1, <2>2, <2>3
<1>5. to_string(ns, type) = [i \in 1 .. z |-> Digit(v, z - i)]
  <2>1. to_string(ns, type)
          = [i \in 1 .. z - Len(Decimal(v)) |-> "0"] \o Decimal(v)
    BY <1>2, <1>3 DEF to_string
  <2>2. QED BY <1>4, <2>1, Filled
<1>6. ASSUME NEW i \in 1 .. z PROVE Digit(v, z - i) = Digit(ns, 9 - i)
  <2>1. z - i \in 0 .. 9 - m /\ (z - i) + m = 9 - i BY <1>2
  <2>2. Digit(ns \div Powers[m + 1], z - i) = Digit(ns, (z - i) + m)
    BY <2>1, DigitOfRest
  <2>3. QED BY <1>1, <1>3, <2>1, <2>2
<1>7. [i \in 1 .. z |-> Digit(v, z - i)] = [i \in 1 .. z |-> Digit(ns, 9 - i)]
  BY <1>6, Zenon
<1>8. QED BY <1>2, <1>5, <1>7 DEF Decimals

LEMMA DecimalsType ==
  ASSUME NEW ns \in Nat, NEW z \in {3, 6, 9}
  PROVE  Decimals(ns, z) \in Seq(DigitChars) /\ Len(Decimals(ns, z)) = z
<1>1. \A i \in 1 .. z : 9 - i \in 0 .. 9 OBVIOUS
<1>2. \A i \in 1 .. z : Digit(ns, 9 - i) \in DigitChars BY <1>1, DigitType
<1>3. QED BY <1>2 DEF Decimals

----------------------------------------------------------------------------
(* Texts in pieces.                                                          *)

\* Sizes that do not lead beyond the end of a text of n characters.
Sizing(size, n) ==
  /\ size \in [1 .. n -> Nat \ {0}]
  /\ \A i \in 1 .. n : i + size[i] <= n + 1

\* f are the starts of the pieces: the recursion of Starts.
Cuts(f, text, size, n) ==
  /\ f \in [0 .. n -> 1 .. n + 1]
  /\ f[0] = 1
  /\ \A k \in 0 .. n - 1 : f[k + 1] = Behind(text, size, f[k])

LEMMA BehindType ==
  ASSUME NEW W, NEW text \in Seq(W), NEW n \in Nat, n = Len(text), NEW size,
         Sizing(size, n), NEW i \in 1 .. n + 1
  PROVE  /\ Behind(text, size, i) \in 1 .. n + 1
         /\ i <= n => i + size[i] = Behind(text, size, i) /\ Behind(text, size, i) > i
         /\ i = n + 1 => Behind(text, size, i) = i
<1>1. DOMAIN text = 1 .. n OBVIOUS
<1>2. CASE i \in 1 .. n
  <2>1. size[i] \in Nat \ {0} /\ i + size[i] <= n + 1 BY <1>2 DEF Sizing
  <2>2. Behind(text, size, i) = i + size[i] BY <1>1, <1>2 DEF Behind
  <2>3. QED BY <1>2, <2>1, <2>2
<1>3. CASE i = n + 1
  <2>1. i \notin 1 .. n BY <1>3
  <2>2. Behind(text, size, i) = i BY <1>1, <2>1 DEF Behind
  <2>3. QED BY <1>3, <2>2
<1>4. QED BY <1>2, <1>3

LEMMA StartsAre ==
  ASSUME NEW W, NEW text \in Seq(W), NEW n \in Nat, n = Len(text), NEW size,
         Sizing(size, n)
  PROVE  Cuts(Starts(text, size), text, size, n)
<1> DEFINE V == 1 .. n + 1
           step == [x \in (0 .. n - 1) \X V |-> Behind(text, size, x[2])]
           Solves(f) == f = [k \in 0 .. n |->
                               IF k = 0 THEN 1 ELSE Behind(text, size, f[k - 1])]
           starts == CHOOSE f : Solves(f)
<1>1. step \in [(0 .. n - 1) \X V -> V]
  <2>1. \A i \in V : Behind(text, size, i) \in V BY BehindType
  <2>2. QED BY <2>1
<1>2. 1 \in V OBVIOUS
<1>3. PICK h \in [0 .. n -> V] : Recurs(h, n, 1, step)
  <2> HIDE DEF V, step
  <2>1. QED BY <1>1, <1>2, Recursion
<1>4. ASSUME NEW k \in 0 .. n - 1 PROVE h[k + 1] = Behind(text, size, h[k])
  <2>1. <<k, h[k]>> \in (0 .. n - 1) \X V BY <1>3
  <2>2. step[<<k, h[k]>>] = Behind(text, size, h[k]) BY <2>1
  <2> HIDE DEF step
  <2>3. QED BY <1>3, <2>2 DEF Recurs
<1>5. Solves(h)
  <2>1. ASSUME NEW k \in 0 .. n
        PROVE  h[k] = IF k = 0 THEN 1 ELSE Behind(text, size, h[k - 1])
    <3>1. CASE k = 0 BY <1>3, <3>1 DEF Recurs
    <3>2. CASE k # 0
      <4>1. PICK j \in 0 .. n - 1 : k = j + 1 /\ j = k - 1
        <5>1. k - 1 \in 0 .. n - 1 /\ k = (k - 1) + 1 BY <3>2
        <5>2. QED BY <5>1
      <4>2. h[j + 1] = Behind(text, size, h[j]) BY <1>4
      <4>3. QED BY <3>2, <4>1, <4>2
    <3>3. QED BY <3>1, <3>2
  <2>2. h = [k \in 0 .. n |-> h[k]] BY <1>3
  <2>3. QED BY <2>1, <2>2, Zenon
<1>6. Solves(starts)
  <2> HIDE DEF Solves
  <2>1. QED BY <1>5, Zenon
<1>7. PICK g : Solves(g) /\ g = starts BY <1>6, Zenon
<1>8. Starts(text, size) = g BY <1>7 DEF Starts, starts
<1> HIDE DEF starts
<1>9. g[0] = 1 BY <1>7
<1>10. ASSUME NEW k \in 0 .. n - 1 PROVE g[k + 1] = Behind(text, size, g[k])
  <2>1. k + 1 \in 0 .. n /\ k + 1 # 0 /\ (k + 1) - 1 = k OBVIOUS
  <2>2. QED BY <1>7, <2>1
<1> DEFINE S == {k \in 0 .. n : g[k] \in V}
<1>11. 0 .. n \subseteq S
  <2>1. 0 \in S BY <1>9
  <2>2. ASSUME NEW k \in 0 .. n - 1, k \in S PROVE k + 1 \in S
    <3>1. Behind(text, size, g[k]) \in V BY <2>2, BehindType
    <3>2. QED BY <1>10, <3>1
  <2> HIDE DEF S
  <2>3. QED BY <2>1, <2>2, IntervalInduction
<1>12. g \in [0 .. n -> V]
  <2>1. DOMAIN g = 0 .. n /\ g = [k \in 0 .. n |-> g[k]] BY <1>7
  <2>2. \A k \in 0 .. n : g[k] \in V BY <1>11
  <2>3. QED BY <2>1, <2>2
<1>13. QED BY <1>8, <1>9, <1>10, <1>12 DEF Cuts

\* Every piece but those at the end has a character, and the pieces are all of
\* the text.
LEMMA CutsEnd ==
  ASSUME NEW W, NEW text \in Seq(W), NEW n \in Nat, n = Len(text), NEW size,
         Sizing(size, n), NEW f, Cuts(f, text, size, n)
  PROVE  /\ \A k \in 0 .. n : f[k] >= k + 1 \/ f[k] = n + 1
         /\ f[n] = n + 1
<1> DEFINE S == {k \in 0 .. n : f[k] >= k + 1 \/ f[k] = n + 1}
<1>1. 0 \in S BY DEF Cuts
<1>2. ASSUME NEW k \in 0 .. n - 1, k \in S PROVE k + 1 \in S
  <2>1. f[k] \in 1 .. n + 1 /\ f[k + 1] = Behind(text, size, f[k]) BY DEF Cuts
  <2>2. PICK i \in 1 .. n + 1 : i = f[k] BY <2>1
  <2>3. Behind(text, size, i) \in 1 .. n + 1 BY BehindType
  <2>4. CASE i = n + 1
    <3>1. Behind(text, size, i) = i BY <2>4, BehindType
    <3>2. QED BY <2>1, <2>2, <2>4, <3>1
  <2>5. CASE i <= n
    <3>1. Behind(text, size, i) > i BY <2>5, BehindType
    <3>2. i >= k + 1 BY <1>2, <2>2, <2>5
    <3>3. QED BY <2>1, <2>2, <2>3, <3>1, <3>2
  <2>6. QED BY <2>4, <2>5
<1>3. 0 .. n \subseteq S
  <2> HIDE DEF S
  <2>1. QED BY <1>1, <1>2, IntervalInduction
<1>4. n \in S /\ f[n] \in 1 .. n + 1 BY <1>3 DEF Cuts
<1>5. QED BY <1>3, <1>4

----------------------------------------------------------------------------
(* The loop over the format buffer.                                          *)

Chars == STRING \cup DigitChars
Padding(type) == IF type = "NanosecondDefault" THEN 0 ELSE 1
Looping(buffer, pos) == [buffer |-> buffer, pos |-> pos]

\* f are the turns of the loop, of which there are n: its recursion.
Turns(f, ns, format, n) ==
  /\ f[0] = Looping(format, 1)
  /\ \A k \in 0 .. n - 1 : f[k + 1] = Turn(ns, f[k])

LEMMA LoopIs ==
  ASSUME NEW format, NEW n \in Nat, n = Len(format), NEW ns
  PROVE  \E f : /\ Turns(f, ns, format, n)
                /\ localtime_formatted_fractions(ns, format) = f[n].buffer
<1> DEFINE start == Looping(format, 1)
           Solves(f, k) == f = [turn \in 0 .. k |->
                              IF turn = 0 THEN start ELSE Turn(ns, f[turn - 1])]
           S == {k \in 0 .. n : \E f : Solves(f, k)}
           loop == CHOOSE f : Solves(f, n)
<1>1. 0 \in S
  <2>1. Solves([turn \in 0 .. 0 |-> start], 0) OBVIOUS
  <2> HIDE DEF Solves
  <2>2. QED BY <2>1
<1>2. ASSUME NEW k \in 0 .. n - 1, k \in S PROVE k + 1 \in S
  <2>1. PICK f : Solves(f, k) BY <1>2
  <2> DEFINE last == Turn(ns, f[k])
             g == [turn \in 0 .. k + 1 |-> IF turn = k + 1 THEN last ELSE f[turn]]
  <2> HIDE DEF last, start
  <2>2. ASSUME NEW i \in 0 .. k + 1
        PROVE  g[i] = IF i = 0 THEN start ELSE Turn(ns, g[i - 1])
    <3>1. CASE i = k + 1
      <4>1. i # 0 /\ i - 1 = k /\ k # k + 1 /\ k \in 0 .. k + 1 BY <3>1
      <4>2. g[i] = last /\ g[i - 1] = f[k] BY <3>1, <4>1
      <4>3. QED BY <3>1, <4>1, <4>2 DEF last
    <3>2. CASE i \in 1 .. k
      <4>1. i # 0 /\ i # k + 1 /\ i - 1 # k + 1 /\ i - 1 \in 0 .. k + 1 BY <3>2
      <4>2. g[i] = f[i] /\ g[i - 1] = f[i - 1] BY <4>1
      <4>3. f[i] = Turn(ns, f[i - 1])
        <5>1. i \in 0 .. k BY <3>2
        <5>2. QED BY <2>1, <4>1, <5>1
      <4>4. QED BY <4>1, <4>2, <4>3
    <3>3. CASE i = 0
      <4>1. g[0] = f[0] OBVIOUS
      <4>2. f[0] = start BY <2>1
      <4>3. QED BY <3>3, <4>1, <4>2
    <3>4. QED BY <3>1, <3>2, <3>3
  <2>3. Solves(g, k + 1)
    <3>1. g = [i \in 0 .. k + 1 |-> g[i]] OBVIOUS
    <3> HIDE DEF g
    <3>2. QED BY <2>2, <3>1, Zenon
  <2> HIDE DEF g, Solves
  <2>4. \E h : Solves(h, k + 1) BY <2>3
  <2>5. QED BY <2>4
<1>3. n \in S
  <2> HIDE DEF S
  <2>1. QED BY <1>1, <1>2, IntervalInduction
<1>4. Solves(loop, n)
  <2> HIDE DEF Solves
  <2>1. QED BY <1>3, Zenon
<1>5. PICK f : Solves(f, n) /\ f = loop BY <1>4, Zenon
<1>6. localtime_formatted_fractions(ns, format) = loop[n].buffer
  BY DEF localtime_formatted_fractions, loop, Looping
<1> HIDE DEF loop
<1>7. f[0] = start
  <2>1. 0 \in 0 .. n OBVIOUS
  <2>2. QED BY <1>5, <2>1
<1>8. ASSUME NEW k \in 0 .. n - 1 PROVE f[k + 1] = Turn(ns, f[k])
  <2>1. k + 1 \in 0 .. n /\ k + 1 # 0 /\ (k + 1) - 1 = k OBVIOUS
  <2> HIDE DEF start
  <2>2. QED BY <1>5, <2>1
<1>9. QED BY <1>5, <1>6, <1>7, <1>8 DEF Turns

\* A turn puts the next fraction in.
LEMMA TurnPuts ==
  ASSUME NEW ns, NEW b, NEW pos \in Nat, Len(b) \in Nat, NEW at \in pos .. Len(b),
         HasFraction(b, at), \A i \in pos .. at - 1 : ~HasFraction(b, i),
         NEW type, type = getFractional(b, at)
  PROVE  Turn(ns, Looping(b, pos)) =
           Looping(SubSeq(b, 1, at - 1) \o to_string(ns, type)
                     \o SubSeq(b, at + 2 + Padding(type), Len(b)), at + 2)
<1> DEFINE found == {i \in pos .. Len(b) : HasFraction(b, i)}
<1>1. at \in found OBVIOUS
<1>2. \A i \in found : at <= i OBVIOUS
<1>3. Min(found) = at
  <2>1. \A i \in found : i \in Int OBVIOUS
  <2> HIDE DEF found
  <2>2. PICK m : m = Min(found) OBVIOUS
  <2>3. m \in found /\ \A i \in found : m <= i BY <1>1, <1>2, <2>2 DEF Min
  <2>4. m <= at /\ at <= m BY <1>1, <1>2, <2>3
  <2>5. QED BY <1>1, <2>1, <2>2, <2>3, <2>4
<1>4. found # {} BY <1>1
<1>5. QED BY <1>3, <1>4 DEF Turn, Looping, Padding

LEMMA TurnEnds ==
  ASSUME NEW ns, NEW b, NEW pos \in Nat, Len(b) \in Nat,
         \A i \in pos .. Len(b) : ~HasFraction(b, i)
  PROVE  Turn(ns, Looping(b, pos)) = Looping(b, pos)
BY DEF Turn, Looping

\* A part of a text.
LEMMA SubSeqType ==
  ASSUME NEW W, NEW text \in Seq(W), NEW m \in 1 .. Len(text) + 1,
         NEW n \in m - 1 .. Len(text)
  PROVE  /\ SubSeq(text, m, n) \in Seq(W) /\ Len(SubSeq(text, m, n)) = n + 1 - m
         /\ \A i \in 1 .. n + 1 - m : SubSeq(text, m, n)[i] = text[m + i - 1]
<1>1. m \in Int /\ n \in Int /\ m - 1 <= n OBVIOUS
<1>2. \A i \in m .. n : i \in 1 .. Len(text) OBVIOUS
<1>3. \A i \in m .. n : text[i] \in W BY <1>2, ElementOfSeq
<1>4. /\ SubSeq(text, m, n) \in Seq(W)
      /\ Len(SubSeq(text, m, n)) = IF m <= n THEN n - m + 1 ELSE 0
      /\ \A i \in 1 .. n - m + 1 : SubSeq(text, m, n)[i] = text[m + i - 1]
  BY <1>1, <1>3, SubSeqProperties
<1>5. QED BY <1>1, <1>4

\* A text from a place on, and what the loop's buffer is when it has got there.
Rest(text, at, n) == SubSeq(text, at, n)
Buffer(head, format, at, n) == head \o Rest(format, at, n)

\* A text that goes on with the rest of the format.
LEMMA GoesOn ==
  ASSUME NEW a \in Seq(Chars), NEW format \in Seq(Chars), NEW n \in Nat,
         n = Len(format), NEW at \in 1 .. n + 1
  PROVE  LET b == Buffer(a, format, at, n)
         IN /\ b \in Seq(Chars) /\ Len(b) = Len(a) + (n + 1 - at)
            /\ \A i \in 1 .. Len(a) : b[i] = a[i]
            /\ \A j \in at .. n : b[Len(a) + 1 + (j - at)] = format[j]
            /\ Rest(b, 1, Len(a)) = a
            /\ \A j \in at .. n + 1 :
                 Rest(b, Len(a) + 1 + (j - at), Len(b)) = Rest(format, j, n)
<1> DEFINE B == Buffer(a, format, at, n)
<1>0. Rest(format, at, n) \in Seq(Chars) /\ Len(Rest(format, at, n)) = n + 1 - at
      /\ \A i \in 1 .. n + 1 - at : Rest(format, at, n)[i] = format[at + i - 1]
  <2>1. at \in 1 .. Len(format) + 1 /\ n \in at - 1 .. Len(format) OBVIOUS
  <2>2. QED BY <2>1, SubSeqType DEF Rest
<1>1. PICK l \in Nat : l = Len(a) OBVIOUS
<1>2. PICK rest, b :
        /\ rest \in Seq(Chars) /\ b = a \o rest /\ b = B /\ Len(rest) = n + 1 - at
        /\ \A i \in 1 .. n + 1 - at : rest[i] = format[at + i - 1]
  BY <1>0 DEF Buffer
<1> HIDE DEF B
<1>3. /\ b \in Seq(Chars) /\ Len(b) = l + (n + 1 - at)
      /\ \A i \in 1 .. l + (n + 1 - at) :
           b[i] = IF i <= l THEN a[i] ELSE rest[i - l]
  <2>1. PICK c : c = a \o rest OBVIOUS
  <2>2. /\ a \o rest \in Seq(Chars) /\ Len(a \o rest) = Len(a) + Len(rest)
        /\ \A i \in 1 .. Len(a) + Len(rest) :
             (a \o rest)[i] = IF i <= Len(a) THEN a[i] ELSE rest[i - Len(a)]
    BY <1>2, ConcatProperties, ZenonT(30)
  <2>3. b = c BY <1>2, <2>1
  <2>4. /\ c \in Seq(Chars) /\ Len(c) = Len(a) + Len(rest)
        /\ \A i \in 1 .. Len(a) + Len(rest) :
             c[i] = IF i <= Len(a) THEN a[i] ELSE rest[i - Len(a)]
    BY <2>1, <2>2
  <2>5. QED BY <1>1, <1>2, <2>3, <2>4
<1>4. ASSUME NEW i \in 1 .. l PROVE b[i] = a[i]
  <2>1. i \in 1 .. l + (n + 1 - at) /\ i <= l OBVIOUS
  <2>2. QED BY <1>3, <2>1
<1>5. ASSUME NEW j \in at .. n PROVE b[l + 1 + (j - at)] = format[j]
  <2>1. PICK i \in 1 .. n + 1 - at : i = j - at + 1 /\ at + i - 1 = j
        /\ l + 1 + (j - at) = l + i
    OBVIOUS
  <2>2. l + i \in 1 .. l + (n + 1 - at) /\ ~(l + i <= l) /\ (l + i) - l = i
    BY <1>1, <2>1
  <2>3. b[l + i] = rest[i] BY <1>3, <2>2
  <2>4. QED BY <1>2, <2>1, <2>3
<1>6. SubSeq(b, 1, l) = a
  <2>1. 1 \in 1 .. Len(b) + 1 /\ l \in 1 - 1 .. Len(b) /\ l + 1 - 1 = l
    BY <1>1, <1>3
  <2>0. /\ SubSeq(b, 1, l) \in Seq(Chars) /\ Len(SubSeq(b, 1, l)) = l + 1 - 1
        /\ \A i \in 1 .. l + 1 - 1 : SubSeq(b, 1, l)[i] = b[1 + i - 1]
    BY <1>3, <2>1, SubSeqType
  <2>2. PICK c : c = SubSeq(b, 1, l) OBVIOUS
  <2>3. /\ c \in Seq(Chars) /\ Len(c) = l
        /\ \A i \in 1 .. l : c[i] = b[1 + i - 1]
    BY <2>0, <2>1, <2>2
  <2>4. \A i \in 1 .. l : c[i] = a[i] BY <1>4, <2>3
  <2>5. c = a BY <1>1, <2>3, <2>4, SeqEqual
  <2>6. QED BY <2>2, <2>5
<1>7. ASSUME NEW j \in at .. n + 1
      PROVE  SubSeq(b, l + 1 + (j - at), Len(b)) = Rest(format, j, n)
  <2>0. PICK p : p = l + 1 + (j - at) OBVIOUS
  <2> DEFINE c == SubSeq(b, p, Len(b))
             d == SubSeq(format, j, n)
  <2>1. /\ p \in 1 .. Len(b) + 1 /\ Len(b) \in Nat
        /\ Len(b) - p + 1 = n + 1 - j /\ n + 1 - j \in Nat
        /\ (p <= Len(b) <=> j <= n)
    BY <1>1, <1>3, <2>0
  <2>2. /\ c \in Seq(Chars) /\ Len(c) = n + 1 - j
        /\ \A i \in 1 .. n + 1 - j : c[i] = b[p + i - 1]
    <3>1. PICK e \in Nat : e = Len(b) BY <2>1
    <3>2. p \in 1 .. Len(b) + 1 /\ e \in p - 1 .. Len(b) /\ e + 1 - p = n + 1 - j
      BY <2>1, <3>1
    <3>3. c = SubSeq(b, p, e) BY <3>1
    <3> HIDE DEF c
    <3>4. /\ SubSeq(b, p, e) \in Seq(Chars) /\ Len(SubSeq(b, p, e)) = e + 1 - p
          /\ \A i \in 1 .. e + 1 - p : SubSeq(b, p, e)[i] = b[p + i - 1]
      BY <1>3, <3>2, SubSeqType
    <3>5. QED BY <3>2, <3>3, <3>4
  <2>3. /\ d \in Seq(Chars) /\ Len(d) = n + 1 - j
        /\ \A i \in 1 .. n + 1 - j : d[i] = format[j + i - 1]
    <3>1. j \in 1 .. Len(format) + 1 /\ n \in j - 1 .. Len(format) OBVIOUS
    <3>2. QED BY <3>1, SubSeqType
  <2> HIDE DEF c, d
  <2>4. ASSUME NEW i \in 1 .. n + 1 - j PROVE c[i] = d[i]
    <3>1. /\ j + i - 1 \in at .. n
          /\ l + 1 + ((j + i - 1) - at) = p + i - 1
      BY <1>1, <2>0
    <3>2. b[l + 1 + ((j + i - 1) - at)] = format[j + i - 1] BY <1>5, <3>1
    <3>3. QED BY <2>2, <2>3, <3>1, <3>2
  <2>5. c = d BY <2>2, <2>3, <2>4, SeqEqual
  <2>6. QED BY <2>0, <2>5 DEF c, d, Rest
<1>8. QED BY <1>1, <1>2, <1>3, <1>4, <1>5, <1>6, <1>7 DEF B, Rest

----------------------------------------------------------------------------
(* The items of a format.                                                    *)

LEMMA OneLong ==
  ASSUME NEW W, NEW text \in Seq(W), NEW at \in 1 .. Len(text)
  PROVE  SubSeq(text, at, at) = <<text[at]>>
<1>1. PICK c \in W : c = text[at] BY ElementOfSeq
<1>2. /\ SubSeq(text, at, at) \in Seq(W) /\ Len(SubSeq(text, at, at)) = 1
      /\ SubSeq(text, at, at)[1] = c
  <2>1. /\ at \in 1 .. Len(text) + 1 /\ at \in at - 1 .. Len(text)
        /\ 1 \in 1 .. at + 1 - at /\ at + 1 - at = 1 /\ at + 1 - 1 = at
    OBVIOUS
  <2>2. QED BY <1>1, <2>1, SubSeqType
<1>3. <<c>> \in Seq(W) /\ Len(<<c>>) = 1 /\ <<c>>[1] = c OBVIOUS
<1>4. \A i \in 1 .. 1 : SubSeq(text, at, at)[i] = <<c>>[i] BY <1>2, <1>3
<1>5. SubSeq(text, at, at) = <<c>> BY <1>2, <1>3, <1>4, SeqEqual
<1>6. QED BY <1>1, <1>5

LEMMA TwoLong ==
  ASSUME NEW W, NEW text \in Seq(W), NEW at \in 1 .. Len(text), at + 1 <= Len(text)
  PROVE  SubSeq(text, at, at + 1) = <<text[at], text[at + 1]>>
<1>0. at + 1 \in 1 .. Len(text) OBVIOUS
<1>1. PICK c \in W, d \in W : c = text[at] /\ d = text[at + 1]
  BY <1>0, ElementOfSeq
<1>2. PICK s \in Seq(W) : s = SubSeq(text, at, at + 1) /\ Len(s) = 2
        /\ s[1] = c /\ s[2] = d
  <2>1. /\ at \in 1 .. Len(text) + 1 /\ at + 1 \in at - 1 .. Len(text)
        /\ at + 1 + 1 - at = 2 /\ at + 1 - 1 = at /\ at + 2 - 1 = at + 1
    OBVIOUS
  <2>2. /\ SubSeq(text, at, at + 1) \in Seq(W)
        /\ Len(SubSeq(text, at, at + 1)) = 2
        /\ \A i \in 1 .. 2 : SubSeq(text, at, at + 1)[i] = text[at + i - 1]
    BY <2>1, SubSeqType
  <2>3. PICK s : s = SubSeq(text, at, at + 1) OBVIOUS
  <2>4. s[1] = text[at + 1 - 1] /\ s[2] = text[at + 2 - 1] BY <2>2, <2>3
  <2>5. QED BY <1>1, <2>1, <2>2, <2>3, <2>4
<1>3. PICK t \in Seq(W) : t = <<c, d>> /\ Len(t) = 2 /\ t[1] = c /\ t[2] = d
  <2>1. /\ <<c, d>> \in Seq(W) /\ Len(<<c, d>>) = 2
        /\ <<c, d>>[1] = c /\ <<c, d>>[2] = d
    OBVIOUS
  <2>2. QED BY <2>1, Zenon
<1>4. \A i \in 1 .. 2 : s[i] = t[i] BY <1>2, <1>3
<1>5. s = t BY <1>2, <1>3, <1>4, SeqEqual
<1>6. QED BY <1>1, <1>2, <1>3, <1>5

LEMMA ThreeLong ==
  ASSUME NEW W, NEW text \in Seq(W), NEW at \in 1 .. Len(text), at + 2 <= Len(text)
  PROVE  SubSeq(text, at, at + 2) = <<text[at], text[at + 1], text[at + 2]>>
<1>0. at + 1 \in 1 .. Len(text) /\ at + 2 \in 1 .. Len(text) OBVIOUS
<1>1. PICK c \in W, d \in W, e \in W :
        c = text[at] /\ d = text[at + 1] /\ e = text[at + 2]
  BY <1>0, ElementOfSeq
<1>2. PICK s \in Seq(W) : s = SubSeq(text, at, at + 2) /\ Len(s) = 3
        /\ s[1] = c /\ s[2] = d /\ s[3] = e
  <2>1. /\ at \in 1 .. Len(text) + 1 /\ at + 2 \in at - 1 .. Len(text)
        /\ at + 2 + 1 - at = 3 /\ at + 1 - 1 = at /\ at + 2 - 1 = at + 1
        /\ at + 3 - 1 = at + 2
    OBVIOUS
  <2>2. /\ SubSeq(text, at, at + 2) \in Seq(W)
        /\ Len(SubSeq(text, at, at + 2)) = 3
        /\ \A i \in 1 .. 3 : SubSeq(text, at, at + 2)[i] = text[at + i - 1]
    BY <2>1, SubSeqType, SMTT(30)
  <2>3. PICK s : s = SubSeq(text, at, at + 2) OBVIOUS
  <2>4. s[1] = text[at + 1 - 1] /\ s[2] = text[at + 2 - 1] /\ s[3] = text[at + 3 - 1]
    BY <2>2, <2>3
  <2>5. QED BY <1>1, <2>1, <2>2, <2>3, <2>4
<1>3. PICK t \in Seq(W) :
        t = <<c, d, e>> /\ Len(t) = 3 /\ t[1] = c /\ t[2] = d /\ t[3] = e
  <2>1. /\ <<c, d, e>> \in Seq(W) /\ Len(<<c, d, e>>) = 3
        /\ <<c, d, e>>[1] = c /\ <<c, d, e>>[2] = d /\ <<c, d, e>>[3] = e
    OBVIOUS
  <2>2. QED BY <2>1, Zenon
<1>4. \A i \in 1 .. Len(s) : s[i] = t[i] BY <1>2, <1>3
<1>5. s = t
  <2>1. Len(s) = Len(t) BY <1>2, <1>3
  <2>2. QED BY <1>4, <2>1, SeqEqual, ZenonT(30)
<1>6. QED BY <1>1, <1>2, <1>3, <1>5

ItemAt(format, i) == SubSeq(format, i, i + ItemSize(format, i) - 1)

\* What is assumed of strftime and of the calls.
LEMMA LocalType ==
  /\ "f" \notin DOMAIN Local /\ "%" \in DOMAIN Local
  /\ \A c \in DOMAIN Local : Local[c] \in Seq(STRING)
BY TimeAssumption

LEMMA CallType ==
  ASSUME NEW call \in Calls
  PROVE  call[1] \in Seq(STRING) /\ call[2] \in Nat /\ call[2] < Powers[10]
<1>1. call[1] \in Formats /\ call[2] \in Instants BY DEF Calls
<1>2. call[1] \in Seq(STRING) BY <1>1, TimeAssumption
<1>3. PICK ns : ns = call[2] OBVIOUS
<1>4. ns \in Nat /\ ns < Powers[10]
  <2>1. ns \in Instants BY <1>1, <1>3
  <2>2. ns \in Nat /\ ns < 1000000000 BY <2>1, InstantAssumption, SMTT(30)
  <2>3. Powers[10] = 1000000000 BY PowersAre, SMTT(30)
  <2>4. QED BY <2>2, <2>3, SMTT(30)
<1>5. QED BY <1>2, <1>3, <1>4

FractionItems == {<<"%", "f", "3">>, <<"%", "f", "6">>, <<"%", "f", "9">>, <<"%", "f">>}

LEMMA FractionLength ==
  ASSUME NEW item \in FractionItems
  PROVE  Len(item) \in {2, 3}
BY DEF FractionItems

LEMMA FractionSize ==
  ASSUME NEW format, NEW i, HasFraction(format, i)
  PROVE  /\ ~HasConversion(format, i)
         /\ ItemSize(format, i) =
              IF i + 2 <= Len(format) /\ format[i + 2] \in {"3", "6", "9"}
              THEN 3 ELSE 2
<1>1. ~HasConversion(format, i) BY LocalType DEF HasFraction, HasConversion
<1>2. QED BY <1>1 DEF ItemSize

\* A fraction: what the loop takes it for is what its item says.
LEMMA FractionItem ==
  ASSUME NEW format \in Seq(STRING), NEW ns \in Nat, ns < Powers[10],
         NEW i \in 1 .. Len(format), HasFraction(format, i),
         NEW type, type = getFractional(format, i)
  PROVE  /\ type \in Fractionals
         /\ ItemSize(format, i) = 2 + Padding(type)
         /\ i + ItemSize(format, i) <= Len(format) + 1
         /\ ItemAt(format, i) \in FractionItems
         /\ ItemText(ns, ItemAt(format, i)) = to_string(ns, type)
<1>1. i + 1 <= Len(format) /\ format[i] = "%" /\ format[i + 1] = "f"
  BY DEF HasFraction
<1>2. ItemSize(format, i) = IF i + 2 <= Len(format)
                                 /\ format[i + 2] \in {"3", "6", "9"} THEN 3 ELSE 2
  BY FractionSize
<1>3. PICK digit : digit = IF i + 2 <= Len(format) THEN format[i + 2] ELSE ""
  OBVIOUS
<1>4. type = CASE digit = "3" -> "Millisecond"
               [] digit = "6" -> "Microsecond"
               [] digit = "9" -> "Nanosecond"
               [] OTHER -> "NanosecondDefault"
  BY <1>3 DEF getFractional
<1>5. /\ digit = "3" => type = "Millisecond"
      /\ digit = "6" => type = "Microsecond"
      /\ digit = "9" => type = "Nanosecond"
      /\ digit \notin {"3", "6", "9"} => type = "NanosecondDefault"
  BY <1>4
<1>6. type \in Fractionals BY <1>5 DEF Fractionals
<1>7. to_string(ns, type) = Decimals(ns, zeroes(type)) BY <1>6, FractionIs
<1>8. CASE digit \in {"3", "6", "9"}
  <2>1. i + 2 <= Len(format) /\ format[i + 2] = digit BY <1>3, <1>8
  <2>2. ItemSize(format, i) = 3 /\ Padding(type) = 1
    BY <1>2, <1>5, <1>8, <2>1 DEF Padding
  <2>3. ItemAt(format, i) = <<"%", "f", digit>>
    <3>1. i + 3 - 1 = i + 2 OBVIOUS
    <3>2. QED BY <1>1, <2>1, <2>2, <3>1, ThreeLong DEF ItemAt
  <2>4. ItemText(ns, <<"%", "f", digit>>) = Decimals(ns, zeroes(type))
    <3>1. CASE digit = "3"
      <4>1. zeroes(type) = 3 BY <1>5, <3>1 DEF zeroes
      <4>2. QED BY <3>1, <4>1 DEF ItemText
    <3>2. CASE digit = "6"
      <4>1. zeroes(type) = 6 BY <1>5, <3>2 DEF zeroes
      <4>2. QED BY <3>2, <4>1 DEF ItemText
    <3>3. CASE digit = "9"
      <4>1. zeroes(type) = 9 BY <1>5, <3>3 DEF zeroes
      <4>2. QED BY <3>3, <4>1 DEF ItemText
    <3>4. QED BY <1>8, <3>1, <3>2, <3>3
  <2>5. ItemAt(format, i) \in FractionItems BY <1>8, <2>3 DEF FractionItems
  <2>6. QED BY <1>6, <1>7, <2>1, <2>2, <2>3, <2>4, <2>5
<1>9. CASE digit \notin {"3", "6", "9"}
  <2>1. ItemSize(format, i) = 2 /\ Padding(type) = 0
    BY <1>2, <1>3, <1>5, <1>9 DEF Padding
  <2>2. ItemAt(format, i) = <<"%", "f">>
    <3>1. i + 2 - 1 = i + 1 OBVIOUS
    <3>2. QED BY <1>1, <2>1, <3>1, TwoLong DEF ItemAt
  <2>3. ItemText(ns, <<"%", "f">>) = Decimals(ns, zeroes(type))
    <3>1. zeroes(type) = 9 BY <1>5, <1>9 DEF zeroes
    <3>2. PICK item : item = <<"%", "f">> OBVIOUS
    <3>3. Len(item) = 2 /\ item[2] = "f" BY <3>2
    <3>4. item[2] \notin DOMAIN Local BY <3>3, LocalType
    <3>0. /\ Len(<<"%", "f", "3">>) = 3 /\ Len(<<"%", "f", "6">>) = 3
          /\ Len(<<"%", "f", "9">>) = 3
      OBVIOUS
    <3>6. item # <<"%", "f", "3">> /\ item # <<"%", "f", "6">> BY <3>0, <3>3, SMTT(30)
    <3>5. QED BY <3>1, <3>2, <3>4, <3>6 DEF ItemText
  <2>4. i + 2 <= Len(format) + 1 BY <1>1
  <2>5. ItemAt(format, i) \in FractionItems BY <2>2 DEF FractionItems
  <2>6. QED BY <1>6, <1>7, <2>1, <2>2, <2>3, <2>4, <2>5
<1>10. QED BY <1>8, <1>9

\* What strftime converts.
LEMMA ConversionItem ==
  ASSUME NEW format \in Seq(STRING), NEW i \in 1 .. Len(format),
         HasConversion(format, i)
  PROVE  /\ ~HasFraction(format, i)
         /\ ItemSize(format, i) = 2 /\ i + 2 <= Len(format) + 1
         /\ ItemAt(format, i) = <<"%", format[i + 1]>>
         /\ ItemAt(format, i) \notin FractionItems
         /\ \A ns : ItemText(ns, ItemAt(format, i)) = Local[format[i + 1]]
<1>1. /\ i + 1 <= Len(format) /\ format[i] = "%" /\ format[i + 1] # "f"
      /\ format[i + 1] \in DOMAIN Local
  BY LocalType DEF HasConversion
<1>2. ~HasFraction(format, i) BY <1>1 DEF HasFraction
<1>3. ItemSize(format, i) = 2 BY <1>2 DEF ItemSize
<1>4. ItemAt(format, i) = <<"%", format[i + 1]>>
  <2>1. i + 2 - 1 = i + 1 OBVIOUS
  <2>2. QED BY <1>1, <1>3, <2>1, TwoLong DEF ItemAt
<1>5. PICK item : item = <<"%", format[i + 1]>> OBVIOUS
<1>6. Len(item) = 2 /\ item[2] = format[i + 1] /\ item[2] # "f" BY <1>1, <1>5
<1>7. item \notin FractionItems BY <1>6 DEF FractionItems
<1>8. \A ns : ItemText(ns, item) = Local[item[2]]
  BY <1>1, <1>6, <1>7 DEF ItemText, FractionItems
<1>9. QED BY <1>1, <1>2, <1>3, <1>4, <1>5, <1>6, <1>7, <1>8

\* Everything else is shown as it is.
LEMMA OtherItem ==
  ASSUME NEW format \in Seq(STRING), NEW i \in 1 .. Len(format),
         ~HasFraction(format, i), ~HasConversion(format, i)
  PROVE  /\ ItemSize(format, i) = 1
         /\ ItemAt(format, i) = <<format[i]>>
         /\ ItemAt(format, i) \notin FractionItems
         /\ \A ns : ItemText(ns, ItemAt(format, i)) = <<format[i]>>
<1>1. ItemSize(format, i) = 1 BY DEF ItemSize
<1>2. ItemAt(format, i) = <<format[i]>>
  <2>1. i + 1 - 1 = i OBVIOUS
  <2>2. QED BY <1>1, <2>1, OneLong DEF ItemAt
<1>3. PICK item : item = <<format[i]>> /\ Len(item) = 1
  <2>1. PICK c \in STRING : c = format[i] BY ElementOfSeq
  <2>2. Len(<<c>>) = 1 OBVIOUS
  <2>3. QED BY <2>1, <2>2
<1>4. Len(item) # 2 /\ Len(item) # 3 BY <1>3
<1>5. item \notin FractionItems BY <1>4, FractionLength
<1>6. \A ns : ItemText(ns, item) = item BY <1>4, <1>5 DEF ItemText, FractionItems
<1>7. QED BY <1>1, <1>2, <1>3, <1>5, <1>6

\* The items are pieces of the format.
LEMMA ItemSizing ==
  ASSUME NEW format \in Seq(STRING), NEW n \in Nat, n = Len(format)
  PROVE  Sizing([i \in DOMAIN format |-> ItemSize(format, i)], n)
<1>1. DOMAIN format = 1 .. n OBVIOUS
<1>2. ASSUME NEW i \in 1 .. n
      PROVE  ItemSize(format, i) \in Nat \ {0} /\ i + ItemSize(format, i) <= n + 1
  <2>1. CASE HasFraction(format, i)
    <3>1. i + 1 <= n BY <2>1 DEF HasFraction
    <3>2. ItemSize(format, i) = IF i + 2 <= Len(format)
                                 /\ format[i + 2] \in {"3", "6", "9"} THEN 3 ELSE 2
      BY <2>1, FractionSize
    <3>3. QED BY <3>1, <3>2
  <2>2. CASE HasConversion(format, i) BY <2>2, ConversionItem
  <2>3. CASE ~HasFraction(format, i) /\ ~HasConversion(format, i)
    BY <2>3, OtherItem
  <2>4. QED BY <2>1, <2>2, <2>3
<1>3. QED BY <1>1, <1>2 DEF Sizing

LEMMA ItemSizeType ==
  ASSUME NEW format \in Seq(STRING), NEW i \in 1 .. Len(format)
  PROVE  ItemSize(format, i) \in Nat
<1>1. Sizing([j \in DOMAIN format |-> ItemSize(format, j)], Len(format))
  BY ItemSizing
<1>2. QED BY <1>1 DEF Sizing

\* s are the starts of the items.
ItemStarts(s, format, n) ==
  /\ s \in [0 .. n -> 1 .. n + 1] /\ s[0] = 1 /\ s[n] = n + 1
  /\ \A k \in 0 .. n : s[k] > n \/ s[k] >= k + 1
  /\ \A k \in 0 .. n - 1 :
       IF s[k] <= n
       THEN /\ Items(format)[k + 1] = ItemAt(format, s[k])
            /\ s[k + 1] = s[k] + ItemSize(format, s[k])
       ELSE Items(format)[k + 1] = <<>> /\ s[k + 1] = s[k]

LEMMA ItemsAre ==
  ASSUME NEW format \in Seq(STRING), NEW n \in Nat, n = Len(format)
  PROVE  /\ \E s : ItemStarts(s, format, n)
         /\ Items(format) \in Seq(Seq(STRING)) /\ Len(Items(format)) = n
<1> DEFINE size == [i \in DOMAIN format |-> ItemSize(format, i)]
           s == Starts(format, size)
<1>1. Sizing(size, n) BY ItemSizing
<1>2. \A i \in 1 .. n : size[i] = ItemSize(format, i) OBVIOUS
<1> HIDE DEF size
<1>3. Cuts(s, format, size, n) BY <1>1, StartsAre
<1>4. /\ \A k \in 0 .. n : s[k] >= k + 1 \/ s[k] = n + 1
      /\ s[n] = n + 1
  <2> HIDE DEF s
  <2>1. QED BY <1>1, <1>3, CutsEnd
<1>5. Items(format) = [k \in 1 .. n |-> SubSeq(format, s[k - 1], s[k] - 1)]
  BY DEF Items, Pieces, size
<1> HIDE DEF s
<1>6. ASSUME NEW k \in 0 .. n - 1
      PROVE  /\ s[k] \in 1 .. n + 1 /\ s[k + 1] \in 1 .. n + 1 /\ s[k + 1] >= s[k]
             /\ Items(format)[k + 1] = SubSeq(format, s[k], s[k + 1] - 1)
             /\ s[k] <= n => s[k + 1] = s[k] + ItemSize(format, s[k])
             /\ s[k] = n + 1 => s[k + 1] = s[k]
  <2>1. s[k] \in 1 .. n + 1 /\ s[k + 1] = Behind(format, size, s[k])
    BY <1>3 DEF Cuts
  <2>2. k + 1 \in 1 .. n /\ (k + 1) - 1 = k OBVIOUS
  <2>3. Items(format)[k + 1] = SubSeq(format, s[k], s[k + 1] - 1) BY <1>5, <2>2
  <2>4. PICK i \in 1 .. n + 1 : i = s[k] BY <2>1
  <2>5. /\ Behind(format, size, i) \in 1 .. n + 1
        /\ i <= n => i + size[i] = Behind(format, size, i) /\ Behind(format, size, i) > i
        /\ i = n + 1 => Behind(format, size, i) = i
    BY <1>1, BehindType
  <2>6. PICK m \in 1 .. n + 1 : m = s[k + 1] /\ m = Behind(format, size, i)
    BY <2>1, <2>4, <2>5
  <2>7. /\ m >= i
        /\ i <= n => m = i + ItemSize(format, i)
        /\ i = n + 1 => m = i
    BY <1>2, <2>5, <2>6
  <2>8. QED BY <2>3, <2>4, <2>6, <2>7
<1>7. ASSUME NEW k \in 0 .. n - 1
      PROVE  IF s[k] <= n
             THEN /\ Items(format)[k + 1] = ItemAt(format, s[k])
                  /\ s[k + 1] = s[k] + ItemSize(format, s[k])
             ELSE Items(format)[k + 1] = <<>> /\ s[k + 1] = s[k]
  <2>1. CASE s[k] <= n
    <3>1. s[k + 1] = s[k] + ItemSize(format, s[k]) BY <1>6, <2>1
    <3>2. Items(format)[k + 1] = SubSeq(format, s[k], s[k + 1] - 1) BY <1>6
    <3>3. ItemAt(format, s[k]) = SubSeq(format, s[k], s[k + 1] - 1)
      <4>1. PICK i \in Int, m \in Int : i = s[k] /\ m = s[k + 1] BY <1>6
      <4>2. i \in 1 .. n BY <1>6, <2>1, <4>1
      <4>3. PICK z \in Nat : z = ItemSize(format, i) BY <4>2, ItemSizeType
      <4>4. m - 1 = i + z - 1 BY <3>1, <4>1, <4>3, SMTT(30)
      <4>5. ItemAt(format, i) = SubSeq(format, i, m - 1)
        BY <4>3, <4>4, Zenon DEF ItemAt
      <4>6. QED BY <4>1, <4>5
    <3>4. QED BY <2>1, <3>1, <3>2, <3>3
  <2>2. CASE ~(s[k] <= n)
    <3>1. s[k] = n + 1 /\ s[k + 1] = s[k] BY <1>6, <2>2
    <3>2. s[k + 1] - 1 < s[k] /\ s[k] \in Int /\ s[k + 1] - 1 \in Int BY <3>1
    <3>3. SubSeq(format, s[k], s[k + 1] - 1) = <<>> BY <3>2, SubSeqEmpty
    <3>4. QED BY <1>6, <2>2, <3>1, <3>3
  <2>3. QED BY <2>1, <2>2
<1>8. ASSUME NEW k \in 1 .. n
      PROVE  SubSeq(format, s[k - 1], s[k] - 1) \in Seq(STRING)
  <2>1. PICK j \in 0 .. n - 1 : j = k - 1 /\ j + 1 = k
    <3>1. k - 1 \in 0 .. n - 1 /\ (k - 1) + 1 = k OBVIOUS
    <3>2. QED BY <3>1
  <2>2. s[j] \in 1 .. n + 1 /\ s[j + 1] - 1 \in s[j] - 1 .. n BY <1>6
  <2>3. QED BY <2>1, <2>2, SubSeqType
<1>9. Items(format) \in Seq(Seq(STRING)) /\ Len(Items(format)) = n
  BY <1>5, <1>8
<1>10. ItemStarts(s, format, n) BY <1>3, <1>4, <1>7 DEF ItemStarts, Cuts
<1>11. QED BY <1>9, <1>10

\* Only "%%f" has a fraction inside of an item.
LEMMA NoneInside ==
  ASSUME NEW format \in Seq(STRING), NEW n \in Nat, n = Len(format),
         ~SaysFraction(Items(format)), NEW s, ItemStarts(s, format, n),
         NEW k \in 0 .. n - 1, s[k] <= n, ~HasFraction(format, s[k]),
         NEW j \in s[k] .. s[k + 1] - 1
  PROVE  ~HasFraction(format, j)
<1>1. PICK i \in 1 .. n : i = s[k] BY DEF ItemStarts
<1>2. /\ Items(format)[k + 1] = ItemAt(format, i)
      /\ s[k + 1] = i + ItemSize(format, i)
  BY <1>1 DEF ItemStarts
<1>3. CASE ~HasConversion(format, i)
  <2>1. ItemSize(format, i) = 1 BY <1>1, <1>3, OtherItem
  <2>2. j = i BY <1>1, <1>2, <2>1
  <2>3. QED BY <1>1, <2>2
<1>4. CASE HasConversion(format, i) /\ HasFraction(format, j)
  <2>1. ItemSize(format, i) = 2 /\ ItemAt(format, i) = <<"%", format[i + 1]>>
    BY <1>4, ConversionItem
  <2>2. j \in i .. i + 1 BY <1>1, <1>2, <2>1
  <2>3. j = i + 1 BY <1>1, <1>4, <2>2
  <2>4. /\ i + 2 <= n /\ format[i + 1] = "%" /\ format[i + 2] = "f"
    <3>1. j + 1 = i + 2 BY <2>3
    <3>2. QED BY <1>4, <2>3, <3>1 DEF HasFraction
  <2>5. Items(format)[k + 1] = <<"%", "%">> BY <1>2, <2>1, <2>4
  <2>6. s[k + 1] = i + 2 BY <1>2, <2>1
  <2>7. k + 1 \in 0 .. n - 1
    <3>1. k + 1 \in 0 .. n OBVIOUS
    <3>2. s[k + 1] > n \/ s[k + 1] >= (k + 1) + 1 BY <3>1 DEF ItemStarts
    <3>3. QED BY <2>4, <2>6, <3>2
  <2>8. Items(format)[(k + 1) + 1] = ItemAt(format, i + 2)
    BY <2>4, <2>6, <2>7 DEF ItemStarts
  <2>9. ItemAt(format, i + 2) = <<format[i + 2]>>
    <3>1. i + 2 \in 1 .. Len(format) BY <2>4
    <3>2. format[i + 2] # "%" BY <2>4
    <3>3. ~HasFraction(format, i + 2) /\ ~HasConversion(format, i + 2)
      BY <3>2 DEF HasFraction, HasConversion
    <3>4. QED BY <3>1, <3>3, OtherItem
  <2>10. Items(format)[(k + 1) + 1] = <<"f">> BY <2>4, <2>8, <2>9
  <2>11. k + 1 \in 1 .. Len(Items(format)) - 1 BY <2>7, ItemsAre
  <2>12. QED BY <2>5, <2>10, <2>11 DEF SaysFraction
<1>5. QED BY <1>3, <1>4

\* What comes behind a text is the same as in the format.
LEMMA SameBehind ==
  ASSUME NEW a \in Seq(Chars), NEW format \in Seq(Chars), NEW n \in Nat,
         n = Len(format), NEW at \in 1 .. n + 1, NEW j \in at .. n,
         NEW i, i = Len(a) + 1 + (j - at)
  PROVE  LET b == Buffer(a, format, at, n)
         IN /\ HasFraction(b, i) <=> HasFraction(format, j)
            /\ HasFraction(b, i) => getFractional(b, i) = getFractional(format, j)
<1> DEFINE B == Buffer(a, format, at, n)
<1>0. /\ B \in Seq(Chars) /\ Len(B) = Len(a) + (n + 1 - at)
      /\ \A m \in at .. n : B[Len(a) + 1 + (m - at)] = format[m]
  BY GoesOn, ZenonT(30)
<1> HIDE DEF B
<1>1. PICK b \in Seq(Chars) :
        /\ b = B /\ Len(b) = Len(a) + (n + 1 - at) /\ Len(a) \in Nat
        /\ \A m \in at .. n : b[Len(a) + 1 + (m - at)] = format[m]
  <2>1. Len(a) \in Nat OBVIOUS
  <2>2. QED BY <1>0, <2>1, ZenonT(30)
<1>2. i + 1 <= Len(b) <=> j + 1 <= n BY <1>1, SMTT(30)
<1>3. i + 2 <= Len(b) <=> j + 2 <= n BY <1>1
<1>4. b[i] = format[j] BY <1>1
<1>5. ASSUME j + 1 <= n PROVE b[i + 1] = format[j + 1]
  <2>1. j + 1 \in at .. n /\ i + 1 = Len(a) + 1 + ((j + 1) - at) BY <1>1, <1>5
  <2>2. QED BY <1>1, <2>1
<1>6. ASSUME j + 2 <= n PROVE b[i + 2] = format[j + 2]
  <2>1. j + 2 \in at .. n /\ i + 2 = Len(a) + 1 + ((j + 2) - at) BY <1>1, <1>6
  <2>2. QED BY <1>1, <2>1
<1>7. HasFraction(b, i) <=> HasFraction(format, j)
  BY <1>2, <1>4, <1>5 DEF HasFraction
<1>8. getFractional(b, i) = getFractional(format, j)
  <2>1. (IF i + 2 <= Len(b) THEN b[i + 2] ELSE "")
          = (IF j + 2 <= Len(format) THEN format[j + 2] ELSE "")
    BY <1>3, <1>6
  <2>2. QED BY <2>1 DEF getFractional
<1>9. QED BY <1>1, <1>7, <1>8 DEF B

----------------------------------------------------------------------------
(* The fractions are put in.                                                 *)

Put(ns, item) == IF item \in FractionItems THEN ItemText(ns, item) ELSE item
Puts(ns, items) == [k \in DOMAIN items |-> Put(ns, items[k])]

LEMMA StringChars == Seq(STRING) \subseteq Seq(Chars)
<1> SUFFICES ASSUME NEW s \in Seq(STRING) PROVE s \in Seq(Chars) OBVIOUS
<1>1. \A i \in 1 .. Len(s) : s[i] \in Chars BY ElementOfSeq DEF Chars
<1>2. QED BY <1>1

LEMMA NoDigit ==
  ASSUME NEW b, NEW i, b[i] \in DigitChars
  PROVE  ~HasFraction(b, i) /\ ~HasConversion(b, i)
<1>1. b[i] # "%" BY DEF DigitChars
<1>2. QED BY <1>1 DEF HasFraction, HasConversion

\* Each kind of an item, and what is put in its place.
LEMMA PutKinds ==
  ASSUME NEW format \in Seq(STRING), NEW ns \in Nat, ns < Powers[10],
         NEW i \in 1 .. Len(format)
  PROVE  /\ HasFraction(format, i) =>
              /\ Put(ns, ItemAt(format, i)) = ItemText(ns, ItemAt(format, i))
              /\ \E z \in {3, 6, 9} : ItemText(ns, ItemAt(format, i)) = Decimals(ns, z)
         /\ ~HasFraction(format, i) => Put(ns, ItemAt(format, i)) = ItemAt(format, i)
<1>1. CASE HasFraction(format, i)
  <2>1. PICK type \in Fractionals : ItemText(ns, ItemAt(format, i)) = to_string(ns, type)
    BY <1>1, FractionItem
  <2>2. \E z \in {3, 6, 9} : ItemText(ns, ItemAt(format, i)) = Decimals(ns, z)
    BY <2>1, FractionIs
  <2>3. ItemAt(format, i) \in FractionItems BY <1>1, FractionItem
  <2>4. QED BY <1>1, <2>2, <2>3 DEF Put
<1>2. CASE HasConversion(format, i) BY <1>2, ConversionItem DEF Put
<1>3. CASE ~HasFraction(format, i) /\ ~HasConversion(format, i)
  BY <1>3, OtherItem DEF Put
<1>4. QED BY <1>1, <1>2, <1>3

LEMMA ItemAtType ==
  ASSUME NEW format \in Seq(STRING), NEW i \in 1 .. Len(format)
  PROVE  ItemAt(format, i) \in Seq(STRING)
<1>1. Sizing([j \in DOMAIN format |-> ItemSize(format, j)], Len(format))
  BY ItemSizing
<1>2. ItemSize(format, i) \in Nat \ {0} /\ i + ItemSize(format, i) <= Len(format) + 1
  BY <1>1 DEF Sizing
<1>3. PICK m \in i - 1 .. Len(format) : m = i + ItemSize(format, i) - 1 BY <1>2
<1>4. QED BY <1>3, SubSeqType DEF ItemAt

LEMMA PutType ==
  ASSUME NEW format \in Seq(STRING), NEW ns \in Nat, ns < Powers[10],
         NEW i \in 1 .. Len(format)
  PROVE  Put(ns, ItemAt(format, i)) \in Seq(Chars)
<1>1. CASE HasFraction(format, i)
  <2>1. PICK z \in {3, 6, 9} : Put(ns, ItemAt(format, i)) = Decimals(ns, z)
    BY <1>1, PutKinds
  <2>2. Decimals(ns, z) \in Seq(DigitChars) BY DecimalsType
  <2>3. DigitChars \subseteq Chars BY DEF Chars
  <2>4. QED BY <2>1, <2>2, <2>3
<1>2. CASE ~HasFraction(format, i) BY <1>2, PutKinds, ItemAtType, StringChars
<1>3. QED BY <1>1, <1>2

LEMMA PutNothing ==
  ASSUME NEW ns
  PROVE  <<>> \notin FractionItems /\ Put(ns, <<>>) = <<>>
<1>1. Len(<<>>) = 0 OBVIOUS
<1>2. <<>> \notin FractionItems BY <1>1, FractionLength
<1>3. QED BY <1>2 DEF Put

LEMMA PutsType ==
  ASSUME NEW format \in Seq(STRING), NEW n \in Nat, n = Len(format),
         NEW ns \in Nat, ns < Powers[10]
  PROVE  /\ Puts(ns, Items(format)) \in Seq(Seq(Chars))
         /\ Len(Puts(ns, Items(format))) = n
         /\ \A k \in 0 .. n - 1 :
              Puts(ns, Items(format))[k + 1] = Put(ns, Items(format)[k + 1])
<1>1. PICK s : ItemStarts(s, format, n) BY ItemsAre
<1>2. Items(format) \in Seq(Seq(STRING)) /\ Len(Items(format)) = n BY ItemsAre
<1>3. DOMAIN Items(format) = 1 .. n BY <1>2
<1>4. ASSUME NEW m \in 1 .. n PROVE Put(ns, Items(format)[m]) \in Seq(Chars)
  <2>1. PICK k \in 0 .. n - 1 : m = k + 1
    <3>1. m - 1 \in 0 .. n - 1 /\ (m - 1) + 1 = m OBVIOUS
    <3>2. QED BY <3>1
  <2>2. PICK i \in 1 .. n + 1 : i = s[k] BY <1>1 DEF ItemStarts
  <2>3. CASE i <= n
    <3>1. Items(format)[m] = ItemAt(format, i) BY <1>1, <2>1, <2>2, <2>3 DEF ItemStarts
    <3>2. QED BY <2>3, <3>1, PutType
  <2>4. CASE ~(i <= n)
    <3>1. Items(format)[m] = <<>> BY <1>1, <2>1, <2>2, <2>4 DEF ItemStarts
    <3>2. <<>> \in Seq(Chars) OBVIOUS
    <3>3. QED BY <3>1, <3>2, PutNothing
  <2>5. QED BY <2>3, <2>4
<1>5. Puts(ns, Items(format)) = [m \in 1 .. n |-> Put(ns, Items(format)[m])]
  BY <1>3 DEF Puts
<1>6. \A k \in 0 .. n - 1 : k + 1 \in 1 .. n OBVIOUS
<1>7. QED BY <1>4, <1>5, <1>6

\* The loop has put in what is in the head, before the rest of the format.
Loaded(loop, head, format, at, n) ==
  \E pos \in 1 .. Len(head) + 1 :
    /\ loop = Looping(Buffer(head, format, at, n), pos)
    /\ \A i \in pos .. Len(head) : ~HasFraction(Buffer(head, format, at, n), i)

\* The rest of a format, behind an item.
LEMMA RestSplit ==
  ASSUME NEW format \in Seq(STRING), NEW n \in Nat, n = Len(format),
         NEW i \in 1 .. n
  PROVE  /\ i + ItemSize(format, i) \in 1 .. n + 1 /\ ItemSize(format, i) \in Nat \ {0}
         /\ Rest(format, i, n)
              = ItemAt(format, i) \o Rest(format, i + ItemSize(format, i), n)
         /\ Len(ItemAt(format, i)) = ItemSize(format, i)
<1>1. Sizing([j \in DOMAIN format |-> ItemSize(format, j)], n) BY ItemSizing
<1>2. PICK z \in Nat \ {0} : z = ItemSize(format, i) /\ i + z <= n + 1
  BY <1>1 DEF Sizing
<1>3. PICK m \in i .. n : m = i + z - 1 /\ m + 1 = i + z
  <2>1. i + z - 1 \in i .. n /\ (i + z - 1) + 1 = i + z BY <1>2
  <2>2. QED BY <2>1
<1>4. SubSeq(format, i, m) \o Rest(format, m + 1, n) = Rest(format, i, n)
  <2>1. i \in 1 .. Len(format) + 1 /\ m \in i - 1 .. Len(format) /\ n \in m .. Len(format)
    OBVIOUS
  <2>2. QED BY <2>1, ConcatAdjacentSubSeq DEF Rest
<1>5. ItemAt(format, i) = SubSeq(format, i, m) BY <1>2, <1>3, Zenon DEF ItemAt
<1>6. Len(SubSeq(format, i, m)) = z
  <2>1. m + 1 - i = z /\ i \in 1 .. Len(format) + 1 /\ m \in i - 1 .. Len(format)
    BY <1>3
  <2>2. QED BY <2>1, SubSeqType
<1>7. i + ItemSize(format, i) = m + 1 /\ m + 1 \in 1 .. n + 1 BY <1>2, <1>3
<1>8. QED BY <1>2, <1>4, <1>5, <1>6, <1>7

\* An item with no fraction stays where it is.
LEMMA LoadOther ==
  ASSUME NEW format \in Seq(STRING), NEW n \in Nat, n = Len(format),
         NEW i \in 1 .. n, NEW head \in Seq(Chars), NEW loop,
         Loaded(loop, head, format, i, n), NEW next, next = i + ItemSize(format, i),
         \A j \in i .. next - 1 : ~HasFraction(format, j)
  PROVE  Loaded(loop, head \o ItemAt(format, i), format, next, n)
<1>1. PICK item \in Seq(Chars) : item = ItemAt(format, i)
  BY ItemAtType, StringChars
<1>2. PICK rest \in Seq(Chars) : rest = Rest(format, next, n)
  <2>1. next \in 1 .. n + 1 BY RestSplit
  <2>2. n \in next - 1 .. n BY <2>1
  <2>3. Rest(format, next, n) \in Seq(STRING) BY <2>1, <2>2, SubSeqType DEF Rest
  <2>4. QED BY <2>3, StringChars
<1>3. Rest(format, i, n) = item \o rest BY <1>1, <1>2, RestSplit
<1>11. Buffer(head \o item, format, next, n) = (head \o item) \o rest
  BY <1>2 DEF Buffer
<1>4. PICK b : b = Buffer(head, format, i, n) OBVIOUS
<1>5. b = (head \o item) \o rest
  <2>1. (head \o item) \o rest = head \o (item \o rest) BY ConcatAssociative, SMTT(30)
  <2>2. QED BY <1>3, <1>4, <2>1 DEF Buffer
<1>6. PICK pos \in 1 .. Len(head) + 1 :
        loop = Looping(b, pos) /\ \A m \in pos .. Len(head) : ~HasFraction(b, m)
  BY <1>4 DEF Loaded
<1>7. /\ Len(head \o item) = Len(head) + (next - i) /\ Len(head) \in Nat
      /\ next \in i + 1 .. n + 1
  <2>1. Len(head) \in Nat /\ Len(head \o item) = Len(head) + Len(item)
    BY ConcatProperties
  <2>2. next \in 1 .. n + 1 /\ Len(item) = next - i /\ next > i
    BY <1>1, RestSplit
  <2>3. QED BY <2>1, <2>2
<1>8. ASSUME NEW m \in pos .. Len(head \o item) PROVE ~HasFraction(b, m)
  <2>1. CASE m <= Len(head) BY <1>6, <1>7, <2>1
  <2>2. CASE ~(m <= Len(head))
    <3>1. PICK j \in i .. next - 1 : m = Len(head) + 1 + (j - i)
      <4>1. i + (m - Len(head) - 1) \in i .. next - 1
            /\ m = Len(head) + 1 + ((i + (m - Len(head) - 1)) - i)
        BY <1>6, <1>7, <2>2, SMTT(30)
      <4>2. QED BY <4>1
    <3>2. j \in i .. n /\ i \in 1 .. n + 1 BY <1>7, SMTT(30)
    <3>0. format \in Seq(Chars) BY StringChars
    <3>3. HasFraction(b, m) <=> HasFraction(format, j)
      BY <1>4, <3>1, <3>2, <3>0, SameBehind, SMTT(30)
    <3>4. QED BY <3>1, <3>3
  <2>3. QED BY <2>1, <2>2
<1>9. pos \in 1 .. Len(head \o item) + 1 BY <1>7
<1>10. Loaded(loop, head \o item, format, next, n)
  BY <1>5, <1>6, <1>8, <1>9, <1>11 DEF Loaded
<1>12. QED BY <1>1, <1>10

\* A fraction is put in by the next turn.
LEMMA LoadFraction ==
  ASSUME NEW format \in Seq(STRING), NEW n \in Nat, n = Len(format),
         NEW i \in 1 .. n, NEW head \in Seq(Chars), NEW loop,
         Loaded(loop, head, format, i, n), NEW next, next = i + ItemSize(format, i),
         NEW ns \in Nat, ns < Powers[10], HasFraction(format, i)
  PROVE  Loaded(Turn(ns, loop), head \o Put(ns, ItemAt(format, i)), format, next, n)
<1>1. PICK l \in Nat : l = Len(head) OBVIOUS
<1>2. PICK b : b = Buffer(head, format, i, n) OBVIOUS
<1>3. PICK pos \in 1 .. l + 1 :
        loop = Looping(b, pos) /\ \A m \in pos .. l : ~HasFraction(b, m)
  BY <1>1, <1>2 DEF Loaded
<1>0. i \in 1 .. n + 1 /\ i \in i .. n OBVIOUS
<1>4. format \in Seq(Chars) BY StringChars
<1>24. LET B == Buffer(head, format, i, n)
       IN /\ B \in Seq(Chars) /\ Len(B) = Len(head) + (n + 1 - i)
          /\ Rest(B, 1, Len(head)) = head
          /\ \A j \in i .. n + 1 :
               Rest(B, Len(head) + 1 + (j - i), Len(B)) = Rest(format, j, n)
  BY <1>0, <1>4, GoesOn, SMTT(30)
<1>5. /\ b \in Seq(Chars) /\ Len(b) = l + (n + 1 - i) /\ Rest(b, 1, l) = head
      /\ \A j \in i .. n + 1 : Rest(b, l + 1 + (j - i), Len(b)) = Rest(format, j, n)
  BY <1>1, <1>2, <1>24
<1>6. PICK at \in pos .. Len(b) : at = l + 1 /\ at - 1 = l /\ at = l + 1 + (i - i)
  <2>1. l + 1 \in pos .. Len(b) /\ (l + 1) - 1 = l /\ l + 1 = l + 1 + (i - i)
    BY <1>3, <1>5
  <2>2. QED BY <2>1
<1>7. PICK type : type = getFractional(format, i) OBVIOUS
<1>8. HasFraction(b, at) /\ getFractional(b, at) = type
  BY <1>0, <1>1, <1>2, <1>4, <1>6, <1>7, SameBehind, SMTT(30)
<1>9. /\ type \in Fractionals /\ ItemSize(format, i) = 2 + Padding(type)
      /\ ItemText(ns, ItemAt(format, i)) = to_string(ns, type)
  BY <1>7, FractionItem
<1>10. PICK text : text = to_string(ns, type) OBVIOUS
<1>11. PICK z \in {3, 6, 9} : text = Decimals(ns, z) BY <1>9, <1>10, FractionIs
<1>12. /\ text \in Seq(DigitChars) /\ text \in Seq(Chars) /\ Len(text) = z
       /\ \A m \in 1 .. z : text[m] \in DigitChars
  <2>1. text \in Seq(DigitChars) /\ Len(text) = z BY <1>11, DecimalsType
  <2>2. \A m \in 1 .. z : text[m] \in DigitChars BY <2>1, ElementOfSeq
  <2>3. \A m \in 1 .. z : text[m] \in Chars BY <2>2 DEF Chars
  <2>4. QED BY <2>1, <2>2, <2>3
<1>13. Put(ns, ItemAt(format, i)) = text BY <1>9, <1>10, PutKinds
<1>14. next \in i .. n + 1 /\ at + 2 + Padding(type) = l + 1 + (next - i)
  <2>1. PICK p \in {0, 1} : p = Padding(type) BY DEF Padding
  <2>2. next \in 1 .. n + 1 BY RestSplit
  <2>3. next = i + (2 + p) BY <1>9, <2>1
  <2>4. QED BY <1>6, <2>1, <2>2, <2>3, SMTT(30)
<1>15. Rest(b, at + 2 + Padding(type), Len(b)) = Rest(format, next, n)
  BY <1>5, <1>14
<1>16. Turn(ns, loop) = Looping(Buffer(head \o text, format, next, n), at + 2)
  <2>1. \A m \in pos .. at - 1 : ~HasFraction(b, m) BY <1>3, <1>6
  <2>2. Len(b) \in Nat /\ pos \in Nat BY <1>5
  <2>3. Turn(ns, Looping(b, pos)) =
          Looping(Rest(b, 1, at - 1) \o to_string(ns, type)
                    \o Rest(b, at + 2 + Padding(type), Len(b)), at + 2)
    BY <1>8, <2>1, <2>2, TurnPuts DEF Rest
  <2>4. Rest(b, 1, at - 1) = head BY <1>5, <1>6
  <2>5. QED BY <1>3, <1>10, <1>15, <2>3, <2>4 DEF Buffer
<1>17. PICK whole \in Seq(Chars) : whole = head \o text
  BY <1>12, ConcatProperties
<1>18. /\ Len(whole) = l + z
       /\ \A m \in 1 .. l + z : whole[m] = IF m <= l THEN head[m] ELSE text[m - l]
  BY <1>1, <1>12, <1>17, ConcatProperties
<1>19. PICK all : all = Buffer(whole, format, next, n) OBVIOUS
<1>20. \A m \in 1 .. Len(whole) : all[m] = whole[m]
  <2>1. next \in 1 .. n + 1 BY <1>14
  <2>2. QED BY <1>4, <1>19, <2>1, GoesOn, SMTT(30)
<1>21. ASSUME NEW m \in at + 2 .. Len(whole) PROVE ~HasFraction(all, m)
  <2>1. m \in 1 .. l + z /\ ~(m <= l) /\ m - l \in 1 .. z BY <1>6, <1>18
  <2>2. all[m] = text[m - l] BY <1>18, <1>20, <2>1
  <2>3. all[m] \in DigitChars BY <1>12, <2>1, <2>2
  <2> HIDE DEF DigitChars
  <2>4. QED BY <2>3, NoDigit, Zenon
<1>22. at + 2 \in 1 .. Len(whole) + 1
  <2>1. Len(whole) = l + z /\ z >= 3 BY <1>18
  <2>2. QED BY <1>6, <2>1
<1>23. QED BY <1>13, <1>16, <1>17, <1>19, <1>21, <1>22 DEF Loaded

\* Behind the last item there is nothing to find.
LEMMA LoadedAll ==
  ASSUME NEW format \in Seq(STRING), NEW n \in Nat, n = Len(format),
         NEW head \in Seq(Chars), NEW at, at = n + 1, NEW loop,
         Loaded(loop, head, format, at, n), NEW ns
  PROVE  loop.buffer = head /\ Turn(ns, loop) = loop
<1>1. Rest(format, at, n) = <<>> BY SubSeqEmpty DEF Rest
<1>2. head \o <<>> = head BY ConcatEmptySeq
<1>3. PICK pos \in 1 .. Len(head) + 1 :
        loop = Looping(head, pos) /\ \A i \in pos .. Len(head) : ~HasFraction(head, i)
  BY <1>1, <1>2 DEF Loaded, Buffer
<1>4. pos \in Nat /\ Len(head) \in Nat OBVIOUS
<1>5. Turn(ns, loop) = loop BY <1>3, <1>4, TurnEnds
<1>6. QED BY <1>3, <1>5 DEF Looping

\* The loop puts in all fractions.
LEMMA FractionsPut ==
  ASSUME NEW format \in Seq(STRING), NEW n \in Nat, n = Len(format),
         NEW ns \in Nat, ns < Powers[10], ~SaysFraction(Items(format))
  PROVE  localtime_formatted_fractions(ns, format) = FlattenSeq(Puts(ns, Items(format)))
<1>1. PICK s : ItemStarts(s, format, n) BY ItemsAre
<1>2. PICK puts \in Seq(Seq(Chars)) :
        /\ puts = Puts(ns, Items(format)) /\ Len(puts) = n
        /\ \A k \in 0 .. n - 1 : puts[k + 1] = Put(ns, Items(format)[k + 1])
  BY PutsType
<1>3. PICK r \in [0 .. n -> Seq(Chars)] : Joins(r, puts, n) /\ FlattenSeq(puts) = r[n]
  BY <1>2, FlattenSteps
<1>4. PICK loop :
        /\ Turns(loop, ns, format, n)
        /\ localtime_formatted_fractions(ns, format) = loop[n].buffer
  BY LoopIs
<1> DEFINE There(t, k) == Loaded(loop[t], r[k], format, s[k], n)
           S == {k \in 0 .. n : \E t \in 0 .. k : There(t, k)}
<1>5. 0 \in S
  <2>1. Len(<<>>) = 0 /\ <<>> \in Seq(Chars) OBVIOUS
  <2>2. Buffer(<<>>, format, 1, n) = format
    <3>1. SubSeq(format, 1, n) = format BY SubSeqFull
    <3>2. <<>> \o format = format BY ConcatEmptySeq
    <3>3. QED BY <3>1, <3>2 DEF Buffer, Rest
  <2>3. Loaded(Looping(format, 1), <<>>, format, 1, n)
    <3>1. 1 \in 1 .. Len(<<>>) + 1 /\ \A i \in 1 .. Len(<<>>) : ~HasFraction(format, i)
      BY <2>1
    <3>2. QED BY <2>2, <3>1 DEF Loaded
  <2>4. loop[0] = Looping(format, 1) /\ r[0] = <<>> /\ s[0] = 1
    BY <1>1, <1>3, <1>4 DEF Turns, Joins, ItemStarts
  <2>5. There(0, 0) BY <2>3, <2>4
  <2> HIDE DEF There
  <2>6. QED BY <2>5
<1>6. ASSUME NEW k \in 0 .. n - 1, k \in S PROVE k + 1 \in S
  <2>1. PICK t \in 0 .. k : There(t, k)
    <3> HIDE DEF There
    <3>1. QED BY <1>6
  <2>2. PICK head \in Seq(Chars) : head = r[k]
    <3>1. k \in 0 .. n OBVIOUS
    <3>2. r[k] \in Seq(Chars) BY <1>3, <3>1
    <3>3. QED BY <3>2
  <2>3. PICK i \in 1 .. n + 1 : i = s[k]
    <3>1. k \in 0 .. n OBVIOUS
    <3>2. s[k] \in 1 .. n + 1 BY <1>1, <3>1 DEF ItemStarts
    <3>3. QED BY <3>2
  <2>4. Loaded(loop[t], head, format, i, n) BY <2>1, <2>2, <2>3
  <2>5. r[k + 1] = head \o Put(ns, Items(format)[k + 1])
    BY <1>2, <1>3, <2>2 DEF Joins
  <2>6. CASE ~(i <= n)
    <3>1. s[k + 1] = i /\ Items(format)[k + 1] = <<>>
      BY <1>1, <2>3, <2>6 DEF ItemStarts
    <3>2. r[k + 1] = head BY <2>5, <3>1, PutNothing, ConcatEmptySeq
    <3>3. There(t, k + 1) BY <2>4, <3>1, <3>2
    <3>4. t \in 0 .. k + 1 /\ k + 1 \in 0 .. n OBVIOUS
    <3> HIDE DEF There
    <3>5. QED BY <3>3, <3>4
  <2>7. CASE i <= n
    <3>0. i \in 1 .. n BY <2>7
    <3>1. /\ Items(format)[k + 1] = ItemAt(format, i)
          /\ s[k + 1] = i + ItemSize(format, i)
      BY <1>1, <2>3, <2>7 DEF ItemStarts
    <3>2. PICK next : next = i + ItemSize(format, i) OBVIOUS
    <3>3. CASE HasFraction(format, i)
      <4>1. Loaded(Turn(ns, loop[t]), head \o Put(ns, ItemAt(format, i)), format, next, n)
        BY <2>4, <3>0, <3>2, <3>3, LoadFraction
      <4>2. t \in 0 .. n - 1 /\ t + 1 \in 0 .. k + 1 /\ k + 1 \in 0 .. n OBVIOUS
      <4>3. loop[t + 1] = Turn(ns, loop[t]) BY <1>4, <4>2 DEF Turns
      <4>4. There(t + 1, k + 1) BY <2>5, <3>1, <3>2, <4>1, <4>3
      <4> HIDE DEF There
      <4>5. QED BY <4>2, <4>4
    <3>4. CASE ~HasFraction(format, i)
      <4>1. \A j \in i .. next - 1 : ~HasFraction(format, j)
        BY <1>1, <2>3, <2>7, <3>1, <3>2, <3>4, NoneInside
      <4>2. Loaded(loop[t], head \o ItemAt(format, i), format, next, n)
        BY <2>4, <3>0, <3>2, <4>1, LoadOther
      <4>3. Put(ns, ItemAt(format, i)) = ItemAt(format, i) BY <3>0, <3>4, PutKinds
      <4>4. There(t, k + 1) BY <2>5, <3>1, <3>2, <4>2, <4>3
      <4>5. t \in 0 .. k + 1 /\ k + 1 \in 0 .. n OBVIOUS
      <4> HIDE DEF There
      <4>6. QED BY <4>4, <4>5
    <3>5. QED BY <3>3, <3>4
  <2>8. QED BY <2>6, <2>7
<1>7. PICK t \in 0 .. n : There(t, n)
  <2>1. 0 .. n \subseteq S
    <3> HIDE DEF S
    <3>1. QED BY <1>5, <1>6, IntervalInduction
  <2>2. n \in 0 .. n OBVIOUS
  <2>3. QED BY <2>1, <2>2
<1>8. loop[t].buffer = r[n] /\ Turn(ns, loop[t]) = loop[t]
  <2>1. s[n] = n + 1 /\ r[n] \in Seq(Chars) BY <1>1, <1>3 DEF ItemStarts
  <2>2. Loaded(loop[t], r[n], format, s[n], n) BY <1>7, Zenon
  <2>3. PICK head \in Seq(Chars) : head = r[n] BY <2>1
  <2>4. PICK at : at = s[n] OBVIOUS
  <2>5. Loaded(loop[t], head, format, at, n) BY <2>2, <2>3, <2>4
  <2>6. at = n + 1 BY <2>1, <2>4
  <2>7. loop[t].buffer = head /\ Turn(ns, loop[t]) = loop[t]
    <3> HIDE DEF S, There
    <3>1. format \in Seq(STRING) /\ n \in Nat /\ n = Len(format) /\ head \in Seq(Chars)
      BY <2>3
    <3>2. PICK turns : turns = loop[t] OBVIOUS
    <3>3. Loaded(turns, head, format, at, n) BY <2>5, <3>2
    <3>4. turns.buffer = head /\ Turn(ns, turns) = turns
      BY <2>6, <3>1, <3>3, LoadedAll, ZenonT(30)
    <3>5. QED BY <3>2, <3>4
  <2>8. QED BY <2>3, <2>7
<1>9. loop[n] = loop[t]
  <2> DEFINE U == {m \in 0 .. n - t : loop[t + m] = loop[t]}
  <2>1. 0 \in U OBVIOUS
  <2>2. ASSUME NEW m \in 0 .. (n - t) - 1, m \in U PROVE m + 1 \in U
    <3>1. t + m \in 0 .. n - 1 /\ t + (m + 1) = (t + m) + 1 /\ m + 1 \in 0 .. n - t
      OBVIOUS
    <3>2. loop[(t + m) + 1] = Turn(ns, loop[t + m]) BY <1>4, <3>1 DEF Turns
    <3>3. loop[t + m] = loop[t] BY <2>2
    <3>4. loop[t + (m + 1)] = loop[t] BY <1>8, <3>1, <3>2, <3>3
    <3>5. QED BY <3>1, <3>4
  <2>3. n - t \in Nat /\ n - t \in 0 .. n - t /\ t + (n - t) = n OBVIOUS
  <2>4. 0 .. n - t \subseteq U
    <3> HIDE DEF U
    <3>1. QED BY <2>1, <2>2, <2>3, IntervalInduction
  <2>5. QED BY <2>3, <2>4
<1>10. QED BY <1>2, <1>3, <1>4, <1>8, <1>9

----------------------------------------------------------------------------
(* What strftime makes of a text.                                            *)

\* What has come to rest stays there.
LEMMA Rests ==
  ASSUME NEW n \in Nat, NEW t \in 0 .. n, NEW f,
         \A m \in t .. n - 1 : f[m] = f[t] => f[m + 1] = f[m]
  PROVE  f[n] = f[t]
<1> DEFINE U == {m \in 0 .. n - t : f[t + m] = f[t]}
<1>1. 0 \in U /\ n - t \in Nat /\ n - t \in 0 .. n - t /\ t + (n - t) = n
  OBVIOUS
<1>2. ASSUME NEW m \in 0 .. (n - t) - 1, m \in U PROVE m + 1 \in U
  <2>1. t + m \in t .. n - 1 /\ t + (m + 1) = (t + m) + 1 /\ m + 1 \in 0 .. n - t
    OBVIOUS
  <2>2. f[t + m] = f[t] BY <1>2
  <2>3. f[t + (m + 1)] = f[t] BY <2>1, <2>2
  <2>4. QED BY <2>1, <2>3
<1>3. 0 .. n - t \subseteq U
  <2> HIDE DEF U
  <2>1. QED BY <1>1, <1>2, IntervalInduction
<1>4. QED BY <1>1, <1>3

\* q are the starts of the pieces of a text of n characters, and g is what has
\* been made of the text before them.
Shows(q, g, text, n) ==
  /\ q \in [0 .. n -> 1 .. n + 1] /\ q[0] = 1 /\ q[n] = n + 1
  /\ g \in [0 .. n -> Seq(Chars)] /\ g[0] = <<>> /\ g[n] = strftime(text)
  /\ \A j \in 0 .. n - 1 :
       /\ q[j] = n + 1 => q[j + 1] = q[j] /\ g[j + 1] = g[j]
       /\ q[j] <= n /\ HasConversion(text, q[j])
            => q[j + 1] = q[j] + 2 /\ g[j + 1] = g[j] \o Local[text[q[j] + 1]]
       /\ q[j] <= n /\ ~HasConversion(text, q[j])
            => q[j + 1] = q[j] + 1 /\ g[j + 1] = g[j] \o <<text[q[j]]>>

ConversionSize(text, i) == IF HasConversion(text, i) THEN 2 ELSE 1

LEMMA ConversionSizing ==
  ASSUME NEW text \in Seq(Chars), NEW n \in Nat, n = Len(text)
  PROVE  Sizing([i \in DOMAIN text |-> ConversionSize(text, i)], n)
<1>1. DOMAIN text = 1 .. n OBVIOUS
<1>2. ASSUME NEW i \in 1 .. n
      PROVE  ConversionSize(text, i) \in Nat \ {0} /\ i + ConversionSize(text, i) <= n + 1
  <2>1. CASE HasConversion(text, i)
    <3>1. i + 1 <= n BY <2>1 DEF HasConversion
    <3>2. QED BY <2>1, <3>1 DEF ConversionSize
  <2>2. CASE ~HasConversion(text, i) BY <2>2 DEF ConversionSize
  <2>3. QED BY <2>1, <2>2
<1>3. QED BY <1>1, <1>2 DEF Sizing

\* What becomes of a piece.
LEMMA PieceConverted ==
  ASSUME NEW text \in Seq(Chars), NEW i \in 1 .. Len(text), NEW m,
         m = i + ConversionSize(text, i) - 1
  PROVE  /\ HasConversion(text, i)
              => /\ Converted(SubSeq(text, i, m)) = Local[text[i + 1]]
                 /\ Local[text[i + 1]] \in Seq(Chars)
         /\ ~HasConversion(text, i)
              => /\ Converted(SubSeq(text, i, m)) = <<text[i]>>
                 /\ <<text[i]>> \in Seq(Chars)
<1>1. CASE HasConversion(text, i)
  <2>1. i + 1 <= Len(text) /\ text[i + 1] \in DOMAIN Local
    BY <1>1 DEF HasConversion
  <2>2. m = i + 1 BY <1>1 DEF ConversionSize
  <2>3. SubSeq(text, i, m) = <<text[i], text[i + 1]>> BY <2>1, <2>2, TwoLong
  <2>4. PICK piece : piece = <<text[i], text[i + 1]>> OBVIOUS
  <2>5. Len(piece) = 2 /\ piece[2] = text[i + 1] BY <2>4
  <2>6. Converted(piece) = Local[text[i + 1]] BY <2>5 DEF Converted
  <2>7. Local[text[i + 1]] \in Seq(Chars) BY <2>1, LocalType, StringChars
  <2>8. QED BY <1>1, <2>3, <2>4, <2>6, <2>7
<1>2. CASE ~HasConversion(text, i)
  <2>1. m = i BY <1>2 DEF ConversionSize
  <2>2. SubSeq(text, i, m) = <<text[i]>> BY <2>1, OneLong
  <2>3. PICK c \in Chars : c = text[i] BY ElementOfSeq
  <2>4. Len(<<c>>) = 1 /\ <<c>> \in Seq(Chars) OBVIOUS
  <2>5. Converted(<<c>>) = <<c>> BY <2>4 DEF Converted
  <2>6. QED BY <1>2, <2>2, <2>3, <2>4, <2>5
<1>3. QED BY <1>1, <1>2

LEMMA StrftimeShows ==
  ASSUME NEW text \in Seq(Chars), NEW n \in Nat, n = Len(text)
  PROVE  \E q, g : Shows(q, g, text, n)
<1> DEFINE size == [i \in DOMAIN text |-> ConversionSize(text, i)]
           Q == Starts(text, size)
           made == [k \in 1 .. n |-> Converted(SubSeq(text, Q[k - 1], Q[k] - 1))]
<1>1. Sizing(size, n) BY ConversionSizing
<1>2. \A i \in 1 .. n : size[i] = ConversionSize(text, i) OBVIOUS
<1>3. strftime(text) = FlattenSeq(made)
  <2>1. Pieces(text, size) = [k \in 1 .. n |-> SubSeq(text, Q[k - 1], Q[k] - 1)]
    BY DEF Pieces
  <2>2. size = [i \in DOMAIN text |-> IF HasConversion(text, i) THEN 2 ELSE 1]
    BY DEF ConversionSize
  <2>3. PICK pieces : pieces = Pieces(text, size) OBVIOUS
  <2>4. strftime(text) = FlattenSeq([k \in DOMAIN pieces |-> Converted(pieces[k])])
    BY <2>2, <2>3 DEF strftime
  <2> HIDE DEF size, Q
  <2>5. DOMAIN pieces = 1 .. n
        /\ \A k \in 1 .. n : pieces[k] = SubSeq(text, Q[k - 1], Q[k] - 1)
    BY <2>1, <2>3
  <2>6. [k \in DOMAIN pieces |-> Converted(pieces[k])] = made BY <2>5
  <2>7. QED BY <2>4, <2>6
<1> HIDE DEF size
<1>4. Cuts(Q, text, size, n) BY <1>1, StartsAre
<1>5. Q[n] = n + 1
  <2> HIDE DEF Q
  <2>1. QED BY <1>1, <1>4, CutsEnd
<1>6. PICK q : q = Q OBVIOUS
<1> HIDE DEF Q
<1>7. ASSUME NEW j \in 0 .. n - 1
      PROVE  /\ q[j] \in 1 .. n + 1 /\ q[j + 1] \in 1 .. n + 1
             /\ q[j] <= n => q[j + 1] = q[j] + ConversionSize(text, q[j])
             /\ q[j] = n + 1 => q[j + 1] = q[j]
             /\ made[j + 1] = Converted(SubSeq(text, q[j], q[j + 1] - 1))
  <2>1. q[j] \in 1 .. n + 1 /\ q[j + 1] = Behind(text, size, q[j])
    BY <1>4, <1>6 DEF Cuts
  <2>2. j + 1 \in 1 .. n /\ (j + 1) - 1 = j OBVIOUS
  <2>3. made[j + 1] = Converted(SubSeq(text, q[j], q[j + 1] - 1)) BY <1>6, <2>2
  <2>4. PICK i \in 1 .. n + 1 : i = q[j] BY <2>1
  <2>5. /\ Behind(text, size, i) \in 1 .. n + 1
        /\ i <= n => i + size[i] = Behind(text, size, i)
        /\ i = n + 1 => Behind(text, size, i) = i
    BY <1>1, BehindType
  <2>6. PICK m \in 1 .. n + 1 : m = q[j + 1] /\ m = Behind(text, size, i)
    BY <2>1, <2>4, <2>5
  <2>7. i <= n => i + ConversionSize(text, i) = m BY <1>2, <2>5, <2>6
  <2>8. QED BY <2>3, <2>4, <2>5, <2>6, <2>7
<1>8. ASSUME NEW j \in 0 .. n - 1
      PROVE  /\ q[j] = n + 1 => made[j + 1] = <<>>
             /\ q[j] <= n /\ HasConversion(text, q[j])
                  => /\ q[j + 1] = q[j] + 2
                     /\ made[j + 1] = Local[text[q[j] + 1]]
             /\ q[j] <= n /\ ~HasConversion(text, q[j])
                  => q[j + 1] = q[j] + 1 /\ made[j + 1] = <<text[q[j]]>>
             /\ made[j + 1] \in Seq(Chars)
  <2>1. PICK i \in 1 .. n + 1, m \in Int :
          i = q[j] /\ m = q[j + 1] - 1 /\ q[j + 1] = m + 1
    <3>1. q[j] \in 1 .. n + 1 /\ q[j + 1] \in 1 .. n + 1 BY <1>7
    <3>2. PICK p \in 1 .. n + 1 : p = q[j + 1] BY <3>1
    <3>3. p - 1 \in Int /\ p = (p - 1) + 1 OBVIOUS
    <3>4. QED BY <3>1, <3>2, <3>3
  <2>2. made[j + 1] = Converted(SubSeq(text, i, m)) BY <1>7, <2>1
  <2>3. CASE i = n + 1
    <3>1. q[j] = n + 1 /\ q[j + 1] = q[j] BY <1>7, <2>1, <2>3
    <3>5. m = n BY <2>1, <3>1
    <3>2. SubSeq(text, i, m) = <<>> BY <2>3, <3>5, SubSeqEmpty
    <3>3. Converted(<<>>) = <<>>
      <4>1. Len(<<>>) # 2 OBVIOUS
      <4>2. QED BY <4>1 DEF Converted
    <3>4. <<>> \in Seq(Chars) OBVIOUS
    <3>6. q[j] = n + 1 /\ ~(q[j] <= n) BY <2>1, <2>3
    <3>7. QED BY <2>2, <3>2, <3>3, <3>4, <3>6
  <2>4. CASE i <= n
    <3>1. PICK z \in {1, 2} : z = ConversionSize(text, i)
            /\ (HasConversion(text, i) => z = 2) /\ (~HasConversion(text, i) => z = 1)
      <4>1. HasConversion(text, i) => ConversionSize(text, i) = 2
        BY DEF ConversionSize
      <4>2. ~HasConversion(text, i) => ConversionSize(text, i) = 1
        BY DEF ConversionSize
      <4>3. QED BY <4>1, <4>2
    <3>2. m = i + z - 1 /\ m + 1 = i + z
      <4>1. q[j] <= n BY <2>1, <2>4
      <4>2. q[j + 1] = q[j] + ConversionSize(text, q[j]) BY <1>7, <4>1
      <4>3. ConversionSize(text, q[j]) = z BY <2>1, <3>1
      <4>4. q[j + 1] = i + z BY <2>1, <4>2, <4>3
      <4>5. QED BY <2>1, <4>4, SMTT(30)
    <3>3. i \in 1 .. Len(text) BY <2>4
    <3>4. /\ HasConversion(text, i)
               => /\ Converted(SubSeq(text, i, m)) = Local[text[i + 1]]
                  /\ Local[text[i + 1]] \in Seq(Chars)
          /\ ~HasConversion(text, i)
               => /\ Converted(SubSeq(text, i, m)) = <<text[i]>>
                  /\ <<text[i]>> \in Seq(Chars)
      BY <3>1, <3>2, <3>3, PieceConverted
    <3>5. q[j] <= n /\ q[j] # n + 1 BY <2>1, <2>4
    <3>6. made[j + 1] \in Seq(Chars) BY <2>2, <3>4
    <3>7. HasConversion(text, i) =>
            q[j + 1] = i + 2 /\ made[j + 1] = Local[text[i + 1]]
      BY <2>1, <2>2, <3>1, <3>2, <3>4
    <3>8. ~HasConversion(text, i) =>
            q[j + 1] = i + 1 /\ made[j + 1] = <<text[i]>>
      BY <2>1, <2>2, <3>1, <3>2, <3>4
    <3>9. CASE HasConversion(text, i) BY <2>1, <3>5, <3>6, <3>7, <3>9
    <3>10. CASE ~HasConversion(text, i) BY <2>1, <3>5, <3>6, <3>8, <3>10
    <3>11. QED BY <3>9, <3>10
  <2>5. i = n + 1 \/ i <= n OBVIOUS
  <2>6. QED BY <2>3, <2>4, <2>5, Zenon
<1>9. PICK seqs \in Seq(Seq(Chars)) :
        seqs = made /\ Len(seqs) = n /\ \A j \in 0 .. n - 1 : seqs[j + 1] = made[j + 1]
  <2>1. \A k \in 1 .. n : k - 1 \in 0 .. n - 1 /\ (k - 1) + 1 = k OBVIOUS
  <2>2. \A k \in 1 .. n : made[k] \in Seq(Chars)
    <3> HIDE DEF made
    <3>1. QED BY <1>8, <2>1
  <2>3. \A k \in 1 .. n : Converted(SubSeq(text, Q[k - 1], Q[k] - 1)) \in Seq(Chars)
    BY <2>2
  <2>4. made \in Seq(Seq(Chars)) /\ Len(made) = n BY <2>3
  <2> HIDE DEF made
  <2>5. QED BY <2>4
<1> HIDE DEF made
<1>10. PICK g \in [0 .. n -> Seq(Chars)] : Joins(g, seqs, n) /\ FlattenSeq(seqs) = g[n]
  BY <1>9, FlattenSteps
<1>11. ASSUME NEW j \in 0 .. n - 1
       PROVE  /\ q[j] = n + 1 => q[j + 1] = q[j] /\ g[j + 1] = g[j]
              /\ q[j] <= n /\ HasConversion(text, q[j])
                   => q[j + 1] = q[j] + 2 /\ g[j + 1] = g[j] \o Local[text[q[j] + 1]]
              /\ q[j] <= n /\ ~HasConversion(text, q[j])
                   => q[j + 1] = q[j] + 1 /\ g[j + 1] = g[j] \o <<text[q[j]]>>
  <2>1. g[j + 1] = g[j] \o made[j + 1] BY <1>9, <1>10 DEF Joins
  <2>2. g[j] \o <<>> = g[j]
    <3>1. j \in 0 .. n OBVIOUS
    <3>2. g[j] \in Seq(Chars) BY <1>10, <3>1
    <3>3. QED BY <3>2, ConcatEmptySeq
  <2>3. q[j] = n + 1 => q[j + 1] = q[j] /\ g[j + 1] = g[j] BY <1>7, <1>8, <2>1, <2>2
  <2>4. QED BY <1>8, <2>1, <2>3
<1>12. q \in [0 .. n -> 1 .. n + 1] /\ q[0] = 1 /\ q[n] = n + 1
  BY <1>4, <1>5, <1>6 DEF Cuts
<1>13. g[0] = <<>> /\ g[n] = strftime(text) BY <1>3, <1>9, <1>10 DEF Joins
<1>14. Shows(q, g, text, n) BY <1>10, <1>11, <1>12, <1>13 DEF Shows
<1>15. QED BY <1>14

\* strftime has come to a place, and this is what it has made so far.
Said(q, g, n, at, made) == \E j \in 0 .. n : q[j] = at /\ g[j] = made

\* One piece of the text.
LEMMA SaidNext ==
  ASSUME NEW text \in Seq(Chars), NEW n \in Nat, n = Len(text),
         NEW q, NEW g, Shows(q, g, text, n),
         NEW at \in 1 .. n, NEW made, Said(q, g, n, at, made)
  PROVE  /\ made \in Seq(Chars)
         /\ HasConversion(text, at)
              => Said(q, g, n, at + 2, made \o Local[text[at + 1]])
         /\ ~HasConversion(text, at)
              => Said(q, g, n, at + 1, made \o <<text[at]>>)
<1>1. PICK j \in 0 .. n : q[j] = at /\ g[j] = made BY DEF Said
<1>2. j # n /\ j \in 0 .. n - 1 BY <1>1 DEF Shows
<1>3. j + 1 \in 0 .. n BY <1>2
<1>4. made \in Seq(Chars) BY <1>1 DEF Shows
<1>8. /\ q[j] <= n /\ HasConversion(text, q[j])
           => q[j + 1] = q[j] + 2 /\ g[j + 1] = g[j] \o Local[text[q[j] + 1]]
      /\ q[j] <= n /\ ~HasConversion(text, q[j])
           => q[j + 1] = q[j] + 1 /\ g[j + 1] = g[j] \o <<text[q[j]]>>
  BY <1>2, Zenon DEF Shows
<1>9. q[j] <= n BY <1>1
<1>5. ASSUME HasConversion(text, at)
      PROVE  Said(q, g, n, at + 2, made \o Local[text[at + 1]])
  <2>1. q[j + 1] = at + 2 /\ g[j + 1] = made \o Local[text[at + 1]]
    BY <1>1, <1>5, <1>8, <1>9
  <2>2. QED BY <1>3, <2>1 DEF Said
<1>6. ASSUME ~HasConversion(text, at)
      PROVE  Said(q, g, n, at + 1, made \o <<text[at]>>)
  <2>1. q[j + 1] = at + 1 /\ g[j + 1] = made \o <<text[at]>>
    BY <1>1, <1>6, <1>8, <1>9
  <2>2. QED BY <1>3, <2>1 DEF Said
<1>7. QED BY <1>4, <1>5, <1>6

LEMMA Associates ==
  ASSUME NEW s \in Seq(Chars), NEW t \in Seq(Chars), NEW u \in Seq(Chars)
  PROVE  (s \o t) \o u = s \o (t \o u)
BY ConcatAssociative, SMTT(30)

\* A part of the text without conversions.
LEMMA SaidPlain ==
  ASSUME NEW text \in Seq(Chars), NEW n \in Nat, n = Len(text),
         NEW q, NEW g, Shows(q, g, text, n),
         NEW at \in 1 .. n, NEW made \in Seq(Chars), Said(q, g, n, at, made),
         NEW w \in Seq(Chars), NEW l \in Nat, l = Len(w), at + l <= n + 1,
         \A i \in 1 .. l : text[at + i - 1] = w[i] /\ ~HasConversion(text, at + i - 1)
  PROVE  Said(q, g, n, at + l, made \o w)
<1> DEFINE First(m) == SubSeq(w, 1, m)
           S == {m \in 0 .. l : Said(q, g, n, at + m, made \o First(m))}
<1>1. First(0) = <<>> /\ First(l) = w BY SubSeqEmpty, SubSeqFull
<1>2. ASSUME NEW m \in 0 .. l - 1
      PROVE  First(m + 1) = First(m) \o <<w[m + 1]>> /\ First(m) \in Seq(Chars)
             /\ <<w[m + 1]>> \in Seq(Chars)
  <2>1. First(m + 1) = Append(First(m), w[m + 1]) OBVIOUS
  <2>2. First(m) \in Seq(Chars) /\ w[m + 1] \in Chars OBVIOUS
  <2> HIDE DEF First
  <2>3. PICK s \in Seq(Chars), c \in Chars : s = First(m) /\ c = w[m + 1] BY <2>2
  <2>4. Append(s, c) = s \o <<c>> OBVIOUS
  <2>5. QED BY <2>1, <2>2, <2>3, <2>4, SMTT(30)
<1> HIDE DEF First
<1>3. 0 \in S
  <2>1. made \o <<>> = made /\ at + 0 = at BY ConcatEmptySeq
  <2>2. made \o First(0) = made BY <1>1, <2>1
  <2>3. Said(q, g, n, at + 0, made \o First(0)) BY <2>1, <2>2
  <2>4. QED BY <2>3
<1>4. ASSUME NEW m \in 0 .. l - 1, m \in S PROVE m + 1 \in S
  <2>1. Said(q, g, n, at + m, made \o First(m)) BY <1>4
  <2>2. PICK a \in 1 .. n : a = at + m /\ a = at + (m + 1) - 1 /\ a + 1 = at + (m + 1)
    <3>1. at + m \in 1 .. n /\ at + m = at + (m + 1) - 1
          /\ (at + m) + 1 = at + (m + 1)
      OBVIOUS
    <3>2. QED BY <3>1
  <2>3. m + 1 \in 1 .. l /\ m + 1 \in 0 .. l OBVIOUS
  <2>4. text[a] = w[m + 1] /\ ~HasConversion(text, a) BY <2>2, <2>3
  <2>5. PICK b : b = made \o First(m) OBVIOUS
  <2>6. Said(q, g, n, a, b) BY <2>1, <2>2, <2>5
  <2>7. Said(q, g, n, a + 1, b \o <<text[a]>>) BY <2>4, <2>6, SaidNext
  <2>8. b \o <<w[m + 1]>> = made \o First(m + 1)
    <3>0. PICK s \in Seq(Chars) : s = First(m) BY <1>2
    <3>4. PICK c \in Seq(Chars) : c = <<w[m + 1]>> BY <1>2
    <3>1. First(m + 1) = s \o c BY <1>2, <3>0, <3>4
    <3>2. (made \o s) \o c = made \o (s \o c)
      <4>1. made \in Seq(Chars) /\ s \in Seq(Chars) /\ c \in Seq(Chars)
        BY <3>0, <3>4
      <4>2. QED BY <4>1, Associates, ZenonT(30)
    <3>3. QED BY <2>5, <3>0, <3>1, <3>2, <3>4
  <2>9. Said(q, g, n, at + (m + 1), made \o First(m + 1))
    BY <2>2, <2>4, <2>7, <2>8
  <2>10. QED BY <2>3, <2>9
<1>5. Said(q, g, n, at + l, made \o First(l))
  <2>1. 0 .. l \subseteq S
    <3> HIDE DEF S
    <3>1. QED BY <1>3, <1>4, IntervalInduction
  <2>2. l \in 0 .. l OBVIOUS
  <2>3. QED BY <2>1, <2>2
<1>6. QED BY <1>1, <1>5

\* At its end strftime has made all of it.
LEMMA SaidAll ==
  ASSUME NEW text, NEW n \in Nat, NEW q, NEW g, Shows(q, g, text, n),
         NEW at, at = n + 1, NEW made, Said(q, g, n, at, made)
  PROVE  strftime(text) = made
<1>1. PICK j \in 0 .. n : q[j] = n + 1 /\ g[j] = made BY DEF Said
<1> DEFINE f == [m \in 0 .. n |-> <<q[m], g[m]>>]
<1>2. ASSUME NEW m \in j .. n - 1, f[m] = f[j] PROVE f[m + 1] = f[m]
  <2>1. m \in 0 .. n - 1 /\ m + 1 \in 0 .. n /\ m \in 0 .. n OBVIOUS
  <2>2. q[m] = q[j] BY <1>2, <2>1
  <2>3. q[m + 1] = q[m] /\ g[m + 1] = g[m] BY <1>1, <2>1, <2>2 DEF Shows
  <2>4. QED BY <2>1, <2>3
<1>3. f[n] = f[j]
  <2> HIDE DEF f
  <2>1. QED BY <1>2, Rests
<1>4. g[n] = g[j]
  <2>1. n \in 0 .. n OBVIOUS
  <2>2. QED BY <1>3, <2>1
<1>5. QED BY <1>1, <1>4 DEF Shows

\* Every one of the sequences is found again in all of them in one.
Parts(r, seqs, n) ==
  \A k \in 0 .. n - 1 :
    /\ Len(r[k]) \in Nat /\ Len(r[k + 1]) \in Nat /\ Len(seqs[k + 1]) \in Nat
    /\ Len(r[k + 1]) = Len(r[k]) + Len(seqs[k + 1])
    /\ Len(r[k + 1]) <= Len(r[n]) /\ Len(r[n]) \in Nat
    /\ \A i \in 1 .. Len(seqs[k + 1]) : r[n][Len(r[k]) + i] = seqs[k + 1][i]

LEMMA JoinsParts ==
  ASSUME NEW W, NEW seqs \in Seq(Seq(W)), NEW n \in Nat, n = Len(seqs),
         NEW r \in [0 .. n -> Seq(W)], Joins(r, seqs, n)
  PROVE  Parts(r, seqs, n)
<1> SUFFICES ASSUME NEW k \in 0 .. n - 1
             PROVE  /\ Len(r[k]) \in Nat /\ Len(r[k + 1]) \in Nat
                    /\ Len(seqs[k + 1]) \in Nat
                    /\ Len(r[k + 1]) = Len(r[k]) + Len(seqs[k + 1])
                    /\ Len(r[k + 1]) <= Len(r[n]) /\ Len(r[n]) \in Nat
                    /\ \A i \in 1 .. Len(seqs[k + 1]) :
                         r[n][Len(r[k]) + i] = seqs[k + 1][i]
  BY DEF Parts
<1> DEFINE Holds(m) == /\ Len(r[k + 1]) <= Len(r[m])
                       /\ \A i \in 1 .. Len(r[k + 1]) : r[m][i] = r[k + 1][i]
           S == {j \in 0 .. n - (k + 1) : Holds((k + 1) + j)}
<1>1. ASSUME NEW m \in 0 .. n PROVE r[m] \in Seq(W) /\ Len(r[m]) \in Nat
  <2>1. PICK x \in Seq(W) : x = r[m] OBVIOUS
  <2>2. Len(x) \in Nat OBVIOUS
  <2>3. QED BY <2>1, <2>2
<1>2. k \in 0 .. n /\ k + 1 \in 0 .. n /\ n \in 0 .. n /\ k + 1 \in 1 .. n
      /\ n - (k + 1) \in Nat
  OBVIOUS
<1>3. PICK e \in Seq(W) : e = seqs[k + 1] BY <1>2, ElementOfSeq
<1>4. PICK a \in Seq(W), b \in Seq(W) : a = r[k] /\ b = r[k + 1] /\ b = a \o e
  BY <1>1, <1>2, <1>3 DEF Joins
<1>5. /\ Len(b) = Len(a) + Len(e)
      /\ \A i \in 1 .. Len(e) : b[Len(a) + i] = e[i]
  <2>1. /\ Len(a \o e) = Len(a) + Len(e)
        /\ \A i \in 1 .. Len(a) + Len(e) :
             (a \o e)[i] = IF i <= Len(a) THEN a[i] ELSE e[i - Len(a)]
    BY ConcatProperties
  <2>2. Len(a) \in Nat /\ Len(e) \in Nat OBVIOUS
  <2>3. \A i \in 1 .. Len(e) : /\ Len(a) + i \in 1 .. Len(a) + Len(e)
                               /\ ~(Len(a) + i <= Len(a))
                               /\ (Len(a) + i) - Len(a) = i
    BY <2>2
  <2>4. QED BY <1>4, <2>1, <2>3
<1>6. 0 \in S
  <2>1. (k + 1) + 0 = k + 1 /\ 0 \in 0 .. n - (k + 1) BY <1>2
  <2>2. Holds(k + 1) BY <1>1, <1>2
  <2> HIDE DEF Holds
  <2>3. QED BY <2>1, <2>2
<1>7. ASSUME NEW j \in 0 .. (n - (k + 1)) - 1, j \in S PROVE j + 1 \in S
  <2>1. PICK m \in 0 .. n - 1 : m = (k + 1) + j /\ m + 1 = (k + 1) + (j + 1)
    <3>1. (k + 1) + j \in 0 .. n - 1 /\ ((k + 1) + j) + 1 = (k + 1) + (j + 1)
      OBVIOUS
    <3>2. QED BY <3>1
  <2>2. Holds(m) BY <1>7, <2>1
  <2>3. m \in 0 .. n /\ m + 1 \in 1 .. n OBVIOUS
  <2>4. PICK x \in Seq(W), y \in Seq(W) : x = r[m] /\ y = seqs[m + 1]
    BY <1>1, <2>3, ElementOfSeq
  <2>5. r[m + 1] = x \o y BY <2>4 DEF Joins
  <2>6. /\ Len(x \o y) = Len(x) + Len(y) /\ Len(x) \in Nat /\ Len(y) \in Nat
        /\ \A i \in 1 .. Len(x) + Len(y) :
             (x \o y)[i] = IF i <= Len(x) THEN x[i] ELSE y[i - Len(x)]
    BY ConcatProperties
  <2>7. PICK z : z = r[m + 1] /\ z = x \o y BY <2>5
  <2>8. /\ Len(z) = Len(x) + Len(y)
        /\ \A i \in 1 .. Len(x) : z[i] = x[i]
    <3>1. \A i \in 1 .. Len(x) : i \in 1 .. Len(x) + Len(y) /\ i <= Len(x) BY <2>6
    <3>2. QED BY <2>6, <2>7, <3>1
  <2>9. Len(b) <= Len(x) /\ \A i \in 1 .. Len(b) : x[i] = b[i] BY <1>4, <2>2, <2>4
  <2>10. Len(b) <= Len(z) /\ \A i \in 1 .. Len(b) : z[i] = b[i]
    <3>1. Len(b) \in Nat OBVIOUS
    <3>2. \A i \in 1 .. Len(b) : i \in 1 .. Len(x) BY <2>6, <2>9, <3>1
    <3>3. QED BY <2>6, <2>8, <2>9, <3>1, <3>2
  <2>11. Holds(m + 1) BY <1>4, <2>7, <2>10
  <2> HIDE DEF Holds
  <2>12. j + 1 \in 0 .. n - (k + 1) OBVIOUS
  <2>13. QED BY <2>1, <2>11, <2>12
<1>8. Holds(n)
  <2>1. 0 .. n - (k + 1) \subseteq S
    <3> HIDE DEF S
    <3>1. QED BY <1>2, <1>6, <1>7, IntervalInduction
  <2>2. n - (k + 1) \in 0 .. n - (k + 1) /\ (k + 1) + (n - (k + 1)) = n BY <1>2
  <2> HIDE DEF Holds
  <2>3. Holds((k + 1) + (n - (k + 1))) BY <2>1, <2>2
  <2>4. QED BY <2>2, <2>3
<1>9. Len(b) <= Len(r[n]) /\ \A i \in 1 .. Len(b) : r[n][i] = b[i] BY <1>4, <1>8
<1>10. \A i \in 1 .. Len(e) : r[n][Len(a) + i] = e[i]
  <2>1. Len(a) \in Nat /\ Len(e) \in Nat OBVIOUS
  <2>2. \A i \in 1 .. Len(e) : Len(a) + i \in 1 .. Len(b) BY <1>5, <2>1
  <2>3. QED BY <1>5, <1>9, <2>2
<1>11. Len(r[k]) \in Nat /\ Len(r[k + 1]) \in Nat /\ Len(r[n]) \in Nat
       /\ Len(e) \in Nat
  BY <1>1, <1>2
<1>12. QED BY <1>3, <1>4, <1>5, <1>9, <1>10, <1>11

----------------------------------------------------------------------------
(* The text is the format with every item in it shown.                       *)

\* How what is put in for an item begins.
LEMMA PutBegins ==
  ASSUME NEW format \in Seq(STRING), NEW ns \in Nat, ns < Powers[10],
         NEW i \in 1 .. Len(format), ~HasFraction(format, i)
  PROVE  /\ Len(Put(ns, ItemAt(format, i))) >= 1
         /\ Put(ns, ItemAt(format, i))[1] = format[i]
<1>1. Put(ns, ItemAt(format, i)) = ItemAt(format, i) BY PutKinds
<1>2. PICK c \in STRING : c = format[i] BY ElementOfSeq
<1>3. CASE HasConversion(format, i)
  <2>1. ItemAt(format, i) = <<"%", format[i + 1]>> BY <1>3, ConversionItem
  <2>2. format[i] = "%" /\ i + 1 \in 1 .. Len(format) BY <1>3 DEF HasConversion
  <2>3. PICK d \in STRING : d = format[i + 1] BY <2>2, ElementOfSeq
  <2>4. Len(<<"%", d>>) = 2 /\ <<"%", d>>[1] = "%" OBVIOUS
  <2>5. QED BY <1>1, <2>1, <2>2, <2>3, <2>4
<1>4. CASE ~HasConversion(format, i)
  <2>1. ItemAt(format, i) = <<format[i]>> BY <1>4, OtherItem
  <2>2. Len(<<c>>) = 1 /\ <<c>>[1] = c OBVIOUS
  <2>3. QED BY <1>1, <1>2, <2>1, <2>2
<1>5. QED BY <1>3, <1>4

\* A character that nothing is put in for is none that strftime converts: what
\* comes behind it begins as in the format.
LEMMA NoneArises ==
  ASSUME NEW format \in Seq(STRING), NEW n \in Nat, n = Len(format),
         NEW ns \in Nat, ns < Powers[10], NEW s, ItemStarts(s, format, n),
         NEW puts \in Seq(Seq(Chars)), Len(puts) = n,
         \A m \in 0 .. n - 1 : puts[m + 1] = Put(ns, Items(format)[m + 1]),
         NEW r \in [0 .. n -> Seq(Chars)], Joins(r, puts, n), Parts(r, puts, n),
         NEW k \in 0 .. n - 1, NEW i \in 1 .. n, i = s[k],
         ~HasFraction(format, i), ~HasConversion(format, i)
  PROVE  ~HasConversion(r[n], Len(r[k]) + 1)
<1> SUFFICES ASSUME HasConversion(r[n], Len(r[k]) + 1) PROVE FALSE OBVIOUS
<1>1. PICK c \in Chars : c = format[i]
  <2>1. format[i] \in STRING BY ElementOfSeq
  <2>2. QED BY <2>1 DEF Chars
<1>2. /\ ItemSize(format, i) = 1
      /\ Items(format)[k + 1] = ItemAt(format, i) /\ s[k + 1] = i + 1
      /\ puts[k + 1] = <<c>>
  <2>1. ItemSize(format, i) = 1 /\ ItemAt(format, i) = <<format[i]>> BY OtherItem
  <2>2. Items(format)[k + 1] = ItemAt(format, i)
        /\ s[k + 1] = i + ItemSize(format, i)
    <3>1. s[k] <= n OBVIOUS
    <3>2. Items(format)[k + 1] = ItemAt(format, s[k])
          /\ s[k + 1] = s[k] + ItemSize(format, s[k])
      BY <3>1, Zenon DEF ItemStarts
    <3>3. QED BY <3>2
  <2>3. Put(ns, ItemAt(format, i)) = ItemAt(format, i) BY PutKinds
  <2>4. QED BY <1>1, <2>1, <2>2, <2>3
<1>3. PICK text \in Seq(Chars), a \in Nat : text = r[n] /\ a = Len(r[k])
  <2>1. n \in 0 .. n /\ k \in 0 .. n OBVIOUS
  <2>2. r[n] \in Seq(Chars) /\ r[k] \in Seq(Chars) BY <2>1
  <2>3. QED BY <2>2
<1>4. Len(r[k + 1]) = a + 1 /\ text[a + 1] = c
  <2>1. Len(<<c>>) = 1 /\ <<c>>[1] = c OBVIOUS
  <2>2. PICK e : e = puts[k + 1] /\ Len(e) = 1 /\ e[1] = c BY <1>2, <2>1
  <2>3. /\ Len(r[k + 1]) = Len(r[k]) + Len(puts[k + 1])
        /\ \A m \in 1 .. Len(puts[k + 1]) : r[n][Len(r[k]) + m] = puts[k + 1][m]
    BY DEF Parts
  <2>4. 1 \in 1 .. Len(e) BY <2>2
  <2>5. QED BY <1>3, <2>2, <2>3, <2>4
<1>5. a + 2 <= Len(text) /\ c = "%" /\ text[a + 2] \in DOMAIN Local
  <2>1. (a + 1) + 1 = a + 2 OBVIOUS
  <2>2. QED BY <1>3, <1>4, <2>1 DEF HasConversion
<1>6. CASE i = n
  <2> DEFINE f == [m \in 0 .. n |-> <<s[m], r[m]>>]
  <2>1. ASSUME NEW m \in k + 1 .. n - 1, f[m] = f[k + 1] PROVE f[m + 1] = f[m]
    <3>1. m \in 0 .. n - 1 /\ m \in 0 .. n /\ m + 1 \in 0 .. n /\ k + 1 \in 0 .. n
      OBVIOUS
    <3>2. s[m] = n + 1 BY <1>2, <1>6, <2>1, <3>1
    <3>3. s[m + 1] = s[m] /\ Items(format)[m + 1] = <<>>
      BY <3>1, <3>2 DEF ItemStarts
    <3>4. r[m + 1] = r[m] \o <<>>
      <4>1. r[m + 1] = r[m] \o puts[m + 1] BY <3>1 DEF Joins
      <4>2. puts[m + 1] = <<>> BY <3>1, <3>3, PutNothing
      <4>3. QED BY <4>1, <4>2
    <3>5. PICK x \in Seq(Chars) : x = r[m] BY <3>1
    <3>6. r[m + 1] = r[m] BY <3>4, <3>5, ConcatEmptySeq
    <3>7. QED BY <3>1, <3>3, <3>6
  <2>2. k + 1 \in 0 .. n OBVIOUS
  <2>3. f[n] = f[k + 1]
    <3> HIDE DEF f
    <3>1. PICK t \in 0 .. n : t = k + 1 BY <2>2
    <3>2. \A m \in t .. n - 1 : f[m] = f[t] => f[m + 1] = f[m] BY <2>1, <3>1
    <3>3. f[n] = f[t] BY <3>2, Rests, SMTT(30)
    <3>4. QED BY <3>1, <3>3
  <2>4. r[n] = r[k + 1]
    <3>1. n \in 0 .. n OBVIOUS
    <3>2. QED BY <2>2, <2>3, <3>1
  <2>5. QED BY <1>3, <1>4, <1>5, <2>4
<1>7. CASE i < n
  <2>1. k + 1 \in 0 .. n - 1
    <3>1. k + 1 \in 0 .. n OBVIOUS
    <3>2. s[k + 1] > n \/ s[k + 1] >= (k + 1) + 1 BY <3>1 DEF ItemStarts
    <3>3. QED BY <1>2, <1>7, <3>1, <3>2
  <2>2. PICK j \in 1 .. n : j = i + 1 /\ j = s[k + 1] BY <1>2, <1>7
  <2>3. Items(format)[(k + 1) + 1] = ItemAt(format, j)
    BY <2>1, <2>2 DEF ItemStarts
  <2>4. PICK e : e = puts[(k + 1) + 1] /\ e = Put(ns, ItemAt(format, j))
    BY <2>1, <2>3
  <2>5. format[j] \notin DOMAIN Local
    BY <1>1, <1>5, <2>2 DEF HasConversion
  <2>6. ~HasFraction(format, j)
    <3>1. format[j] # "%" BY <2>5, LocalType
    <3>2. QED BY <3>1 DEF HasFraction
  <2>7. Len(e) >= 1 /\ e[1] = format[j] BY <2>4, <2>6, PutBegins, SMTT(30)
  <2>8. text[a + 2] = e[1]
    <3>1. PICK m \in 0 .. n - 1 : m = k + 1 BY <2>1
    <3>2. /\ Len(puts[m + 1]) \in Nat
          /\ \A l \in 1 .. Len(puts[m + 1]) : r[n][Len(r[m]) + l] = puts[m + 1][l]
      BY DEF Parts
    <3>3. Len(e) \in Nat /\ e = puts[m + 1]
      <4>1. e = puts[m + 1] BY <2>4, <3>1
      <4>2. QED BY <3>2, <4>1
    <3>4. 1 \in 1 .. Len(e) /\ (a + 1) + 1 = a + 2 BY <2>7, <3>3
    <3>5. Len(r[m]) = a + 1 BY <1>4, <3>1
    <3>6. QED BY <1>3, <3>2, <3>3, <3>4, <3>5
  <2>9. QED BY <1>5, <2>5, <2>7, <2>8
<1>8. QED BY <1>6, <1>7

LEMMA ItemTextType ==
  ASSUME NEW format \in Seq(STRING), NEW ns \in Nat, ns < Powers[10],
         NEW i \in 1 .. Len(format)
  PROVE  ItemText(ns, ItemAt(format, i)) \in Seq(Chars)
<1>1. CASE HasFraction(format, i)
  <2>1. Put(ns, ItemAt(format, i)) = ItemText(ns, ItemAt(format, i))
    BY <1>1, PutKinds
  <2>2. QED BY <2>1, PutType
<1>2. CASE HasConversion(format, i)
  <2>1. ItemText(ns, ItemAt(format, i)) = Local[format[i + 1]]
    BY <1>2, ConversionItem
  <2>2. format[i + 1] \in DOMAIN Local BY <1>2 DEF HasConversion
  <2>3. QED BY <2>1, <2>2, LocalType, StringChars
<1>3. CASE ~HasFraction(format, i) /\ ~HasConversion(format, i)
  <2>1. ItemText(ns, ItemAt(format, i)) = <<format[i]>> BY <1>3, OtherItem
  <2>2. PICK c \in STRING : c = format[i] BY ElementOfSeq
  <2>3. PICK d \in Chars : d = c BY <2>2 DEF Chars
  <2>4. <<d>> \in Seq(Chars) OBVIOUS
  <2>5. QED BY <2>1, <2>2, <2>3, <2>4
<1>4. QED BY <1>1, <1>2, <1>3

LEMMA NothingText ==
  ASSUME NEW ns
  PROVE  ItemText(ns, <<>>) = <<>>
<1>1. PICK item : item = <<>> OBVIOUS
<1>2. Len(item) = 0 BY <1>1
<1>3. item \notin FractionItems /\ Len(item) # 2 BY <1>2, FractionLength
<1>4. ItemText(ns, item) = item BY <1>3 DEF ItemText, FractionItems
<1>5. QED BY <1>1, <1>4

TextsOf(ns, items) == [k \in DOMAIN items |-> ItemText(ns, items[k])]

LEMMA TextsType ==
  ASSUME NEW format \in Seq(STRING), NEW n \in Nat, n = Len(format),
         NEW ns \in Nat, ns < Powers[10]
  PROVE  /\ TextsOf(ns, Items(format)) \in Seq(Seq(Chars))
         /\ Len(TextsOf(ns, Items(format))) = n
         /\ \A k \in 0 .. n - 1 :
              TextsOf(ns, Items(format))[k + 1] = ItemText(ns, Items(format)[k + 1])
<1>1. PICK s : ItemStarts(s, format, n) BY ItemsAre
<1>2. Items(format) \in Seq(Seq(STRING)) /\ Len(Items(format)) = n BY ItemsAre
<1>3. DOMAIN Items(format) = 1 .. n BY <1>2
<1>4. ASSUME NEW m \in 1 .. n PROVE ItemText(ns, Items(format)[m]) \in Seq(Chars)
  <2>1. PICK k \in 0 .. n - 1 : m = k + 1
    <3>1. m - 1 \in 0 .. n - 1 /\ (m - 1) + 1 = m OBVIOUS
    <3>2. QED BY <3>1
  <2>2. PICK i \in 1 .. n + 1 : i = s[k] BY <1>1 DEF ItemStarts
  <2>3. CASE i <= n
    <3>1. Items(format)[m] = ItemAt(format, i) BY <1>1, <2>1, <2>2, <2>3 DEF ItemStarts
    <3>2. QED BY <2>3, <3>1, ItemTextType
  <2>4. CASE ~(i <= n)
    <3>1. Items(format)[m] = <<>> BY <1>1, <2>1, <2>2, <2>4 DEF ItemStarts
    <3>2. <<>> \in Seq(Chars) OBVIOUS
    <3>3. QED BY <3>1, <3>2, NothingText
  <2>5. QED BY <2>3, <2>4
<1>5. TextsOf(ns, Items(format)) = [m \in 1 .. n |-> ItemText(ns, Items(format)[m])]
  BY <1>3 DEF TextsOf
<1>6. \A k \in 0 .. n - 1 : k + 1 \in 1 .. n OBVIOUS
<1>7. QED BY <1>4, <1>5, <1>6

\* strftime leaves the fractions alone and converts all the rest.
LEMMA RestConverted ==
  ASSUME NEW format \in Seq(STRING), NEW n \in Nat, n = Len(format),
         NEW ns \in Nat, ns < Powers[10]
  PROVE  strftime(FlattenSeq(Puts(ns, Items(format)))) = ItemTexts(ns, Items(format))
<1>1. PICK s : ItemStarts(s, format, n) BY ItemsAre
<1>2. PICK puts \in Seq(Seq(Chars)) :
        /\ puts = Puts(ns, Items(format)) /\ Len(puts) = n
        /\ \A k \in 0 .. n - 1 : puts[k + 1] = Put(ns, Items(format)[k + 1])
  BY PutsType
<1>3. PICK r \in [0 .. n -> Seq(Chars)] : Joins(r, puts, n) /\ FlattenSeq(puts) = r[n]
  BY <1>2, FlattenSteps
<1>4. Parts(r, puts, n) BY <1>2, <1>3, JoinsParts
<1>5. PICK texts \in Seq(Seq(Chars)) :
        /\ texts = TextsOf(ns, Items(format)) /\ Len(texts) = n
        /\ \A k \in 0 .. n - 1 : texts[k + 1] = ItemText(ns, Items(format)[k + 1])
  BY TextsType
<1>6. PICK h \in [0 .. n -> Seq(Chars)] : Joins(h, texts, n) /\ FlattenSeq(texts) = h[n]
  BY <1>5, FlattenSteps
<1>7. PICK u \in Seq(Chars) : u = r[n]
  <2>1. n \in 0 .. n OBVIOUS
  <2>2. r[n] \in Seq(Chars) BY <1>3, <2>1
  <2>3. QED BY <2>2
<1>8. PICK N \in Nat : N = Len(u) OBVIOUS
<1>9. PICK q, g : Shows(q, g, u, N) BY <1>8, StrftimeShows
<1> DEFINE There(k) == Said(q, g, N, Len(r[k]) + 1, h[k])
           S == {k \in 0 .. n : There(k)}
<1>10. 0 \in S
  <2>1. r[0] = <<>> /\ h[0] = <<>> BY <1>3, <1>6 DEF Joins
  <2>2. Len(r[0]) + 1 = 1 BY <2>1
  <2>3. q[0] = 1 /\ g[0] = <<>> BY <1>9 DEF Shows
  <2>4. 0 \in 0 .. N OBVIOUS
  <2>5. There(0) BY <2>1, <2>2, <2>3, <2>4 DEF Said
  <2> HIDE DEF There
  <2>6. QED BY <2>5
<1>11. ASSUME NEW k \in 0 .. n - 1, k \in S PROVE k + 1 \in S
  <2>1. PICK l \in Nat : l = Len(r[k]) BY <1>4 DEF Parts
  <2>2. k \in 0 .. n /\ k + 1 \in 0 .. n OBVIOUS
  <2>3. PICK made \in Seq(Chars) : made = h[k] BY <1>6, <2>2
  <2>4. Said(q, g, N, l + 1, made) BY <1>11, <2>1, <2>3
  <2>5. PICK put, text :
          /\ put = puts[k + 1] /\ text = texts[k + 1] /\ h[k + 1] = made \o text
          /\ put = Put(ns, Items(format)[k + 1])
          /\ text = ItemText(ns, Items(format)[k + 1])
    BY <1>2, <1>5, <1>6, <2>3 DEF Joins
  <2>6. /\ Len(put) \in Nat /\ Len(r[k + 1]) = l + Len(put) /\ l + Len(put) <= N
        /\ \A m \in 1 .. Len(put) : u[l + m] = put[m]
    <3>1. /\ Len(puts[k + 1]) \in Nat
          /\ Len(r[k + 1]) = Len(r[k]) + Len(puts[k + 1])
          /\ Len(r[k + 1]) <= Len(r[n])
          /\ \A m \in 1 .. Len(puts[k + 1]) : r[n][Len(r[k]) + m] = puts[k + 1][m]
      BY <1>4, Zenon DEF Parts
    <3>2. \A m \in 1 .. Len(put) : u[l + m] = put[m] BY <1>7, <2>1, <2>5, <3>1
    <3>3. QED BY <1>7, <1>8, <2>1, <2>5, <3>1, <3>2
  <2>7. SUFFICES Said(q, g, N, (l + Len(put)) + 1, made \o text)
    <3>1. There(k + 1) BY <2>5, <2>6, <2>7
    <3> HIDE DEF There
    <3>2. QED BY <2>2, <3>1
  <2>8. PICK i \in 1 .. n + 1 : i = s[k] BY <1>1, <2>2 DEF ItemStarts
  <2>9. CASE ~(i <= n)
    <3>1. Items(format)[k + 1] = <<>>
      <4>1. ~(s[k] <= n) BY <2>8, <2>9
      <4>2. QED BY <1>1, <4>1, Zenon DEF ItemStarts
    <3>2. put = <<>> /\ text = <<>> BY <2>5, <3>1, PutNothing, NothingText
    <3>3. Len(put) = 0 /\ (l + 0) + 1 = l + 1 BY <3>2
    <3>4. made \o <<>> = made BY ConcatEmptySeq
    <3>5. QED BY <2>4, <3>2, <3>3, <3>4
  <2>10. ASSUME i \in 1 .. n
         PROVE  put = Put(ns, ItemAt(format, i)) /\ text = ItemText(ns, ItemAt(format, i))
    <3>1. s[k] <= n BY <2>8, <2>10
    <3>2. Items(format)[k + 1] = ItemAt(format, s[k])
      BY <1>1, <3>1, Zenon DEF ItemStarts
    <3>3. QED BY <2>5, <2>8, <3>2
  <2>11. CASE i \in 1 .. n /\ HasFraction(format, i)
    <3>1. PICK z \in {3, 6, 9} : text = Decimals(ns, z) /\ put = text
      BY <2>10, <2>11, PutKinds
    <3>2. text \in Seq(DigitChars) /\ Len(text) = z BY <3>1, DecimalsType
    <3>3. \A m \in 1 .. z : text[m] \in DigitChars BY <3>2, ElementOfSeq
    <3>4. text \in Seq(Chars)
      <4>1. \A m \in 1 .. z : text[m] \in Chars BY <3>3 DEF Chars
      <4>2. QED BY <3>2, <4>1
    <3>13. Len(put) = z /\ z >= 1 BY <3>1, <3>2
    <3>14. l + 1 \in 1 .. N BY <2>6, <3>13
    <3>5. PICK at \in 1 .. N : at = l + 1 BY <3>14
    <3>6. ASSUME NEW m \in 1 .. z
          PROVE  u[at + m - 1] = text[m] /\ ~HasConversion(u, at + m - 1)
      <4>1. at + m - 1 = l + m BY <3>5
      <4>2. u[l + m] = text[m] BY <2>6, <3>1, <3>2
      <4>3. u[l + m] \in DigitChars BY <3>3, <4>2
      <4> HIDE DEF DigitChars
      <4>4. ~HasConversion(u, l + m) BY <4>3, NoDigit, Zenon
      <4>5. QED BY <4>1, <4>2, <4>4
    <3>7. at + z <= N + 1 BY <2>6, <3>1, <3>2, <3>5
    <3>8. Said(q, g, N, at, made) BY <2>4, <3>5
    <3>9. PICK y \in Nat : y = z OBVIOUS
    <3>10. Said(q, g, N, at + y, made \o text)
      BY <1>8, <1>9, <3>2, <3>4, <3>6, <3>7, <3>8, <3>9, SaidPlain
    <3>11. at + y = (l + Len(put)) + 1 BY <3>1, <3>2, <3>5, <3>9
    <3>12. QED BY <3>10, <3>11
  <2>12. CASE i \in 1 .. n /\ HasConversion(format, i)
    <3>1. PICK c : c = format[i + 1] /\ c \in DOMAIN Local
      BY <2>12 DEF HasConversion
    <3>2. put = <<"%", c>> /\ text = Local[c]
      <4>1. /\ ItemAt(format, i) = <<"%", format[i + 1]>>
            /\ ItemText(ns, ItemAt(format, i)) = Local[format[i + 1]]
            /\ ~HasFraction(format, i)
        BY <2>12, ConversionItem
      <4>2. Put(ns, ItemAt(format, i)) = ItemAt(format, i) BY <2>12, <4>1, PutKinds
      <4>3. QED BY <2>10, <2>12, <3>1, <4>1, <4>2
    <3>3. Len(put) = 2 /\ put[1] = "%" /\ put[2] = c BY <3>2
    <3>4. u[l + 1] = "%" /\ u[l + 2] = c /\ l + 2 <= N
      <4>1. 1 \in 1 .. Len(put) /\ 2 \in 1 .. Len(put) BY <3>3
      <4>2. QED BY <2>6, <3>3, <4>1
    <3>5. PICK at \in 1 .. N :
            at = l + 1 /\ at + 1 = l + 2 /\ at + 2 = (l + Len(put)) + 1
      BY <3>3, <3>4
    <3>6. HasConversion(u, at) BY <1>8, <3>1, <3>4, <3>5 DEF HasConversion
    <3>7. Said(q, g, N, at, made) BY <2>4, <3>5
    <3>8. Said(q, g, N, at + 2, made \o Local[u[at + 1]])
      BY <1>8, <1>9, <3>6, <3>7, SaidNext
    <3>9. QED BY <3>2, <3>4, <3>5, <3>8
  <2>13. CASE i \in 1 .. n /\ ~HasFraction(format, i) /\ ~HasConversion(format, i)
    <3>1. PICK c \in STRING : c = format[i] BY <2>13, ElementOfSeq
    <3>2. put = <<c>> /\ text = <<c>>
      <4>1. /\ ItemAt(format, i) = <<format[i]>>
            /\ ItemText(ns, ItemAt(format, i)) = <<format[i]>>
        BY <2>13, OtherItem
      <4>2. Put(ns, ItemAt(format, i)) = ItemAt(format, i) BY <2>13, PutKinds
      <4>3. QED BY <2>10, <2>13, <3>1, <4>1, <4>2
    <3>3. Len(put) = 1 /\ put[1] = c BY <3>2
    <3>4. u[l + 1] = c /\ l + 1 <= N
      <4>1. 1 \in 1 .. Len(put) BY <3>3
      <4>2. QED BY <2>6, <3>3, <4>1
    <3>5. PICK at \in 1 .. N : at = l + 1 /\ at + 1 = (l + Len(put)) + 1
      BY <3>3, <3>4
    <3>6. ~HasConversion(u, at)
      <4>1. ~HasConversion(r[n], Len(r[k]) + 1)
        <5>1. i \in 1 .. n /\ ~HasFraction(format, i) /\ ~HasConversion(format, i)
          BY <2>13
        <5>2. Joins(r, puts, n) BY <1>3
        <5>3. Len(puts) = n
              /\ \A m \in 0 .. n - 1 : puts[m + 1] = Put(ns, Items(format)[m + 1])
          BY <1>2
        <5>4. QED BY <1>1, <1>4, <2>8, <5>1, <5>2, <5>3, NoneArises, Zenon
      <4>2. QED BY <1>7, <2>1, <3>5, <4>1
    <3>7. Said(q, g, N, at, made) BY <2>4, <3>5
    <3>8. Said(q, g, N, at + 1, made \o <<u[at]>>)
      BY <1>8, <1>9, <3>6, <3>7, SaidNext
    <3>9. QED BY <3>2, <3>4, <3>5, <3>8
  <2>14. QED BY <2>9, <2>11, <2>12, <2>13
<1>12. There(n)
  <2>1. 0 .. n \subseteq S
    <3> HIDE DEF S
    <3>1. QED BY <1>10, <1>11, IntervalInduction
  <2>2. n \in 0 .. n OBVIOUS
  <2>3. QED BY <2>1, <2>2
<1>13. strftime(u) = h[n]
  <2>1. PICK at, made : at = N + 1 /\ made = h[n] OBVIOUS
  <2>2. Len(r[n]) + 1 = at BY <1>7, <1>8, <2>1
  <2>3. Said(q, g, N, at, made) BY <1>12, <2>1, <2>2
  <2>4. QED BY <1>9, <2>1, <2>3, SaidAll
<1>14. ItemTexts(ns, Items(format)) = FlattenSeq(texts) BY <1>5 DEF ItemTexts, TextsOf
<1>15. QED BY <1>2, <1>3, <1>6, <1>7, <1>13, <1>14

\* The text of an instant is right (TimestampRight), for every format, every
\* instant and every locale.
THEOREM TimestampRightHolds ==
  ASSUME asked \in Calls \cup {NoCall}
  PROVE  TimestampRight
<1> SUFFICES ASSUME asked # NoCall
             PROVE  LET format == asked[1]
                        ns == asked[2]
                        shown == ItemTexts(ns, Items(format))
                    IN ~SaysFraction(Items(format)) /\ Len(shown) \in 1 .. TimeBuffer - 1
                         => localtime_formatted(ns, format) = shown
  BY DEF TimestampRight
<1>1. PICK format \in Seq(STRING), ns \in Nat :
        format = asked[1] /\ ns = asked[2] /\ ns < Powers[10]
  BY CallType
<1>2. PICK shown : shown = ItemTexts(ns, Items(format)) OBVIOUS
<1>3. SUFFICES ASSUME ~SaysFraction(Items(format)), Len(shown) \in 1 .. TimeBuffer - 1
               PROVE  localtime_formatted(ns, format) = shown
  BY <1>1, <1>2
<1>4. Len(format) \in Nat OBVIOUS
<1>5. PICK text : text = FlattenSeq(Puts(ns, Items(format))) OBVIOUS
<1>6. localtime_formatted_fractions(ns, format) = text
  BY <1>1, <1>3, <1>4, <1>5, FractionsPut
<1>7. strftime(text) = shown BY <1>1, <1>2, <1>4, <1>5, RestConverted
<1>8. put_time(text) = shown BY <1>3, <1>7 DEF put_time
<1>9. QED BY <1>6, <1>8 DEF localtime_formatted
==============================================================================
