---------------------------- MODULE FileSinkProofs ----------------------------
(****************************************************************************)
(* Proofs about FileSink, for every number of sinks, directories, levels,    *)
(* seconds and calls.                                                        *)
(****************************************************************************)
EXTENDS FileSink, FiniteSetTheorems, TLAPS

-----------------------------------------------------------------------------
(* Entries, streams and files *)

\* What the operations write are entries.
LEMMA EntryType ==
  /\ \A n \in Nat : Message(n) \in Entries /\ Header(n) \in Entries
  /\ \A p \in Paths : /\ To(p) \in Entries /\ From(p) \in Entries
                      /\ Failed(p) \in Entries
  /\ Shutdown \in Entries /\ Hole \in Entries
BY DEF Entries, Message, Header, To, From, Failed, Shutdown, Hole

\* The last element of a sequence to which two have been added.
LEMMA LastOfConcat ==
  ASSUME NEW E, NEW a \in Seq(E), NEW x \in E, NEW y \in E
  PROVE  /\ Len(a \o <<x, y>>) \in 1..Len(a \o <<x, y>>)
         /\ (a \o <<x, y>>)[Len(a \o <<x, y>>)] = y
<1>1. Len(a \o <<x, y>>) = Len(a) + 2 /\ Len(a) \in Nat OBVIOUS
<1>2. (a \o <<x, y>>)[Len(a) + 2] = y OBVIOUS
<1>3. QED BY <1>1, <1>2

\* A path has three fields, so the lack of one is none.
LEMMA NoneIsNoPath == None \notin Paths
<1>1. SUFFICES ASSUME None \in Paths PROVE FALSE OBVIOUS
<1>2. DOMAIN None = {"dir", "level", "time"} BY <1>1 DEF Paths
<1>3. DOMAIN None = {"dir"} BY DEF None
<1>4. QED BY <1>2, <1>3

\* The absence of a stream is no stream.
LEMMA NoStreamIsNone == NoStream \notin Streams
<1>1. SUFFICES ASSUME NoStream \in Streams PROVE FALSE OBVIOUS
<1>2. NoStream.file \in Paths BY <1>1 DEF Streams
<1>3. NoStream.file = None BY DEF NoStream
<1>4. QED BY <1>2, <1>3, NoneIsNoPath

\* A stream that has just been opened.
LEMMA StreamType ==
  ASSUME NEW p \in Paths
  PROVE  /\ Stream(p) \in Streams
         /\ Stream(p).file = p
         /\ Stream(p).at = 0
         /\ Stream(p).buffer = <<>>
BY DEF Stream, Streams

\* Changing the buffer of a stream, alone and with its position.
LEMMA FieldType ==
  ASSUME NEW P, NEW B, NEW o \in [file : P, at : Nat, buffer : B],
         NEW b \in B
  PROVE  /\ [o EXCEPT !.buffer = b] \in [file : P, at : Nat, buffer : B]
         /\ [o EXCEPT !.buffer = b].file = o.file
         /\ [o EXCEPT !.buffer = b].at = o.at
         /\ [o EXCEPT !.buffer = b].buffer = b
BY Zenon

LEMMA AtFieldType ==
  ASSUME NEW P, NEW B, NEW o \in [file : P, at : Nat, buffer : B],
         NEW a \in Nat, NEW b \in B
  PROVE  /\ [o EXCEPT !.at = a, !.buffer = b] \in [file : P, at : Nat, buffer : B]
         /\ [o EXCEPT !.at = a, !.buffer = b].file = o.file
         /\ [o EXCEPT !.at = a, !.buffer = b].at = a
         /\ [o EXCEPT !.at = a, !.buffer = b].buffer = b
BY Zenon

\* Text put into a stream follows what is in its buffer.
LEMMA PutType ==
  ASSUME NEW o \in Streams, NEW text \in Seq(Entries)
  PROVE  /\ Put(o, text) \in Streams
         /\ Put(o, text).file = o.file
         /\ Put(o, text).at = o.at
         /\ Put(o, text).buffer = o.buffer \o text
<1> DEFINE b == o.buffer \o text
<1>1. o.buffer \in Seq(Entries) BY DEF Streams
<1>2. b \in Seq(Entries) BY <1>1
<1>3. Put(o, text) = [o EXCEPT !.buffer = b] BY DEF Put
<1> HIDE DEF b
<1>4. /\ [o EXCEPT !.buffer = b] \in Streams
      /\ [o EXCEPT !.buffer = b].file = o.file
      /\ [o EXCEPT !.buffer = b].at = o.at
      /\ [o EXCEPT !.buffer = b].buffer = b
  <2>1. o \in [file : Paths, at : Nat, buffer : Seq(Entries)] BY DEF Streams
  <2>2. QED BY <1>2, <2>1, FieldType, Zenon DEF Streams
<1>5. QED BY <1>3, <1>4, Zenon DEF b

\* A flushed stream is a stream on the same file, behind what it has written.
LEMMA FlushedType ==
  ASSUME NEW o \in Streams
  PROVE  /\ Flushed(o) \in Streams
         /\ Flushed(o).file = o.file
         /\ Flushed(o).at = o.at + Len(o.buffer)
         /\ Flushed(o).buffer = <<>>
<1> DEFINE a == o.at + Len(o.buffer)
           b == <<>>
<1>1. o.file \in Paths /\ o.at \in Nat /\ o.buffer \in Seq(Entries)
  BY DEF Streams
<1>2. a \in Nat /\ b \in Seq(Entries) BY <1>1
<1>3. Flushed(o) = [o EXCEPT !.at = a, !.buffer = b] BY DEF Flushed
<1> HIDE DEF a, b
<1>4. o \in [file : Paths, at : Nat, buffer : Seq(Entries)] BY DEF Streams
<1>5. /\ [o EXCEPT !.at = a, !.buffer = b]
           \in [file : Paths, at : Nat, buffer : Seq(Entries)]
      /\ [o EXCEPT !.at = a, !.buffer = b].file = o.file
      /\ [o EXCEPT !.at = a, !.buffer = b].at = a
      /\ [o EXCEPT !.at = a, !.buffer = b].buffer = b
  BY <1>2, <1>4, AtFieldType, Zenon
<1>6. QED BY <1>3, <1>5, Zenon DEF Streams, a, b

\* What a stream writes over a text is found in the text at the stream's
\* position.
LEMMA OverlayType ==
  ASSUME NEW text \in Seq(Entries), NEW o \in Streams
  PROVE  /\ Overlay(text, o) \in Seq(Entries)
         /\ \A i \in 1..Len(o.buffer) :
              /\ o.at + i \in DOMAIN Overlay(text, o)
              /\ Overlay(text, o)[o.at + i] = o.buffer[i]
<1> DEFINE end  == o.at + Len(o.buffer)
           last == IF end > Len(text) THEN end ELSE Len(text)
           E(i) == IF i > o.at /\ i <= end THEN o.buffer[i - o.at]
                   ELSE IF i <= Len(text)  THEN text[i]
                   ELSE Hole
<1>1. o.at \in Nat /\ o.buffer \in Seq(Entries) BY DEF Streams
<1>2. end \in Nat /\ last \in Nat /\ end <= last BY <1>1
<1>3. Overlay(text, o) = [i \in 1..last |-> E(i)] BY DEF Overlay
<1>4. ASSUME NEW i \in 1..last PROVE E(i) \in Entries
  <2>1. CASE i > o.at /\ i <= end
    <3>1. i - o.at \in 1..Len(o.buffer) BY <1>1, <2>1
    <3>2. o.buffer[i - o.at] \in Entries BY <1>1, <3>1
    <3>3. QED BY <2>1, <3>2
  <2>2. CASE ~(i > o.at /\ i <= end) /\ i <= Len(text)
    <3>1. i \in 1..Len(text) BY <2>2
    <3>2. text[i] \in Entries BY <3>1
    <3>3. QED BY <2>2, <3>2
  <2>3. CASE ~(i > o.at /\ i <= end) /\ ~(i <= Len(text))
    BY <2>3, EntryType
  <2>4. QED BY <2>1, <2>2, <2>3
<1>5. Overlay(text, o) \in Seq(Entries)
  <2> HIDE DEF E, last
  <2>1. QED BY <1>2, <1>3, <1>4
<1>6. ASSUME NEW i \in 1..Len(o.buffer)
      PROVE  /\ o.at + i \in 1..last
             /\ E(o.at + i) = o.buffer[i]
  <2>1. o.at + i \in 1..last /\ o.at + i > o.at /\ o.at + i <= end
    BY <1>1, <1>2
  <2>2. (o.at + i) - o.at = i BY <1>1
  <2>3. QED BY <2>1, <2>2
<1>7. QED
  <2> HIDE DEF E, last
  <2>1. QED BY <1>3, <1>5, <1>6

\* A flush changes the file of its stream only.
LEMMA FlushType ==
  ASSUME NEW d \in [Paths -> Seq(Entries)], NEW o \in Streams
  PROVE  /\ Flush(d, o) \in [Paths -> Seq(Entries)]
         /\ Flush(d, o)[o.file] = Overlay(d[o.file], o)
         /\ \A p \in Paths \ {o.file} : Flush(d, o)[p] = d[p]
<1>1. o.file \in Paths BY DEF Streams
<1>2. Overlay(d[o.file], o) \in Seq(Entries) BY <1>1, OverlayType
<1>3. QED BY <1>1, <1>2 DEF Flush

\* A name made now is a path with the current second.
LEMMA NameType ==
  ASSUME TypeOK, NEW d \in Dirs, NEW l \in FileLevels
  PROVE  LogFile(d, l) \in Paths /\ LogFile(d, l).time = clock
BY DEF TypeOK, LogFile, Paths

\* The file of the same name in the current directory has the same second.
LEMMA FallbackType ==
  ASSUME NEW p \in Paths
  PROVE  Fallback(p) \in Paths /\ Fallback(p).time = p.time
BY FilesAssumption DEF Fallback, Paths

-----------------------------------------------------------------------------
(* The messages in a text *)

\* Induction over an interval, for a set instead of a predicate: its least
\* element outside of the set would be the least interval of that kind.
LEMMA IntervalInduction ==
  ASSUME NEW n \in Nat, NEW S, 0 \in S,
         \A k \in 0..n - 1 : k \in S => k + 1 \in S
  PROVE  0..n \subseteq S
<1> DEFINE bad == {k \in 0..n : k \notin S}
           T == {1..k : k \in bad}
           R == StrictSubsetOrdering(Nat)
<1>1. SUFFICES ASSUME bad # {} PROVE FALSE OBVIOUS
<1>2. IsWellFoundedOn(R, FiniteSubsetsOf(Nat))
  BY FS_StrictSubsetOrderingWellFounded
<1>3. T \subseteq FiniteSubsetsOf(Nat) /\ T # {}
  <2>1. \A k \in Nat : IsFiniteSet(1..k) BY FS_Interval
  <2>2. QED BY <1>1, <2>1 DEF FiniteSubsetsOf
<1>4. PICK x \in T : \A y \in T : <<y, x>> \notin R
  <2> HIDE DEF R, T
  <2>1. QED BY <1>2, <1>3, WFMin
<1>5. PICK k \in bad : x = 1..k BY <1>4
<1>6. k \in 1..n /\ k - 1 \in 0..n - 1 BY <1>5
<1>7. 1..k - 1 \subseteq 1..k /\ k \in 1..k /\ k \notin 1..k - 1 BY <1>6
<1>8. <<1..k - 1, x>> \in R BY <1>5, <1>6, <1>7 DEF StrictSubsetOrdering
<1>9. k - 1 \in S
  <2>1. 1..k - 1 \notin T BY <1>4, <1>8
  <2>2. k - 1 \notin bad BY <2>1
  <2>3. QED BY <1>6, <2>2
<1>10. QED BY <1>5, <1>6, <1>9

\* The messages up to entry n, from those before it.
WithEntry(text, before, n) ==
  IF IsMessage(text[n]) THEN Append(before, text[n]) ELSE before

\* The recursion of MessagesUpTo has a solution.
LEMMA UpToDefined ==
  ASSUME NEW text \in Seq(Entries)
  PROVE  MessagesUpTo(text) =
           [n \in 0..Len(text) |->
              IF n = 0 THEN <<>>
              ELSE WithEntry(text, MessagesUpTo(text)[n - 1], n)]
<1> DEFINE Solves(f, k) ==
             f = [n \in 0..k |->
                    IF n = 0 THEN <<>> ELSE WithEntry(text, f[n - 1], n)]
           S == {k \in Nat : \E f : Solves(f, k)}
<1>1. Len(text) \in Nat OBVIOUS
<1>2. 0 \in S
  <2>1. Solves([n \in 0..0 |-> <<>>], 0) OBVIOUS
  <2>2. QED BY <2>1
<1>3. ASSUME NEW k \in 0..Len(text) - 1, k \in S PROVE k + 1 \in S
  <2>1. PICK f : Solves(f, k) BY <1>3
  <2> DEFINE last == WithEntry(text, f[k], k + 1)
             g == [n \in 0..k + 1 |-> IF n = k + 1 THEN last ELSE f[n]]
  <2> HIDE DEF last
  <2>2. ASSUME NEW n \in 0..k + 1
        PROVE  g[n] = IF n = 0 THEN <<>> ELSE WithEntry(text, g[n - 1], n)
    <3>1. CASE n = k + 1
      <4>1. n # 0 /\ n - 1 = k /\ k # k + 1 /\ k \in 0..k + 1 BY <3>1
      <4>2. g[n] = last /\ g[n - 1] = f[k] BY <3>1, <4>1
      <4>3. QED BY <3>1, <4>1, <4>2 DEF last
    <3>2. CASE n \in 1..k
      <4>1. n # 0 /\ n # k + 1 /\ n - 1 # k + 1 /\ n - 1 \in 0..k + 1 BY <3>2
      <4>2. g[n] = f[n] /\ g[n - 1] = f[n - 1] BY <4>1
      <4>3. f[n] = WithEntry(text, f[n - 1], n)
        <5>1. n \in 0..k BY <3>2
        <5>2. QED BY <2>1, <4>1, <5>1
      <4>4. QED BY <4>1, <4>2, <4>3
    <3>3. CASE n = 0
      <4>1. g[0] = f[0] OBVIOUS
      <4>2. f[0] = <<>> BY <2>1
      <4>3. QED BY <3>3, <4>1, <4>2
    <3>4. QED BY <3>1, <3>2, <3>3
  <2>3. Solves(g, k + 1)
    <3>1. g = [n \in 0..k + 1 |-> g[n]] OBVIOUS
    <3> HIDE DEF g
    <3>2. QED BY <2>2, <3>1, Zenon
  <2> HIDE DEF g, Solves
  <2>4. \E h : Solves(h, k + 1) BY <2>3
  <2>5. QED BY <2>4
<1>4. Len(text) \in S
  <2> HIDE DEF S
  <2>1. 0..Len(text) \subseteq S BY <1>1, <1>2, <1>3, IntervalInduction
  <2>2. QED BY <1>1, <2>1
<1>5. \E f : Solves(f, Len(text)) BY <1>4
<1>6. MessagesUpTo(text) = CHOOSE f : Solves(f, Len(text))
  BY DEF MessagesUpTo, WithEntry
<1>7. Solves(CHOOSE f : Solves(f, Len(text)), Len(text))
  <2> HIDE DEF Solves
  <2>1. QED BY <1>5, Zenon
<1>8. QED BY <1>6, <1>7

\* No messages are among no entries; each entry is a message or adds nothing.
LEMMA UpToStep ==
  ASSUME NEW text \in Seq(Entries)
  PROVE  /\ MessagesUpTo(text)[0] = <<>>
         /\ \A n \in 1..Len(text) :
              MessagesUpTo(text)[n] =
                WithEntry(text, MessagesUpTo(text)[n - 1], n)
<1>1. ASSUME NEW n \in 0..Len(text)
      PROVE  MessagesUpTo(text)[n] =
               IF n = 0 THEN <<>>
               ELSE WithEntry(text, MessagesUpTo(text)[n - 1], n)
  BY UpToDefined, Zenon
<1>2. 0 \in 0..Len(text) /\ \A n \in 1..Len(text) : n \in 0..Len(text) /\ n # 0
  OBVIOUS
<1>3. QED BY <1>1, <1>2, Zenon

\* Texts that begin alike have the same messages there.
LEMMA UpToSame ==
  ASSUME NEW a \in Seq(Entries), NEW b \in Seq(Entries),
         NEW m \in Nat, m <= Len(a), m <= Len(b),
         \A i \in 1..m : a[i] = b[i]
  PROVE  MessagesUpTo(a)[m] = MessagesUpTo(b)[m]
<1> DEFINE S == {n \in 0..m : MessagesUpTo(a)[n] = MessagesUpTo(b)[n]}
<1>1. 0 \in S BY UpToStep
<1>2. ASSUME NEW k \in 0..m - 1, k \in S PROVE k + 1 \in S
  <2>1. k + 1 \in 1..m /\ k + 1 \in 1..Len(a) /\ k + 1 \in 1..Len(b)
        /\ (k + 1) - 1 = k
    OBVIOUS
  <2>2. MessagesUpTo(a)[k + 1] = WithEntry(a, MessagesUpTo(a)[k], k + 1)
    BY <2>1, UpToStep
  <2>3. MessagesUpTo(b)[k + 1] = WithEntry(b, MessagesUpTo(b)[k], k + 1)
    BY <2>1, UpToStep
  <2>4. a[k + 1] = b[k + 1] /\ MessagesUpTo(a)[k] = MessagesUpTo(b)[k]
    BY <1>2, <2>1
  <2>5. QED BY <2>1, <2>2, <2>3, <2>4 DEF WithEntry
<1>3. 0..m \subseteq S
  <2> HIDE DEF S
  <2>1. QED BY <1>1, <1>2, IntervalInduction
<1>4. QED BY <1>3

\* No entry of the text behind the first n is a message.
Silent(text, n) == \A i \in DOMAIN text : i > n => ~IsMessage(text[i])

\* Entries that are no messages add none.
LEMMA UpToSilent ==
  ASSUME NEW text \in Seq(Entries), NEW m \in Nat, NEW n \in Nat,
         m <= n, n <= Len(text), \A i \in m + 1..n : ~IsMessage(text[i])
  PROVE  MessagesUpTo(text)[n] = MessagesUpTo(text)[m]
<1> DEFINE d == n - m
           S == {k \in 0..d : MessagesUpTo(text)[m + k] = MessagesUpTo(text)[m]}
<1>1. 0 \in S OBVIOUS
<1>2. ASSUME NEW k \in 0..d - 1, k \in S PROVE k + 1 \in S
  <2>1. m + (k + 1) \in 1..Len(text) /\ (m + (k + 1)) - 1 = m + k
        /\ m + (k + 1) \in m + 1..n /\ k + 1 \in 0..d
    OBVIOUS
  <2>2. MessagesUpTo(text)[m + (k + 1)] =
          WithEntry(text, MessagesUpTo(text)[m + k], m + (k + 1))
    BY <2>1, UpToStep
  <2>3. MessagesUpTo(text)[m + k] = MessagesUpTo(text)[m] BY <1>2
  <2>4. QED BY <2>1, <2>2, <2>3 DEF WithEntry
<1>3. d \in Nat /\ m + d = n OBVIOUS
<1>4. 0..d \subseteq S
  <2> HIDE DEF S, d
  <2>1. QED BY <1>1, <1>2, <1>3, IntervalInduction
<1>5. d \in S
  <2> HIDE DEF S, d
  <2>1. QED BY <1>3, <1>4
<1>6. QED BY <1>3, <1>5

\* A text with no messages has none in it.
LEMMA SilentText ==
  ASSUME NEW text \in Seq(Entries), Silent(text, 0)
  PROVE  MessagesIn(text) = <<>>
<1>1. \A i \in 0 + 1..Len(text) : ~IsMessage(text[i]) BY DEF Silent
<1>2. MessagesUpTo(text)[Len(text)] = MessagesUpTo(text)[0]
  BY <1>1, UpToSilent
<1>3. QED BY <1>2, UpToStep DEF MessagesIn

\* A text that is rewritten from some place on, where no message was.
LEMMA MessagesRewritten ==
  ASSUME NEW text \in Seq(Entries), NEW new \in Seq(Entries), NEW at \in Nat,
         at <= Len(text), at <= Len(new),
         \A i \in 1..at : new[i] = text[i],
         Silent(text, at)
  PROVE  /\ Silent(new, at) => MessagesIn(new) = MessagesIn(text)
         /\ \A k \in at + 1..Len(new) :
              IsMessage(new[k])
                /\ (\A i \in DOMAIN new : i > at /\ i # k => ~IsMessage(new[i]))
                => MessagesIn(new) = Append(MessagesIn(text), new[k])
<1>1. MessagesUpTo(new)[at] = MessagesUpTo(text)[at] BY UpToSame
<1>2. MessagesUpTo(text)[Len(text)] = MessagesUpTo(text)[at]
  <2>1. \A i \in at + 1..Len(text) : ~IsMessage(text[i]) BY DEF Silent
  <2>2. Len(text) \in Nat /\ Len(text) <= Len(text) OBVIOUS
  <2>3. QED BY <2>1, <2>2, UpToSilent, SMTT(90)
<1>3. MessagesUpTo(new)[at] = MessagesIn(text) BY <1>1, <1>2 DEF MessagesIn
<1>4. ASSUME Silent(new, at) PROVE MessagesIn(new) = MessagesIn(text)
  <2>1. \A i \in at + 1..Len(new) : ~IsMessage(new[i]) BY <1>4 DEF Silent
  <2>2. Len(new) \in Nat /\ Len(new) <= Len(new) OBVIOUS
  <2>3. MessagesUpTo(new)[Len(new)] = MessagesUpTo(new)[at]
    BY <2>1, <2>2, UpToSilent, SMTT(30)
  <2>4. QED BY <1>3, <2>3 DEF MessagesIn
<1>5. ASSUME NEW k \in at + 1..Len(new), IsMessage(new[k]),
             \A i \in DOMAIN new : i > at /\ i # k => ~IsMessage(new[i])
      PROVE  MessagesIn(new) = Append(MessagesIn(text), new[k])
  <2>1. /\ k - 1 \in Nat /\ at <= k - 1 /\ k - 1 <= Len(new)
        /\ k \in Nat /\ k <= Len(new) /\ k \in 1..Len(new)
    OBVIOUS
  <2>2. \A i \in at + 1..k - 1 : ~IsMessage(new[i]) BY <1>5
  <2>3. \A i \in k + 1..Len(new) : ~IsMessage(new[i]) BY <1>5
  <2>4. MessagesUpTo(new)[k - 1] = MessagesUpTo(new)[at]
    BY <2>1, <2>2, UpToSilent
  <2>5. MessagesUpTo(new)[k] = Append(MessagesUpTo(new)[k - 1], new[k])
    BY <1>5, <2>1, UpToStep DEF WithEntry
  <2>6. MessagesUpTo(new)[Len(new)] = MessagesUpTo(new)[k]
    BY <2>1, <2>3, UpToSilent
  <2>7. QED BY <1>3, <2>4, <2>5, <2>6 DEF MessagesIn
<1>6. QED BY <1>4, <1>5

\* What is where in a text that a stream has written over.
LEMMA OverlayParts ==
  ASSUME NEW text \in Seq(Entries), NEW o \in Streams, o.at <= Len(text)
  PROVE  LET new == Overlay(text, o)
             end == o.at + Len(o.buffer)
         IN /\ Len(new) = IF end > Len(text) THEN end ELSE Len(text)
            /\ \A i \in 1..o.at : new[i] = text[i]
            /\ \A i \in 1..Len(o.buffer) : new[o.at + i] = o.buffer[i]
            /\ \A i \in end + 1..Len(text) : new[i] = text[i]
<1> DEFINE new == Overlay(text, o)
           end == o.at + Len(o.buffer)
           last == IF end > Len(text) THEN end ELSE Len(text)
<1>1. o.at \in Nat /\ o.buffer \in Seq(Entries) BY DEF Streams
<1>2. end \in Nat /\ last \in Nat /\ end <= last /\ Len(text) <= last BY <1>1
<1>3. new \in Seq(Entries) BY OverlayType
<1>4. DOMAIN new = 1..last BY DEF Overlay
<1>5. Len(new) = last BY <1>2, <1>3, <1>4
<1>6. ASSUME NEW i \in 1..last
      PROVE  new[i] = IF i > o.at /\ i <= end THEN o.buffer[i - o.at]
                      ELSE IF i <= Len(text) THEN text[i] ELSE Hole
  BY DEF Overlay
<1> HIDE DEF new
<1>7. ASSUME NEW i \in 1..o.at PROVE new[i] = text[i]
  <2>1. i \in 1..last /\ ~(i > o.at) /\ i <= Len(text) BY <1>1, <1>2
  <2>2. QED BY <1>6, <2>1
<1>8. ASSUME NEW i \in 1..Len(o.buffer) PROVE new[o.at + i] = o.buffer[i]
  BY <1>1, <1>2, OverlayType DEF new
<1>9. ASSUME NEW i \in end + 1..Len(text) PROVE new[i] = text[i]
  <2>1. i \in 1..last /\ ~(i <= end) /\ i <= Len(text) BY <1>1, <1>2
  <2>2. QED BY <1>6, <2>1
<1>10. QED BY <1>5, <1>7, <1>8, <1>9 DEF new

\* No messages in the buffer add none to the file, one at its end adds one,
\* and the stream then stands behind all of them.
LEMMA OverlayMessages ==
  ASSUME NEW text \in Seq(Entries), NEW o \in Streams, o.at <= Len(text),
         Silent(text, o.at)
  PROVE  LET new == Overlay(text, o)
             size == Len(o.buffer)
         IN /\ o.at + size <= Len(new) /\ Silent(new, o.at + size)
            /\ Silent(o.buffer, 0) => MessagesIn(new) = MessagesIn(text)
            /\ size > 0 /\ IsMessage(o.buffer[size])
                 /\ (\A i \in 1..size - 1 : ~IsMessage(o.buffer[i]))
                 => MessagesIn(new) = Append(MessagesIn(text), o.buffer[size])
<1> DEFINE new == Overlay(text, o)
           size == Len(o.buffer)
           end == o.at + size
<1>1. /\ o.at \in Nat /\ o.buffer \in Seq(Entries) /\ size \in Nat
      /\ Len(text) \in Nat
  BY DEF Streams
<1>2. new \in Seq(Entries) BY OverlayType
<1>3. /\ Len(new) = IF end > Len(text) THEN end ELSE Len(text)
      /\ \A i \in 1..o.at : new[i] = text[i]
      /\ \A i \in 1..size : new[o.at + i] = o.buffer[i]
      /\ \A i \in end + 1..Len(text) : new[i] = text[i]
  BY OverlayParts
<1> HIDE DEF new, size
<1>4. end <= Len(new) BY <1>1, <1>3
<1>5. Silent(new, end)
  <2>1. ASSUME NEW i \in 1..Len(new), i > end PROVE ~IsMessage(new[i])
    <3>1. i \in end + 1..Len(text) /\ i \in 1..Len(text) /\ i > o.at
      BY <1>1, <1>3, <2>1
    <3>2. new[i] = text[i] BY <1>3, <3>1
    <3>3. QED BY <3>1, <3>2 DEF Silent
  <2>2. QED BY <1>2, <2>1 DEF Silent
<1>6. ASSUME NEW i \in 1..Len(new), i > o.at
      PROVE  /\ i <= end => i - o.at \in 1..size /\ new[i] = o.buffer[i - o.at]
             /\ i > end => ~IsMessage(new[i])
  <2>1. ASSUME i <= end
        PROVE  i - o.at \in 1..size /\ new[i] = o.buffer[i - o.at]
    <3>1. i - o.at \in 1..size /\ o.at + (i - o.at) = i BY <1>1, <1>6, <2>1
    <3>2. QED BY <1>3, <3>1
  <2>2. ASSUME i > end PROVE ~IsMessage(new[i])
    BY <1>2, <1>5, <2>2 DEF Silent
  <2>3. QED BY <2>1, <2>2
<1>7. o.at <= Len(new) BY <1>1, <1>4
<1>8. ASSUME Silent(o.buffer, 0) PROVE MessagesIn(new) = MessagesIn(text)
  <2>1. \A i \in 1..size : ~IsMessage(o.buffer[i])
    BY <1>1, <1>8 DEF Silent, size
  <2>2. ASSUME NEW i \in 1..Len(new), i > o.at PROVE ~IsMessage(new[i])
    BY <1>1, <1>6, <2>1, <2>2, SMTT(30)
  <2>3. Silent(new, o.at) BY <1>2, <2>2 DEF Silent
  <2>4. QED BY <1>1, <1>2, <1>3, <1>7, <2>3, MessagesRewritten
<1>9. ASSUME size > 0, IsMessage(o.buffer[size]),
             \A i \in 1..size - 1 : ~IsMessage(o.buffer[i])
      PROVE  MessagesIn(new) = Append(MessagesIn(text), o.buffer[size])
  <2>1. end \in o.at + 1..Len(new) /\ size \in 1..size BY <1>1, <1>4, <1>9
  <2>2. new[end] = o.buffer[size] BY <1>3, <2>1
  <2>3. ASSUME NEW i \in 1..Len(new), i > o.at, i # end
        PROVE  ~IsMessage(new[i])
    <3>1. CASE i > end BY <1>6, <2>3, <3>1
    <3>2. CASE i < end
      <4>1. i - o.at \in 1..size - 1 /\ i <= end BY <1>1, <2>3, <3>2
      <4>2. new[i] = o.buffer[i - o.at] BY <1>6, <2>3, <4>1
      <4>3. QED BY <1>9, <4>1, <4>2
    <3>3. QED BY <1>1, <2>3, <3>1, <3>2
  <2>4. \A i \in DOMAIN new : i > o.at /\ i # end => ~IsMessage(new[i])
    BY <1>2, <2>3
  <2> HIDE DEF end
  <2>5. MessagesIn(new) = Append(MessagesIn(text), new[end])
    BY <1>1, <1>2, <1>3, <1>7, <1>9, <2>1, <2>2, <2>4, MessagesRewritten
  <2>6. QED BY <2>2, <2>5
<1>10. QED BY <1>4, <1>5, <1>8, <1>9 DEF new, size

\* Only a message is one.
LEMMA EntryKinds ==
  /\ \A n : IsMessage(Message(n)) /\ ~IsMessage(Header(n))
  /\ \A p : ~IsMessage(To(p)) /\ ~IsMessage(From(p)) /\ ~IsMessage(Failed(p))
  /\ ~IsMessage(Shutdown) /\ ~IsMessage(Hole)
BY DEF IsMessage, Message, Header, To, From, Failed, Shutdown, Hole

\* No entries, and two texts without messages, one behind the other.
LEMMA EmptySilent == Silent(<<>>, 0)
BY DEF Silent

LEMMA SilentConcat ==
  ASSUME NEW a \in Seq(Entries), NEW b \in Seq(Entries),
         Silent(a, 0), Silent(b, 0)
  PROVE  Silent(a \o b, 0)
<1>1. ASSUME NEW i \in 1..Len(a \o b) PROVE ~IsMessage((a \o b)[i])
  <2>1. CASE i \in 1..Len(a)
    <3>1. (a \o b)[i] = a[i] BY <2>1
    <3>2. QED BY <2>1, <3>1 DEF Silent
  <2>2. CASE i \in Len(a) + 1..Len(a) + Len(b)
    <3>1. i - Len(a) \in 1..Len(b) /\ (a \o b)[i] = b[i - Len(a)] BY <2>2
    <3>2. QED BY <3>1 DEF Silent
  <2>3. QED BY <2>1, <2>2
<1>2. QED BY <1>1 DEF Silent

\* Entries of which the last and no other is a message.
OneMessage(text) ==
  /\ text # <<>> /\ IsMessage(text[Len(text)])
  /\ \A i \in 1..Len(text) - 1 : ~IsMessage(text[i])

LEMMA SilentThenMessage ==
  ASSUME NEW a \in Seq(Entries), Silent(a, 0),
         NEW e \in Entries, IsMessage(e)
  PROVE  OneMessage(a \o <<e>>) /\ (a \o <<e>>)[Len(a \o <<e>>)] = e
<1>1. Len(a \o <<e>>) = Len(a) + 1 /\ (a \o <<e>>)[Len(a) + 1] = e OBVIOUS
<1>2. ASSUME NEW i \in 1..Len(a) PROVE ~IsMessage((a \o <<e>>)[i])
  <2>1. (a \o <<e>>)[i] = a[i] OBVIOUS
  <2>2. QED BY <2>1 DEF Silent
<1>3. QED BY <1>1, <1>2 DEF OneMessage

\* Text without messages put before one with a message at its end.
LEMMA SilentThenOne ==
  ASSUME NEW a \in Seq(Entries), Silent(a, 0),
         NEW b \in Seq(Entries), OneMessage(b)
  PROVE  OneMessage(a \o b) /\ (a \o b)[Len(a \o b)] = b[Len(b)]
<1>1. Len(b) \in Nat \ {0} /\ Len(a) \in Nat /\ Len(a \o b) = Len(a) + Len(b)
  BY DEF OneMessage
<1>2. (a \o b)[Len(a) + Len(b)] = b[Len(b)] BY <1>1
<1>3. ASSUME NEW i \in 1..Len(a \o b) - 1 PROVE ~IsMessage((a \o b)[i])
  <2>1. CASE i \in 1..Len(a)
    <3>1. (a \o b)[i] = a[i] BY <2>1
    <3>2. QED BY <2>1, <3>1 DEF Silent
  <2>2. CASE i \in Len(a) + 1..Len(a) + Len(b) - 1
    <3>1. i - Len(a) \in 1..Len(b) - 1 /\ (a \o b)[i] = b[i - Len(a)]
      BY <1>1, <2>2
    <3>2. QED BY <3>1 DEF OneMessage
  <2>3. QED BY <1>1, <2>1, <2>2
<1>4. a \o b # <<>> BY <1>1
<1>5. QED BY <1>1, <1>2, <1>3, <1>4 DEF OneMessage

-----------------------------------------------------------------------------
(* Types *)

LEMMA InitType == Init => TypeOK
<1> SUFFICES ASSUME Init PROVE TypeOK OBVIOUS
<1>1. 0 \in 0..MaxTime BY FilesAssumption
<1>2. \A p \in Paths : <<>> \in Seq(Entries) /\ <<>> \in Seq([message : Nat])
  OBVIOUS
<1>3. /\ clock \in 0..MaxTime
      /\ proc \in {"running", "aborted", "undefined"}
      /\ stage \in [Sinks -> {"none", "live", "gone"}]
      /\ path \in [Sinks -> Paths \cup {None}]
      /\ out \in [Sinks -> Streams \cup {NoStream}]
      /\ header \in [Sinks -> Nat]
      /\ first \in [Sinks -> BOOLEAN]
      /\ least \in [Sinks -> Int]
      /\ links \in [Links -> Paths \cup {None}]
      /\ {sent, events} \subseteq Nat
      /\ named \in [Sinks -> Paths \cup {None}]
      /\ opened \subseteq Paths
      /\ shared \subseteq Paths
      /\ moved \subseteq Paths \X Paths
  BY <1>1 DEF Init
<1>4. disk \in [Paths -> Seq(Entries)] /\ told \in [Paths -> Seq([message : Nat])]
  BY <1>2 DEF Init
<1>5. \A s \in Sinks : out[s] # NoStream => out[s].file = path[s] BY DEF Init
<1>6. QED BY <1>3, <1>4, <1>5 DEF TypeOK

\* What the opening of a file leaves.
LEMMA OpenedType ==
  ASSUME TypeOK, NEW p \in Paths, NEW s \in Sinks,
         NEW change \in SUBSET (Paths \X Paths), Opened(p, s, change)
  PROVE  /\ opened' \subseteq Paths
         /\ shared' \subseteq Paths
         /\ told' \in [Paths -> Seq([message : Nat])]
         /\ moved' \subseteq Paths \X Paths
<1>1. opened' \subseteq Paths /\ shared' \subseteq Paths BY DEF TypeOK, Opened
<1>2. told' \in [Paths -> Seq([message : Nat])]
  <2>1. <<>> \in Seq([message : Nat]) OBVIOUS
  <2>2. QED BY <2>1 DEF TypeOK, Opened
<1>3. moved' \subseteq Paths \X Paths BY DEF TypeOK, Opened
<1>4. QED BY <1>1, <1>2, <1>3

\* A truncated file is a file.
LEMMA TruncatedType ==
  ASSUME TypeOK, NEW p \in Paths
  PROVE  [disk EXCEPT ![p] = <<>>] \in [Paths -> Seq(Entries)]
<1>1. <<>> \in Seq(Entries) OBVIOUS
<1>2. QED BY <1>1 DEF TypeOK

\* A sink with a new stream has it on its new path.
LEMMA RedirectedType ==
  ASSUME TypeOK, NEW s \in Sinks, NEW p \in Paths, NEW o \in Streams, o.file = p,
         path' = [path EXCEPT ![s] = p],
         out' = [out EXCEPT ![s] = o]
  PROVE  /\ path' \in [Sinks -> Paths \cup {None}]
         /\ out' \in [Sinks -> Streams \cup {NoStream}]
         /\ \A t \in Sinks : out'[t] # NoStream => out'[t].file = path'[t]
BY DEF TypeOK

\* A sink that writes to its stream keeps it on its path.
LEMMA WrittenType ==
  ASSUME TypeOK, NEW s \in Sinks, out[s] # NoStream, NEW o \in Streams,
         o.file = out[s].file,
         path' = path,
         out' = [out EXCEPT ![s] = o]
  PROVE  /\ path' \in [Sinks -> Paths \cup {None}]
         /\ out' \in [Sinks -> Streams \cup {NoStream}]
         /\ \A t \in Sinks : out'[t] # NoStream => out'[t].file = path'[t]
BY DEF TypeOK

\* A sink with a stream has one on its path.
LEMMA OutType ==
  ASSUME TypeOK, NEW s \in Sinks, out[s] # NoStream
  PROVE  out[s] \in Streams /\ path[s] \in Paths /\ out[s].file = path[s]
<1>1. out[s] \in Streams BY DEF TypeOK
<1>2. QED BY <1>1 DEF TypeOK, Streams

-----------------------------------------------------------------------------
(* What the operations do, with their names and entries in place *)

\* A sink that is being built has its file p open, or has none.
Use(s, p) ==
  /\ path' = [path EXCEPT ![s] = p]
  /\ out' = [out EXCEPT ![s] = Stream(p)]
  /\ disk' = [disk EXCEPT ![p] = <<>>]
  /\ Opened(p, s, {})
  /\ UNCHANGED proc

Without(s, p) ==
  /\ path' = [path EXCEPT ![s] = p]
  /\ proc' \in {"running", "aborted"}
  /\ NothingOpened /\ UNCHANGED <<out, disk>>

LEMMA LinksType ==
  ASSUME TypeOK, NEW names, NEW p \in Paths, MakeLinks(names, p)
  PROVE  links' \in [Links -> Paths \cup {None}]
BY DEF TypeOK, MakeLinks

LEMMA ConstructCases ==
  ASSUME TypeOK, NEW s \in Sinks, Construct(s)
  PROVE  /\ stage[s] = "none"
         /\ stage' = [stage EXCEPT ![s] = "live"]
         /\ header' = [header EXCEPT ![s] = 0]
         /\ first' = [first EXCEPT ![s] = TRUE]
         /\ \E l \in FileLevels : least' = [least EXCEPT ![s] = l]
         /\ named' = [named EXCEPT ![s] = None]
         /\ links' \in [Links -> Paths \cup {None}]
         /\ \E p \in Paths \cap MayOpen(s) : Use(s, p) \/ Without(s, p)
         /\ UNCHANGED <<clock, counts>>
<1>1. named[s] \in Paths BY DEF Construct, TypeOK
<1>2. PICK w \in Paths : w = named[s] BY <1>1
<1>3. /\ stage[s] = "none" /\ named[s] # None
      /\ stage' = [stage EXCEPT ![s] = "live"]
      /\ header' = [header EXCEPT ![s] = 0]
      /\ first' = [first EXCEPT ![s] = TRUE]
      /\ least' = [least EXCEPT ![s] = w.level]
      /\ named' = [named EXCEPT ![s] = None]
      /\ MakeLinks({LinkName(x, w.level) : x \in {w.dir} \cup LogLink}, w)
      /\ Use(s, w) \/ Use(s, Fallback(w)) \/ Without(s, Fallback(w))
      /\ UNCHANGED <<clock, counts>>
  BY <1>2, Zenon DEF Construct, Use, Without
<1>4. Fallback(w) \in Paths BY FallbackType
<1>5. w \in MayOpen(s) /\ Fallback(w) \in MayOpen(s)
  <2>1. stage[s] # "live" BY <1>3
  <2>2. QED BY <1>2, <1>3, <2>1 DEF MayOpen
<1>6. links' \in [Links -> Paths \cup {None}] BY <1>3, LinksType
<1>7. w.level \in FileLevels BY DEF Paths
<1>8. QED BY <1>3, <1>4, <1>5, <1>6, <1>7, Zenon

\* A message that is refused, or accepted; both may bring the header.
Refuse(s) ==
  \E top \in Seq(Entries) :
    /\ Silent(top, 0)
    /\ out' = [out EXCEPT ![s] = Put(@, top)]
    /\ UNCHANGED <<disk, aux>>

Accept(s) ==
  \E text \in Seq(Entries) :
    /\ OneMessage(text) /\ text[Len(text)] = Message(sent')
    /\ WriteOut(s, Put(out[s], text))
    /\ told' = [told EXCEPT ![path[s]] = Append(@, Message(sent'))]
    /\ UNCHANGED <<opened, shared, moved>>

LEMMA FileWriteCases ==
  ASSUME TypeOK, NEW s \in Sinks, FileWrite(s)
  PROVE  /\ stage[s] = "live"
         /\ sent' = sent + 1 /\ UNCHANGED events
         /\ \/ Undefined /\ NothingOpened /\ disk' = disk
            \/ /\ out[s] # NoStream
               /\ first' = [first EXCEPT ![s] = FALSE]
               /\ UNCHANGED <<clock, proc, stage, path, header, least, named, links>>
               /\ Refuse(s) \/ Accept(s)
<1> DEFINE top  == IF first[s] THEN <<Header(header[s])>> ELSE <<>>
           text == top \o <<Message(sent')>>
<1>1. /\ stage[s] = "live"
      /\ sent' = sent + 1 /\ UNCHANGED events
      /\ \/ Undefined /\ NothingOpened /\ disk' = disk
         \/ /\ out[s] # NoStream
            /\ first' = [first EXCEPT ![s] = FALSE]
            /\ out' = [out EXCEPT ![s] = Put(@, top)]
            /\ UNCHANGED <<clock, proc, stage, path, header, least, named,
                           disk, links, aux>>
         \/ /\ out[s] # NoStream
            /\ first' = [first EXCEPT ![s] = FALSE]
            /\ WriteOut(s, Put(out[s], text))
            /\ told' = [told EXCEPT ![path[s]] = Append(@, Message(sent'))]
            /\ UNCHANGED <<clock, proc, stage, path, header, least, named,
                           links, opened, shared, moved>>
  BY Zenon DEF FileWrite, Usable
<1>2. top \in Seq(Entries) /\ text \in Seq(Entries)
  <2>1. header[s] \in Nat /\ sent \in Nat BY DEF TypeOK
  <2>2. Header(header[s]) \in Entries /\ Message(sent') \in Entries
    BY <1>1, <2>1, EntryType
  <2>3. QED BY <2>2
<1>3. Silent(top, 0)
  <2>1. Silent(<<Header(header[s])>>, 0) BY EntryKinds DEF Silent
  <2>2. QED BY <2>1, EmptySilent
<1>4. OneMessage(text) /\ text[Len(text)] = Message(sent')
  <2>1. sent' \in Nat BY <1>1 DEF TypeOK
  <2>2. Message(sent') \in Entries /\ IsMessage(Message(sent'))
    BY <2>1, EntryType, EntryKinds
  <2> HIDE DEF top
  <2>3. QED BY <1>2, <1>3, <2>2, SilentThenMessage
<1> HIDE DEF top, text
<1>5. QED BY <1>1, <1>2, <1>3, <1>4, Zenon DEF Refuse, Accept, aux

\* A change of the log file without a stream, with success and without.
ChangeUndefined(p, s) ==
  /\ Undefined
  /\ \/ NothingOpened /\ disk' = disk
     \/ Opened(p, s, {}) /\ disk' = [disk EXCEPT ![p] = <<>>]

LEMMA ChangeCases ==
  ASSUME TypeOK, NEW s \in Sinks, ChangeLogFile(s)
  PROVE  /\ stage[s] = "live"
         /\ UNCHANGED counts
         /\ \E p \in Paths \cap MayOpen(s) :
              \/ out[s] = NoStream /\ ChangeUndefined(p, s)
              \/ /\ out[s] # NoStream
                 /\ named' = [named EXCEPT ![s] = None]
                 /\ Changed(s, p) \/ ChangeFailed(s, p)
<1>1. /\ stage[s] = "live" /\ named[s] # None
      /\ UNCHANGED counts
      /\ \/ out[s] = NoStream /\ ChangeUndefined(named[s], s)
         \/ /\ out[s] # NoStream
            /\ named' = [named EXCEPT ![s] = None]
            /\ Changed(s, named[s]) \/ ChangeFailed(s, named[s])
  BY Zenon DEF ChangeLogFile, ChangeUndefined
<1>2. named[s] \in Paths BY <1>1 DEF TypeOK
<1>3. named[s] \in MayOpen(s) BY <1>1 DEF MayOpen
<1>4. QED BY <1>1, <1>2, <1>3, Zenon

\* A sink that has made the name of a file, and what else it leaves alone.
LEMMA NameCases ==
  ASSUME TypeOK, NEW s \in Sinks, NameFile(s) \/ NameNewFile(s)
  PROVE  /\ named[s] = None
         /\ \E p \in Paths : p.time = clock /\ named' = [named EXCEPT ![s] = p]
         /\ UNCHANGED <<clock, proc, stage, path, out, header, first, least,
                        disk, links, sent, aux>>
         /\ events' \in Nat
<1>1. PICK d \in Dirs, l \in FileLevels :
        named' = [named EXCEPT ![s] = LogFile(d, l)]
  BY DEF NameFile, NameNewFile
<1>2. LogFile(d, l) \in Paths /\ LogFile(d, l).time = clock BY NameType
<1>3. /\ named[s] = None
      /\ UNCHANGED <<clock, proc, stage, path, out, header, first, least,
                     disk, links, sent, aux>>
  BY DEF NameFile, NameNewFile, Usable, counts
<1>4. events' \in Nat BY DEF NameFile, NameNewFile, counts, TypeOK
<1>5. QED BY <1>1, <1>2, <1>3, <1>4, Zenon

-----------------------------------------------------------------------------
(* The invariant *)

\* Only a live sink has a stream.
Idle == \A s \in Sinks : stage[s] # "live" => out[s] = NoStream

OnFile(s, p) == out[s] # NoStream /\ out[s].file = p

\* A file that two sinks have open is shared.
OpenTwice ==
  \A s, t \in Sinks, p \in Paths :
    s # t /\ OnFile(s, p) /\ OnFile(t, p) => p \in shared

\* No sink has a file open that a log has left, until it is opened again.
LeftFiles ==
  \A m \in moved : m[1] \notin shared => \A s \in Sinks : ~OnFile(s, m[1])

IInv == TypeOK /\ Idle /\ OpenTwice /\ LeftFiles /\ OldFileNamesNew

LEMMA ConstructType ==
  ASSUME TypeOK, Idle, NEW s \in Sinks, Construct(s)
  PROVE  TypeOK' /\ Idle'
<1>1. /\ stage[s] = "none"
      /\ stage' = [stage EXCEPT ![s] = "live"]
      /\ header' = [header EXCEPT ![s] = 0]
      /\ first' = [first EXCEPT ![s] = TRUE]
      /\ \E l \in FileLevels : least' = [least EXCEPT ![s] = l]
      /\ named' = [named EXCEPT ![s] = None]
      /\ links' \in [Links -> Paths \cup {None}]
      /\ UNCHANGED <<clock, counts>>
  BY ConstructCases
<1>2. PICK p \in Paths : Use(s, p) \/ Without(s, p) BY ConstructCases
<1>3. /\ clock' \in 0..MaxTime
      /\ stage' \in [Sinks -> {"none", "live", "gone"}]
      /\ header' \in [Sinks -> Nat]
      /\ first' \in [Sinks -> BOOLEAN]
      /\ least' \in [Sinks -> Int]
      /\ named' \in [Sinks -> Paths \cup {None}]
      /\ {sent', events'} \subseteq Nat
      /\ links' \in [Links -> Paths \cup {None}]
  BY <1>1, FilesAssumption DEF TypeOK, counts
<1>4. CASE Use(s, p)
  <2> USE <1>4 DEF Use
  <2>1. /\ opened' \subseteq Paths
        /\ shared' \subseteq Paths
        /\ told' \in [Paths -> Seq([message : Nat])]
        /\ moved' \subseteq Paths \X Paths
    BY OpenedType
  <2>2. disk' \in [Paths -> Seq(Entries)] BY TruncatedType
  <2>3. Stream(p) \in Streams /\ Stream(p).file = p BY StreamType
  <2>4. /\ path' \in [Sinks -> Paths \cup {None}]
        /\ out' \in [Sinks -> Streams \cup {NoStream}]
        /\ \A t \in Sinks : out'[t] # NoStream => out'[t].file = path'[t]
    BY <2>3, RedirectedType
  <2>5. proc' \in {"running", "aborted", "undefined"} BY DEF TypeOK
  <2>6. Idle' BY <1>1 DEF TypeOK, Idle
  <2>7. QED BY <1>3, <2>1, <2>2, <2>4, <2>5, <2>6 DEF TypeOK
<1>5. CASE Without(s, p)
  <2> USE <1>5 DEF Without
  <2>1. out[s] = NoStream BY <1>1 DEF Idle
  <2>2. /\ path' \in [Sinks -> Paths \cup {None}]
        /\ out' \in [Sinks -> Streams \cup {NoStream}]
        /\ \A t \in Sinks : out'[t] # NoStream => out'[t].file = path'[t]
    BY <2>1 DEF TypeOK
  <2>3. /\ proc' \in {"running", "aborted", "undefined"}
        /\ disk' \in [Paths -> Seq(Entries)]
        /\ opened' \subseteq Paths
        /\ shared' \subseteq Paths
        /\ told' \in [Paths -> Seq([message : Nat])]
        /\ moved' \subseteq Paths \X Paths
    BY DEF TypeOK, NothingOpened, aux
  <2>4. Idle' BY <1>1 DEF TypeOK, Idle
  <2>5. QED BY <1>3, <2>2, <2>3, <2>4 DEF TypeOK
<1>6. QED BY <1>2, <1>4, <1>5

LEMMA FileWriteType ==
  ASSUME TypeOK, Idle, NEW s \in Sinks, FileWrite(s)
  PROVE  TypeOK' /\ Idle'
<1>1. /\ stage[s] = "live"
      /\ sent' = sent + 1 /\ UNCHANGED events
      /\ \/ Undefined /\ NothingOpened /\ disk' = disk
         \/ /\ out[s] # NoStream
            /\ first' = [first EXCEPT ![s] = FALSE]
            /\ UNCHANGED <<clock, proc, stage, path, header, least, named, links>>
            /\ Refuse(s) \/ Accept(s)
  BY FileWriteCases
<1>2. {sent', events'} \subseteq Nat BY <1>1 DEF TypeOK
<1>3. CASE Undefined /\ NothingOpened /\ disk' = disk
  BY <1>2, <1>3 DEF TypeOK, Idle, Undefined, NothingOpened, sinkVars, aux
<1>4. CASE /\ out[s] # NoStream
           /\ first' = [first EXCEPT ![s] = FALSE]
           /\ UNCHANGED <<clock, proc, stage, path, header, least, named, links>>
           /\ Refuse(s) \/ Accept(s)
  <2>1. out[s] \in Streams /\ path[s] \in Paths /\ out[s].file = path[s]
    BY <1>4, OutType
  <2>2. /\ clock' \in 0..MaxTime
        /\ proc' \in {"running", "aborted", "undefined"}
        /\ stage' \in [Sinks -> {"none", "live", "gone"}]
        /\ header' \in [Sinks -> Nat]
        /\ first' \in [Sinks -> BOOLEAN]
        /\ least' \in [Sinks -> Int]
        /\ named' \in [Sinks -> Paths \cup {None}]
        /\ links' \in [Links -> Paths \cup {None}]
    BY <1>4 DEF TypeOK
  <2>3. CASE Refuse(s)
    <3>1. PICK top \in Seq(Entries) :
            /\ out' = [out EXCEPT ![s] = Put(out[s], top)]
            /\ UNCHANGED <<disk, aux>>
      BY <2>3 DEF Refuse
    <3>2. Put(out[s], top) \in Streams /\ Put(out[s], top).file = out[s].file
      BY <2>1, PutType
    <3>3. /\ path' \in [Sinks -> Paths \cup {None}]
          /\ out' \in [Sinks -> Streams \cup {NoStream}]
          /\ \A t \in Sinks : out'[t] # NoStream => out'[t].file = path'[t]
      BY <1>4, <3>1, <3>2, WrittenType
    <3>4. /\ disk' \in [Paths -> Seq(Entries)]
          /\ opened' \subseteq Paths
          /\ shared' \subseteq Paths
          /\ told' \in [Paths -> Seq([message : Nat])]
          /\ moved' \subseteq Paths \X Paths
      BY <3>1 DEF TypeOK, aux
    <3>5. Idle' BY <1>1, <1>4, <3>1 DEF TypeOK, Idle
    <3>6. QED BY <1>2, <2>2, <3>3, <3>4, <3>5 DEF TypeOK
  <2>4. CASE Accept(s)
    <3>1. PICK text \in Seq(Entries) :
            /\ disk' = Flush(disk, Put(out[s], text))
            /\ out' = [out EXCEPT ![s] = Flushed(Put(out[s], text))]
            /\ told' = [told EXCEPT ![path[s]] = Append(@, Message(sent'))]
            /\ UNCHANGED <<opened, shared, moved>>
      BY <2>4 DEF Accept, WriteOut
    <3>2. Put(out[s], text) \in Streams /\ Put(out[s], text).file = out[s].file
      BY <2>1, PutType
    <3>3. /\ Flushed(Put(out[s], text)) \in Streams
          /\ Flushed(Put(out[s], text)).file = out[s].file
      BY <3>2, FlushedType
    <3>4. /\ path' \in [Sinks -> Paths \cup {None}]
          /\ out' \in [Sinks -> Streams \cup {NoStream}]
          /\ \A t \in Sinks : out'[t] # NoStream => out'[t].file = path'[t]
      BY <1>4, <3>1, <3>3, WrittenType
    <3>5. disk' \in [Paths -> Seq(Entries)]
      <4>1. disk \in [Paths -> Seq(Entries)] BY DEF TypeOK
      <4>2. QED BY <3>1, <3>2, <4>1, FlushType
    <3>6. told' \in [Paths -> Seq([message : Nat])]
      <4>1. Message(sent') \in [message : Nat] BY <1>2 DEF Message
      <4>2. told \in [Paths -> Seq([message : Nat])] BY DEF TypeOK
      <4>3. Append(told[path[s]], Message(sent')) \in Seq([message : Nat])
        BY <2>1, <4>1, <4>2
      <4>4. QED BY <3>1, <4>2, <4>3
    <3>7. /\ opened' \subseteq Paths
          /\ shared' \subseteq Paths
          /\ moved' \subseteq Paths \X Paths
      BY <3>1 DEF TypeOK
    <3>8. Idle' BY <1>1, <1>4, <3>1 DEF TypeOK, Idle
    <3>9. QED BY <1>2, <2>2, <3>4, <3>5, <3>6, <3>7, <3>8 DEF TypeOK
  <2>5. QED BY <1>4, <2>3, <2>4
<1>5. QED BY <1>1, <1>3, <1>4

LEMMA ChangedType ==
  ASSUME TypeOK, Idle, NEW s \in Sinks, stage[s] = "live", out[s] # NoStream,
         NEW p \in Paths, Changed(s, p), UNCHANGED counts,
         named' = [named EXCEPT ![s] = None]
  PROVE  TypeOK' /\ Idle'
<1> USE DEF Changed
<1>1. out[s] \in Streams /\ path[s] \in Paths BY OutType
<1>2. <<Header(header[s]), To(p)>> \in Seq(Entries)
  <2>1. header[s] \in Nat BY DEF TypeOK
  <2>2. QED BY <2>1, EntryType
<1>3. Put(out[s], <<Header(header[s]), To(p)>>) \in Streams BY <1>1, <1>2, PutType
<1>4. disk' \in [Paths -> Seq(Entries)] BY <1>3, TruncatedType, FlushType
<1>5. /\ Put(Stream(p), <<From(path[s])>>) \in Streams
      /\ Put(Stream(p), <<From(path[s])>>).file = p
  <2>1. <<From(path[s])>> \in Seq(Entries) BY <1>1, EntryType
  <2>2. Stream(p) \in Streams /\ Stream(p).file = p BY StreamType
  <2>3. QED BY <2>1, <2>2, PutType
<1>6. /\ path' \in [Sinks -> Paths \cup {None}]
      /\ out' \in [Sinks -> Streams \cup {NoStream}]
      /\ \A t \in Sinks : out'[t] # NoStream => out'[t].file = path'[t]
  BY <1>5, RedirectedType
<1>7. /\ opened' \subseteq Paths
      /\ shared' \subseteq Paths
      /\ told' \in [Paths -> Seq([message : Nat])]
      /\ moved' \subseteq Paths \X Paths
  <2>1. {<<path[s], p>>} \in SUBSET (Paths \X Paths) BY <1>1
  <2>2. QED BY <2>1, OpenedType
<1>8. named' \in [Sinks -> Paths \cup {None}] BY DEF TypeOK
<1>9. Idle' BY DEF TypeOK, Idle
<1>10. /\ clock' \in 0..MaxTime
       /\ proc' \in {"running", "aborted", "undefined"}
       /\ stage' \in [Sinks -> {"none", "live", "gone"}]
       /\ header' \in [Sinks -> Nat]
       /\ first' \in [Sinks -> BOOLEAN]
       /\ least' \in [Sinks -> Int]
       /\ links' \in [Links -> Paths \cup {None}]
       /\ {sent', events'} \subseteq Nat
  BY DEF TypeOK, counts
<1>11. QED BY <1>4, <1>6, <1>7, <1>8, <1>9, <1>10 DEF TypeOK

LEMMA ChangeFailedType ==
  ASSUME TypeOK, Idle, NEW s \in Sinks, stage[s] = "live", out[s] # NoStream,
         NEW p \in Paths, ChangeFailed(s, p), UNCHANGED counts,
         named' = [named EXCEPT ![s] = None]
  PROVE  TypeOK' /\ Idle'
<1> USE DEF ChangeFailed
<1>1. out[s] \in Streams BY OutType
<1>2. <<Failed(p)>> \in Seq(Entries) BY EntryType
<1>3. /\ Put(out[s], <<Failed(p)>>) \in Streams
      /\ Put(out[s], <<Failed(p)>>).file = out[s].file
  BY <1>1, <1>2, PutType
<1>4. /\ path' \in [Sinks -> Paths \cup {None}]
      /\ out' \in [Sinks -> Streams \cup {NoStream}]
      /\ \A t \in Sinks : out'[t] # NoStream => out'[t].file = path'[t]
  BY <1>3, WrittenType
<1>5. Idle' BY DEF TypeOK, Idle
<1>6. QED BY <1>4, <1>5 DEF TypeOK, counts, aux

LEMMA ChangeType ==
  ASSUME TypeOK, Idle, NEW s \in Sinks, ChangeLogFile(s)
  PROVE  TypeOK' /\ Idle'
<1>1. stage[s] = "live" /\ UNCHANGED counts BY ChangeCases
<1>2. PICK p \in Paths : \/ ChangeUndefined(p, s)
                         \/ /\ out[s] # NoStream
                            /\ named' = [named EXCEPT ![s] = None]
                            /\ Changed(s, p) \/ ChangeFailed(s, p)
  BY ChangeCases
<1>3. CASE ChangeUndefined(p, s)
  <2>1. Undefined BY <1>3 DEF ChangeUndefined
  <2>2. /\ disk' \in [Paths -> Seq(Entries)]
        /\ opened' \subseteq Paths
        /\ shared' \subseteq Paths
        /\ told' \in [Paths -> Seq([message : Nat])]
        /\ moved' \subseteq Paths \X Paths
    <3>1. CASE NothingOpened /\ disk' = disk
      BY <3>1 DEF TypeOK, NothingOpened, aux
    <3>2. CASE Opened(p, s, {}) /\ disk' = [disk EXCEPT ![p] = <<>>]
      BY <3>2, OpenedType, TruncatedType
    <3>3. QED BY <1>3, <3>1, <3>2 DEF ChangeUndefined
  <2>3. QED BY <1>1, <2>1, <2>2 DEF TypeOK, Idle, Undefined, sinkVars, counts
<1>4. CASE /\ out[s] # NoStream
           /\ named' = [named EXCEPT ![s] = None]
           /\ Changed(s, p) \/ ChangeFailed(s, p)
  BY <1>1, <1>4, ChangedType, ChangeFailedType
<1>5. QED BY <1>2, <1>3, <1>4

LEMMA DestroyType ==
  ASSUME TypeOK, Idle, NEW s \in Sinks, Destroy(s)
  PROVE  TypeOK' /\ Idle'
<1>1. CASE Undefined /\ NothingOpened /\ disk' = disk /\ UNCHANGED counts
  BY <1>1 DEF TypeOK, Idle, Undefined, NothingOpened, sinkVars, counts, aux
<1>2. CASE /\ out[s] # NoStream
           /\ disk' = Flush(disk, Put(out[s], <<Shutdown>>))
           /\ out' = [out EXCEPT ![s] = NoStream]
           /\ stage' = [stage EXCEPT ![s] = "gone"]
           /\ path' = [path EXCEPT ![s] = None]
           /\ header' = [header EXCEPT ![s] = 0]
           /\ first' = [first EXCEPT ![s] = TRUE]
           /\ least' = [least EXCEPT ![s] = 0]
           /\ UNCHANGED <<clock, proc, named, links, counts, aux>>
  <2>1. disk' \in [Paths -> Seq(Entries)]
    <3>1. out[s] \in Streams BY <1>2, OutType
    <3>2. <<Shutdown>> \in Seq(Entries) BY EntryType
    <3>3. Put(out[s], <<Shutdown>>) \in Streams BY <3>1, <3>2, PutType
    <3>4. disk \in [Paths -> Seq(Entries)] BY DEF TypeOK
    <3>5. QED BY <1>2, <3>3, <3>4, FlushType
  <2>2. /\ path' \in [Sinks -> Paths \cup {None}]
        /\ out' \in [Sinks -> Streams \cup {NoStream}]
        /\ \A t \in Sinks : out'[t] # NoStream => out'[t].file = path'[t]
    BY <1>2 DEF TypeOK
  <2>3. Idle' BY <1>2 DEF TypeOK, Idle
  <2>4. /\ stage' \in [Sinks -> {"none", "live", "gone"}]
        /\ header' \in [Sinks -> Nat]
        /\ first' \in [Sinks -> BOOLEAN]
        /\ least' \in [Sinks -> Int]
    BY <1>2 DEF TypeOK
  <2>5. QED BY <1>2, <2>1, <2>2, <2>3, <2>4 DEF TypeOK, counts, aux
<1>3. QED BY <1>1, <1>2 DEF Destroy

\* A program that has lost its memory has no sinks.
LEMMA MemoryLostType ==
  ASSUME TypeOK, MemoryLost, UNCHANGED <<clock, disk, links, sent, aux>>,
         proc' \in {"running", "aborted"}, events' \in Nat
  PROVE  TypeOK' /\ Idle'
BY DEF TypeOK, Idle, MemoryLost, aux

LEMMA TypeStep ==
  ASSUME TypeOK, Idle, [Next]_vars
  PROVE  TypeOK' /\ Idle'
<1>1. CASE Tick
  BY <1>1, FilesAssumption, SMTT(30) DEF TypeOK, Idle, Tick, sinkVars, counts, aux
<1>2. CASE Restart
  <2>1. events' \in Nat BY <1>2 DEF TypeOK, Restart
  <2>2. QED BY <1>2, <2>1, MemoryLostType DEF Restart
<1>3. ASSUME NEW s \in Sinks, RefusePrefix(s) PROVE TypeOK' /\ Idle'
  BY <1>3, MemoryLostType DEF TypeOK, RefusePrefix, counts
<1>4. ASSUME NEW s \in Sinks, OverrideLogHeader(s) PROVE TypeOK' /\ Idle'
  <2>1. header' \in [Sinks -> Nat] BY <1>4 DEF TypeOK, OverrideLogHeader
  <2>2. {sent', events'} \subseteq Nat BY <1>4 DEF TypeOK, OverrideLogHeader
  <2>3. UNCHANGED <<clock, proc, stage, path, out, first, least, named, disk,
                    links, aux>>
    BY <1>4 DEF OverrideLogHeader
  <2>4. QED BY <2>1, <2>2, <2>3 DEF TypeOK, Idle, aux
<1>5. CASE UNCHANGED vars
  BY <1>5 DEF TypeOK, Idle, vars, sinkVars, counts, aux
<1>6. ASSUME NEW s \in Sinks, NameFile(s) \/ NameNewFile(s) PROVE TypeOK' /\ Idle'
  <2>1. /\ events' \in Nat
        /\ UNCHANGED <<clock, proc, stage, path, out, header, first, least,
                       disk, links, sent, aux>>
    BY <1>6, NameCases
  <2>2. named' \in [Sinks -> Paths \cup {None}]
    <3>1. PICK p \in Paths : named' = [named EXCEPT ![s] = p] BY <1>6, NameCases
    <3>2. QED BY <3>1 DEF TypeOK
  <2>3. QED BY <2>1, <2>2 DEF TypeOK, Idle, aux
<1>7. QED
  BY <1>1, <1>2, <1>3, <1>4, <1>5, <1>6, ConstructType, FileWriteType,
     ChangeType, DestroyType DEF Next

-----------------------------------------------------------------------------
(* Who has which file open *)

\* What the opening of a file leaves of the other ones, and of itself.
LEMMA OpenedFiles ==
  ASSUME TypeOK, NEW p \in Paths, NEW s \in Sinks, NEW change,
         Opened(p, s, change)
  PROVE  /\ \A q \in Paths \ {p} : q \in shared' <=> q \in shared
         /\ p \notin shared' => \A t \in Sinks \ {s} : ~OnFile(t, p)
         /\ moved' = {m \in moved \cup change : m[1] # p}
BY DEF Opened, OnFile

\* A file that is opened, by a sink that goes on with it or with none.
LEMMA OpensFile ==
  ASSUME TypeOK, OpenTwice, LeftFiles, NEW p \in Paths, NEW s \in Sinks,
         NEW change, Opened(p, s, change),
         NEW o \in Streams, o.file = p,
         \/ out' = [out EXCEPT ![s] = o]
         \/ out' = out /\ out[s] = NoStream,
         \/ change = {}
         \/ out[s] # NoStream /\ change = {<<path[s], p>>}
  PROVE  OpenTwice' /\ LeftFiles'
<1>1. /\ \A q \in Paths \ {p} : q \in shared' <=> q \in shared
      /\ p \notin shared' => \A t \in Sinks \ {s} : ~OnFile(t, p)
      /\ moved' = {m \in moved \cup change : m[1] # p}
  BY OpenedFiles
<1>2. \A t \in Sinks, q \in Paths : OnFile(t, q)' /\ t # s => OnFile(t, q)
  BY DEF TypeOK, OnFile
<1>3. \A q \in Paths : OnFile(s, q)' => q = p BY DEF TypeOK, OnFile
<1>4. OpenTwice'
  <2> SUFFICES ASSUME NEW t \in Sinks, NEW u \in Sinks, NEW q \in Paths,
                      t # u, OnFile(t, q)', OnFile(u, q)'
               PROVE  q \in shared'
    BY DEF OpenTwice
  <2>1. CASE q = p
    <3>1. (t # s /\ OnFile(t, p)) \/ (u # s /\ OnFile(u, p)) BY <1>2, <2>1
    <3>2. QED BY <1>1, <2>1, <3>1
  <2>2. CASE q # p
    <3>1. t # s /\ u # s BY <1>3, <2>2
    <3>2. q \in shared BY <1>2, <3>1 DEF OpenTwice
    <3>3. QED BY <1>1, <2>2, <3>2
  <2>3. QED BY <2>1, <2>2
<1>5. LeftFiles'
  <2> SUFFICES ASSUME NEW m \in moved', m[1] \notin shared',
                      NEW t \in Sinks, OnFile(t, m[1])'
               PROVE  FALSE
    BY DEF LeftFiles
  <2>1. m[1] # p /\ m \in moved \cup change BY <1>1
  <2>2. CASE m \in moved
    <3>1. m[1] \in Paths BY <2>2 DEF TypeOK
    <3>2. m[1] \notin shared /\ t # s BY <1>1, <1>3, <2>1, <3>1
    <3>3. OnFile(t, m[1]) BY <1>2, <3>1, <3>2
    <3>4. QED BY <2>2, <3>2, <3>3 DEF LeftFiles
  <2>3. CASE out[s] # NoStream /\ m = <<path[s], p>>
    <3>1. m[1] = path[s] /\ path[s] \in Paths /\ OnFile(s, path[s])
      BY <2>3, OutType DEF OnFile
    <3>2. m[1] \notin shared /\ t # s BY <1>1, <1>3, <2>1, <3>1
    <3>3. OnFile(t, path[s]) BY <1>2, <3>1, <3>2
    <3>4. QED BY <3>1, <3>2, <3>3 DEF OpenTwice
  <2>4. QED BY <2>1, <2>2, <2>3
<1>6. QED BY <1>4, <1>5

\* A step that opens no file and moves no log.
LEMMA QuietStep ==
  ASSUME IInv, shared' = shared, moved' = moved,
         \A s \in Sinks : out'[s] # NoStream =>
           out[s] # NoStream /\ out'[s].file = out[s].file,
         \A q \in Paths : disk'[q] # disk[q] =>
           \E s \in Sinks : out[s] # NoStream /\ out[s].file = q
  PROVE  OpenTwice' /\ LeftFiles' /\ OldFileNamesNew'
<1> USE DEF IInv
<1>1. \A s \in Sinks : \A q : OnFile(s, q)' => OnFile(s, q) BY DEF OnFile
<1>2. OpenTwice' BY <1>1, Zenon DEF OpenTwice
<1>3. LeftFiles' BY <1>1, Zenon DEF LeftFiles
<1>4. ASSUME NEW m \in moved', m[1] \notin shared'
      PROVE  \E i \in DOMAIN disk'[m[1]] : disk'[m[1]][i] = To(m[2])
  <2>1. m \in moved /\ m[1] \notin shared /\ m[1] \in Paths
    BY <1>4 DEF TypeOK
  <2>2. disk'[m[1]] = disk[m[1]] BY <2>1 DEF LeftFiles, OnFile
  <2>3. QED BY <2>1, <2>2 DEF OldFileNamesNew
<1>5. OldFileNamesNew' BY <1>4 DEF OldFileNamesNew
<1>6. QED BY <1>2, <1>3, <1>5

\* A step that opens a file and moves no log.
LEMMA OpeningStep ==
  ASSUME IInv, NEW s \in Sinks, NEW p \in Paths, Opened(p, s, {}),
         disk' = [disk EXCEPT ![p] = <<>>],
         \/ out' = [out EXCEPT ![s] = Stream(p)]
         \/ out' = out /\ out[s] = NoStream
  PROVE  OpenTwice' /\ LeftFiles' /\ OldFileNamesNew'
<1> USE DEF IInv
<1>1. Stream(p) \in Streams /\ Stream(p).file = p BY StreamType
<1>2. OpenTwice' /\ LeftFiles' BY <1>1, OpensFile, Zenon
<1>3. /\ \A q \in Paths \ {p} : q \in shared' <=> q \in shared
      /\ moved' = {m \in moved : m[1] # p}
  <2>1. moved \cup {} = moved OBVIOUS
  <2>2. QED BY <2>1, OpenedFiles
<1>4. ASSUME NEW m \in moved', m[1] \notin shared'
      PROVE  \E i \in DOMAIN disk'[m[1]] : disk'[m[1]][i] = To(m[2])
  <2>1. m \in moved /\ m[1] # p BY <1>3
  <2>2. m[1] \in Paths BY <2>1 DEF TypeOK
  <2>3. m[1] \notin shared BY <1>3, <1>4, <2>1, <2>2
  <2>4. disk'[m[1]] = disk[m[1]] BY <2>1, <2>2 DEF TypeOK
  <2>5. QED BY <2>1, <2>3, <2>4 DEF OldFileNamesNew
<1>5. OldFileNamesNew' BY <1>4 DEF OldFileNamesNew
<1>6. QED BY <1>2, <1>5

LEMMA ConstructStep ==
  ASSUME IInv, NEW s \in Sinks, Construct(s)
  PROVE  OpenTwice' /\ LeftFiles' /\ OldFileNamesNew'
<1>1. PICK p \in Paths : Use(s, p) \/ Without(s, p)
  BY ConstructCases DEF IInv
<1>2. CASE Use(s, p) BY <1>2, OpeningStep, Zenon DEF Use
<1>3. CASE Without(s, p)
  BY <1>3, QuietStep DEF Without, NothingOpened, aux
<1>4. QED BY <1>1, <1>2, <1>3

LEMMA FileWriteStep ==
  ASSUME IInv, NEW s \in Sinks, FileWrite(s)
  PROVE  OpenTwice' /\ LeftFiles' /\ OldFileNamesNew'
<1>1. \/ Undefined /\ NothingOpened /\ disk' = disk
      \/ out[s] # NoStream /\ (Refuse(s) \/ Accept(s))
  BY FileWriteCases DEF IInv
<1>2. CASE Undefined /\ NothingOpened /\ disk' = disk
  BY <1>2, QuietStep DEF Undefined, NothingOpened, sinkVars, aux
<1>3. ASSUME out[s] # NoStream, NEW o \in Streams, o.file = out[s].file,
             out' = [out EXCEPT ![s] = o]
      PROVE  \A t \in Sinks : out'[t] # NoStream =>
               out[t] # NoStream /\ out'[t].file = out[t].file
  BY <1>3 DEF IInv, TypeOK
<1>4. CASE out[s] # NoStream /\ Refuse(s)
  <2>1. PICK top \in Seq(Entries) :
          out' = [out EXCEPT ![s] = Put(out[s], top)] /\ UNCHANGED <<disk, aux>>
    BY <1>4 DEF Refuse
  <2>2. out[s] \in Streams BY <1>4, OutType DEF IInv
  <2>3. Put(out[s], top) \in Streams /\ Put(out[s], top).file = out[s].file
    BY <2>2, PutType
  <2>4. \A t \in Sinks : out'[t] # NoStream =>
          out[t] # NoStream /\ out'[t].file = out[t].file
    BY <1>3, <1>4, <2>1, <2>3
  <2>5. QED BY <2>1, <2>4, QuietStep DEF aux
<1>5. CASE out[s] # NoStream /\ Accept(s)
  <2>1. PICK text \in Seq(Entries) :
          /\ disk' = Flush(disk, Put(out[s], text))
          /\ out' = [out EXCEPT ![s] = Flushed(Put(out[s], text))]
          /\ UNCHANGED <<shared, moved>>
    BY <1>5 DEF Accept, WriteOut
  <2>2. out[s] \in Streams BY <1>5, OutType DEF IInv
  <2>3. Put(out[s], text) \in Streams /\ Put(out[s], text).file = out[s].file
    BY <2>2, PutType
  <2>4. /\ Flushed(Put(out[s], text)) \in Streams
        /\ Flushed(Put(out[s], text)).file = out[s].file
    BY <2>3, FlushedType
  <2>5. \A t \in Sinks : out'[t] # NoStream =>
          out[t] # NoStream /\ out'[t].file = out[t].file
    BY <1>3, <1>5, <2>1, <2>4
  <2>6. \A q \in Paths : disk'[q] # disk[q] => out[s].file = q
    <3>1. disk \in [Paths -> Seq(Entries)] BY DEF IInv, TypeOK
    <3>2. QED BY <2>1, <2>3, <3>1, FlushType
  <2>7. QED BY <1>5, <2>1, <2>5, <2>6, QuietStep
<1>6. QED BY <1>1, <1>2, <1>4, <1>5

LEMMA ChangedStep ==
  ASSUME IInv, NEW s \in Sinks, out[s] # NoStream, NEW p \in Paths, Changed(s, p)
  PROVE  OpenTwice' /\ LeftFiles' /\ OldFileNamesNew'
<1> DEFINE farewell == <<Header(header[s]), To(p)>>
           o   == Put(out[s], farewell)
           new == Put(Stream(p), <<From(path[s])>>)
           old == path[s]
           emptied == [disk EXCEPT ![p] = <<>>]
<1>1. /\ Opened(p, s, {<<old, p>>})
      /\ out' = [out EXCEPT ![s] = new]
      /\ disk' = Flush(emptied, o)
  BY DEF Changed
<1>2. TypeOK /\ OpenTwice /\ LeftFiles /\ OldFileNamesNew BY DEF IInv
<1>3. out[s] \in Streams /\ old \in Paths /\ out[s].file = old BY <1>2, OutType
<1>4. farewell \in Seq(Entries)
  <2>1. header[s] \in Nat BY <1>2 DEF TypeOK
  <2>2. QED BY <2>1, EntryType
<1>5. /\ o \in Streams /\ o.file = old
      /\ o.at = out[s].at /\ o.buffer = out[s].buffer \o farewell
  <2> HIDE DEF farewell
  <2>1. QED BY <1>3, <1>4, PutType
<1>6. new \in Streams /\ new.file = p
  <2>1. <<From(path[s])>> \in Seq(Entries) BY <1>3, EntryType
  <2>2. Stream(p) \in Streams /\ Stream(p).file = p BY StreamType
  <2>3. QED BY <2>1, <2>2, PutType
<1>7. emptied \in [Paths -> Seq(Entries)] BY <1>2, TruncatedType
<1>8. Len(o.buffer) \in 1..Len(o.buffer) /\ o.buffer[Len(o.buffer)] = To(p)
  <2>1. out[s].buffer \in Seq(Entries) BY <1>3 DEF Streams
  <2>2. Header(header[s]) \in Entries /\ To(p) \in Entries
    BY <1>2, EntryType DEF TypeOK
  <2> HIDE DEF o
  <2>3. o.buffer = out[s].buffer \o <<Header(header[s]), To(p)>> BY <1>5
  <2>4. QED BY <2>1, <2>2, <2>3, LastOfConcat
<1> HIDE DEF o, new, old, emptied
<1>9. OpenTwice' /\ LeftFiles'
  BY <1>1, <1>2, <1>6, OpensFile, Zenon DEF old
<1>10. /\ \A q \in Paths \ {p} : q \in shared' <=> q \in shared
       /\ moved' = {m \in moved \cup {<<old, p>>} : m[1] # p}
  BY <1>1, <1>2, OpenedFiles
<1>11. ASSUME NEW m \in moved', m[1] \notin shared'
       PROVE  \E i \in DOMAIN disk'[m[1]] : disk'[m[1]][i] = To(m[2])
  <2>1. m[1] # p /\ (m \in moved \/ m = <<old, p>>) BY <1>10
  <2>2. CASE m \in moved
    <3>1. m[1] \in Paths BY <1>2, <2>2 DEF TypeOK
    <3>2. m[1] \notin shared BY <1>10, <1>11, <2>1, <3>1
    <3>3. m[1] # old BY <1>2, <1>3, <2>2, <3>2 DEF LeftFiles, OnFile
    <3>4. disk'[m[1]] = emptied[m[1]] BY <1>1, <1>5, <1>7, <3>1, <3>3, FlushType
    <3>5. emptied[m[1]] = disk[m[1]]
      BY <1>2, <2>1, <3>1 DEF TypeOK, emptied
    <3>6. QED BY <1>2, <2>2, <3>2, <3>4, <3>5 DEF OldFileNamesNew
  <2>3. CASE m = <<old, p>>
    <3>1. disk'[old] = Overlay(emptied[old], o) BY <1>1, <1>5, <1>7, FlushType
    <3>2. emptied[old] \in Seq(Entries) BY <1>3, <1>7
    <3>3. /\ o.at + Len(o.buffer) \in DOMAIN disk'[old]
          /\ disk'[old][o.at + Len(o.buffer)] = To(p)
      BY <1>5, <1>8, <3>1, <3>2, OverlayType
    <3>4. QED BY <2>3, <3>3
  <2>4. QED BY <2>1, <2>2, <2>3
<1>12. OldFileNamesNew' BY <1>11 DEF OldFileNamesNew
<1>13. QED BY <1>9, <1>12

LEMMA ChangeStep ==
  ASSUME IInv, NEW s \in Sinks, ChangeLogFile(s)
  PROVE  OpenTwice' /\ LeftFiles' /\ OldFileNamesNew'
<1>1. PICK p \in Paths : \/ out[s] = NoStream /\ ChangeUndefined(p, s)
                         \/ out[s] # NoStream /\ Changed(s, p)
                         \/ out[s] # NoStream /\ ChangeFailed(s, p)
  BY ChangeCases DEF IInv
<1>2. CASE out[s] = NoStream /\ ChangeUndefined(p, s)
  <2>1. out' = out /\ out[s] = NoStream
    BY <1>2 DEF ChangeUndefined, Undefined, sinkVars
  <2>2. CASE NothingOpened /\ disk' = disk
    BY <2>1, <2>2, QuietStep DEF NothingOpened, aux
  <2>3. CASE Opened(p, s, {}) /\ disk' = [disk EXCEPT ![p] = <<>>]
    BY <2>1, <2>3, OpeningStep
  <2>4. QED BY <1>2, <2>2, <2>3 DEF ChangeUndefined
<1>3. CASE out[s] # NoStream /\ Changed(s, p) BY <1>3, ChangedStep
<1>4. CASE out[s] # NoStream /\ ChangeFailed(s, p)
  <2>1. out[s] \in Streams BY <1>4, OutType DEF IInv
  <2>2. <<Failed(p)>> \in Seq(Entries) BY EntryType
  <2>3. Put(out[s], <<Failed(p)>>).file = out[s].file BY <2>1, <2>2, PutType
  <2>4. /\ out' = [out EXCEPT ![s] = Put(out[s], <<Failed(p)>>)]
        /\ UNCHANGED <<disk, shared, moved>>
    BY <1>4 DEF ChangeFailed, aux
  <2>5. \A t \in Sinks : out'[t] # NoStream =>
          out[t] # NoStream /\ out'[t].file = out[t].file
    BY <1>4, <2>3, <2>4 DEF IInv, TypeOK
  <2>6. QED BY <2>4, <2>5, QuietStep
<1>5. QED BY <1>1, <1>2, <1>3, <1>4

LEMMA DestroyStep ==
  ASSUME IInv, NEW s \in Sinks, Destroy(s)
  PROVE  OpenTwice' /\ LeftFiles' /\ OldFileNamesNew'
<1>1. CASE Undefined /\ NothingOpened /\ disk' = disk
  BY <1>1, QuietStep DEF Undefined, NothingOpened, sinkVars, aux
<1>2. CASE /\ out[s] # NoStream
           /\ disk' = Flush(disk, Put(out[s], <<Shutdown>>))
           /\ out' = [out EXCEPT ![s] = NoStream]
           /\ UNCHANGED aux
  <2>1. out[s] \in Streams BY <1>2, OutType DEF IInv
  <2>2. <<Shutdown>> \in Seq(Entries) BY EntryType
  <2>3. /\ Put(out[s], <<Shutdown>>) \in Streams
        /\ Put(out[s], <<Shutdown>>).file = out[s].file
    BY <2>1, <2>2, PutType
  <2>4. disk \in [Paths -> Seq(Entries)] BY DEF IInv, TypeOK
  <2>5. \A q \in Paths : disk'[q] # disk[q] => out[s].file = q
    BY <1>2, <2>3, <2>4, FlushType
  <2>6. \A t \in Sinks : out'[t] # NoStream =>
          out[t] # NoStream /\ out'[t].file = out[t].file
    BY <1>2 DEF IInv, TypeOK
  <2>7. QED BY <1>2, <2>5, <2>6, QuietStep DEF aux
<1>3. QED BY <1>1, <1>2 DEF Destroy

LEMMA InvariantStep ==
  ASSUME IInv, [Next]_vars
  PROVE  IInv'
<1>1. TypeOK' /\ Idle' BY TypeStep DEF IInv
<1>2. OpenTwice' /\ LeftFiles' /\ OldFileNamesNew'
  <2>1. ASSUME UNCHANGED <<out, shared, moved, disk>>
        PROVE  OpenTwice' /\ LeftFiles' /\ OldFileNamesNew'
    BY <2>1, QuietStep
  <2>2. CASE Tick BY <2>1, <2>2 DEF Tick, sinkVars, aux
  <2>3. ASSUME MemoryLost, UNCHANGED <<disk, aux>>
        PROVE  OpenTwice' /\ LeftFiles' /\ OldFileNamesNew'
    <3>1. \A s \in Sinks : out'[s] = NoStream BY <2>3 DEF MemoryLost
    <3>2. QED BY <2>3, <3>1, QuietStep DEF aux
  <2>4. ASSUME NEW s \in Sinks, \/ NameFile(s) \/ NameNewFile(s)
                               \/ OverrideLogHeader(s)
        PROVE  OpenTwice' /\ LeftFiles' /\ OldFileNamesNew'
    BY <2>1, <2>4 DEF NameFile, NameNewFile, OverrideLogHeader, aux
  <2>5. CASE UNCHANGED vars BY <2>1, <2>5 DEF vars, sinkVars, aux
  <2>6. QED
    BY <2>2, <2>3, <2>4, <2>5, ConstructStep, FileWriteStep, ChangeStep,
       DestroyStep DEF Next, Restart, RefusePrefix
<1>3. QED BY <1>1, <1>2 DEF IInv

-----------------------------------------------------------------------------
(* The messages on the disk *)

\* A file that is not shared has the messages that were accepted for it; at
\* most one sink has it open, and all its messages are in front of that sink's
\* position (behind it is what the sink itself wrote before it changed to the
\* file it already had).
Held(p) ==
  /\ MessagesIn(disk[p]) = told[p]
  /\ \A s, t \in Sinks : OnFile(s, p) /\ OnFile(t, p) => s = t
  /\ \A s \in Sinks : OnFile(s, p) =>
       out[s].at <= Len(disk[p]) /\ Silent(disk[p], out[s].at)

\* What a stream has not flushed is no message.
Flushing == \A s \in Sinks : out[s] # NoStream => Silent(out[s].buffer, 0)

DiskInv == TypeOK /\ Idle /\ Flushing /\ \A p \in Paths \ shared : Held(p)

\* A file that no step touches.
LEMMA HeldKept ==
  ASSUME DiskInv, NEW p \in Paths, p \notin shared,
         disk'[p] = disk[p], told'[p] = told[p],
         \A t \in Sinks : OnFile(t, p)' => OnFile(t, p) /\ out'[t].at = out[t].at
  PROVE  Held(p)'
<1>1. Held(p) BY DEF DiskInv
<1>2. QED BY <1>1 DEF Held

\* A file that has been truncated, with what is written to it at once.
LEMMA HeldOpened ==
  ASSUME NEW p \in Paths, NEW s \in Sinks,
         disk'[p] \in Seq(Entries), Silent(disk'[p], 0), told'[p] = <<>>,
         \A t \in Sinks : OnFile(t, p)' => t = s /\ out'[t].at = 0
  PROVE  Held(p)'
<1>1. MessagesIn(disk'[p]) = <<>> BY SilentText
<1>2. Len(disk'[p]) \in Nat OBVIOUS
<1>3. QED BY <1>1, <1>2 DEF Held

\* A file to which the only stream on it is flushed.
LEMMA HeldWritten ==
  ASSUME DiskInv, NEW p \in Paths, p \notin shared,
         NEW s \in Sinks, OnFile(s, p),
         NEW text \in Seq(Entries),
         disk'[p] = Overlay(disk[p], Put(out[s], text)),
         \/ Silent(text, 0) /\ told'[p] = told[p]
         \/ OneMessage(text) /\ told'[p] = Append(told[p], text[Len(text)]),
         \A t \in Sinks : OnFile(t, p)' =>
           t = s /\ out'[t].at = out[s].at + Len(out[s].buffer \o text)
  PROVE  Held(p)'
<1> DEFINE o == Put(out[s], text)
           size == Len(o.buffer)
<1>1. out[s] \in Streams BY OutType DEF DiskInv, OnFile
<1>2. o \in Streams /\ o.at = out[s].at /\ o.buffer = out[s].buffer \o text
  BY <1>1, PutType
<1>3. /\ MessagesIn(disk[p]) = told[p]
      /\ o.at <= Len(disk[p]) /\ Silent(disk[p], o.at)
  BY <1>2 DEF DiskInv, Held
<1>4. disk[p] \in Seq(Entries) BY DEF DiskInv, TypeOK
<1>5. out[s].buffer \in Seq(Entries) /\ Silent(out[s].buffer, 0)
  BY <1>1 DEF Streams, DiskInv, Flushing, OnFile
<1> HIDE DEF o
<1>6. /\ o.at + size <= Len(disk'[p]) /\ Silent(disk'[p], o.at + size)
      /\ Silent(o.buffer, 0) => MessagesIn(disk'[p]) = MessagesIn(disk[p])
      /\ size > 0 /\ IsMessage(o.buffer[size])
           /\ (\A i \in 1..size - 1 : ~IsMessage(o.buffer[i]))
           => MessagesIn(disk'[p]) = Append(MessagesIn(disk[p]), o.buffer[size])
  BY <1>2, <1>3, <1>4, OverlayMessages DEF o
<1>7. MessagesIn(disk'[p]) = told'[p]
  <2>1. CASE Silent(text, 0) /\ told'[p] = told[p]
    <3>1. Silent(o.buffer, 0) BY <1>2, <1>5, <2>1, SilentConcat
    <3>2. QED BY <1>3, <1>6, <2>1, <3>1
  <2>2. CASE OneMessage(text) /\ told'[p] = Append(told[p], text[Len(text)])
    <3>1. OneMessage(o.buffer) /\ o.buffer[size] = text[Len(text)]
      BY <1>2, <1>5, <2>2, SilentThenOne
    <3>2. size > 0 BY <1>2, <1>5, <3>1 DEF OneMessage
    <3>3. QED BY <1>3, <1>6, <2>2, <3>1, <3>2 DEF OneMessage
  <2>3. QED BY <2>1, <2>2
<1>8. ASSUME NEW t \in Sinks, OnFile(t, p)'
      PROVE  out'[t].at <= Len(disk'[p]) /\ Silent(disk'[p], out'[t].at)
  BY <1>2, <1>6, <1>8
<1>9. QED BY <1>7, <1>8 DEF Held

\* A step that leaves files and positions alone.
LEMMA QuietDisk ==
  ASSUME DiskInv, UNCHANGED <<disk, told, shared>>,
         \A t \in Sinks : out'[t] # NoStream =>
           /\ out[t] # NoStream /\ out'[t].file = out[t].file
           /\ out'[t].at = out[t].at /\ Silent(out'[t].buffer, 0)
  PROVE  Flushing' /\ \A p \in Paths \ shared' : Held(p)'
<1>1. ASSUME NEW p \in Paths \ shared' PROVE Held(p)'
  BY HeldKept DEF OnFile
<1>2. QED BY <1>1 DEF Flushing

\* A step that opens a file and has no other one to write to.
LEMMA OpeningDisk ==
  ASSUME DiskInv, NEW s \in Sinks, NEW p \in Paths, Opened(p, s, {}),
         out[s] = NoStream,
         disk' = [disk EXCEPT ![p] = <<>>],
         out' = [out EXCEPT ![s] = Stream(p)] \/ out' = out
  PROVE  Flushing' /\ \A q \in Paths \ shared' : Held(q)'
<1>1. TypeOK BY DEF DiskInv
<1>2. Stream(p).file = p /\ Stream(p).at = 0 /\ Stream(p).buffer = <<>>
  BY StreamType
<1>3. \A t \in Sinks : out'[t] # NoStream =>
        \/ t = s /\ out'[t] = Stream(p)
        \/ t # s /\ out'[t] = out[t]
  BY <1>1 DEF TypeOK
<1>4. Flushing'
  <2>1. ASSUME NEW t \in Sinks, out'[t] # NoStream
        PROVE  Silent(out'[t].buffer, 0)
    BY <1>2, <1>3, <2>1, EmptySilent DEF DiskInv, Flushing
  <2>2. QED BY <2>1 DEF Flushing
<1>5. ASSUME NEW q \in Paths \ shared', q # p PROVE Held(q)'
  <2>1. q \notin shared BY <1>1, <1>5, OpenedFiles
  <2>2. told'[q] = told[q] /\ disk'[q] = disk[q]
    <3>1. told' = [told EXCEPT ![p] = <<>>] BY DEF Opened
    <3>2. QED BY <1>1, <1>5, <3>1 DEF TypeOK
  <2>3. ASSUME NEW t \in Sinks, OnFile(t, q)'
        PROVE  OnFile(t, q) /\ out'[t].at = out[t].at
    BY <1>2, <1>3, <1>5, <2>3 DEF OnFile
  <2>4. QED BY <2>1, <2>2, <2>3, HeldKept
<1>6. ASSUME p \notin shared' PROVE Held(p)'
  <2>1. disk'[p] = <<>> /\ told'[p] = <<>>
    BY <1>1 DEF TypeOK, Opened
  <2>2. ASSUME NEW t \in Sinks, OnFile(t, p)' PROVE t = s /\ out'[t].at = 0
    <3>1. t # s => ~OnFile(t, p) BY <1>1, <1>6, OpenedFiles
    <3>2. QED BY <1>2, <1>3, <2>2, <3>1 DEF OnFile
  <2>3. <<>> \in Seq(Entries) OBVIOUS
  <2>4. QED BY <2>1, <2>2, <2>3, EmptySilent, HeldOpened
<1>7. QED BY <1>4, <1>5, <1>6

LEMMA ConstructDisk ==
  ASSUME DiskInv, NEW s \in Sinks, Construct(s)
  PROVE  Flushing' /\ \A q \in Paths \ shared' : Held(q)'
<1>1. PICK p \in Paths : Use(s, p) \/ Without(s, p)
  BY ConstructCases DEF DiskInv
<1>2. out[s] = NoStream BY ConstructCases DEF DiskInv, Idle
<1>3. CASE Use(s, p) BY <1>2, <1>3, OpeningDisk DEF Use
<1>4. CASE Without(s, p)
  BY <1>4, QuietDisk DEF Without, NothingOpened, DiskInv, Flushing, aux
<1>5. QED BY <1>1, <1>3, <1>4

LEMMA FileWriteDisk ==
  ASSUME DiskInv, NEW s \in Sinks, FileWrite(s)
  PROVE  Flushing' /\ \A q \in Paths \ shared' : Held(q)'
<1>1. \/ Undefined /\ NothingOpened /\ disk' = disk
      \/ out[s] # NoStream /\ UNCHANGED path /\ (Refuse(s) \/ Accept(s))
  BY FileWriteCases DEF DiskInv
<1>2. CASE Undefined /\ NothingOpened /\ disk' = disk
  BY <1>2, QuietDisk
  DEF Undefined, NothingOpened, sinkVars, DiskInv, Flushing, aux
<1>3. CASE out[s] # NoStream /\ Refuse(s)
  <2>1. PICK top \in Seq(Entries) :
          /\ Silent(top, 0)
          /\ out' = [out EXCEPT ![s] = Put(out[s], top)]
          /\ UNCHANGED <<disk, aux>>
    BY <1>3 DEF Refuse
  <2>2. out[s] \in Streams BY <1>3, OutType DEF DiskInv
  <2>3. /\ Put(out[s], top).file = out[s].file
        /\ Put(out[s], top).at = out[s].at
        /\ Silent(Put(out[s], top).buffer, 0)
    BY <1>3, <2>1, <2>2, PutType, SilentConcat DEF Streams, DiskInv, Flushing
  <2>4. \A t \in Sinks : out'[t] # NoStream =>
          /\ out[t] # NoStream /\ out'[t].file = out[t].file
          /\ out'[t].at = out[t].at /\ Silent(out'[t].buffer, 0)
    BY <1>3, <2>1, <2>3 DEF DiskInv, TypeOK, Flushing
  <2>5. QED BY <2>1, <2>4, QuietDisk DEF aux
<1>4. CASE out[s] # NoStream /\ UNCHANGED path /\ Accept(s)
  <2>1. PICK text \in Seq(Entries) :
          /\ OneMessage(text) /\ text[Len(text)] = Message(sent')
          /\ disk' = Flush(disk, Put(out[s], text))
          /\ out' = [out EXCEPT ![s] = Flushed(Put(out[s], text))]
          /\ told' = [told EXCEPT ![path[s]] = Append(@, Message(sent'))]
          /\ UNCHANGED <<opened, shared, moved>>
    BY <1>4 DEF Accept, WriteOut
  <2> DEFINE o == Put(out[s], text)
  <2>2. PICK old \in Paths :
          out[s] \in Streams /\ out[s].file = old /\ path[s] = old
    BY <1>4, OutType DEF DiskInv
  <2>3. /\ o \in Streams /\ o.file = old /\ o.at = out[s].at
        /\ o.buffer = out[s].buffer \o text
    BY <2>2, PutType
  <2> HIDE DEF o
  <2>4. /\ Flushed(o).file = old
        /\ Flushed(o).at = out[s].at + Len(out[s].buffer \o text)
        /\ Flushed(o).buffer = <<>>
    BY <2>3, FlushedType
  <2>5. TypeOK BY DEF DiskInv
  <2>6. \A t \in Sinks : out'[t] # NoStream =>
          \/ t = s /\ out'[t] = Flushed(o)
          \/ t # s /\ out'[t] = out[t]
    BY <2>1, <2>5 DEF TypeOK, o
  <2>7. Flushing'
    <3>1. ASSUME NEW t \in Sinks, out'[t] # NoStream
          PROVE  Silent(out'[t].buffer, 0)
      BY <2>4, <2>6, <3>1, EmptySilent DEF DiskInv, Flushing
    <3>2. QED BY <3>1 DEF Flushing
  <2>8. disk \in [Paths -> Seq(Entries)] BY <2>5 DEF TypeOK
  <2>9. /\ disk'[old] = Overlay(disk[old], o)
        /\ \A q \in Paths \ {old} : disk'[q] = disk[q]
    BY <2>1, <2>3, <2>8, FlushType DEF o
  <2>10. /\ told'[old] = Append(told[old], text[Len(text)])
         /\ \A q \in Paths \ {old} : told'[q] = told[q]
    BY <2>1, <2>2, <2>5 DEF TypeOK
  <2>11. ASSUME NEW q \in Paths \ shared', q # old PROVE Held(q)'
    <3>1. \A t \in Sinks : OnFile(t, q)' => OnFile(t, q) /\ out'[t].at = out[t].at
      BY <2>4, <2>6, <2>11 DEF OnFile
    <3>2. QED BY <2>1, <2>9, <2>10, <2>11, <3>1, HeldKept
  <2>12. ASSUME old \notin shared' PROVE Held(old)'
    <3>1. OnFile(s, old) /\ old \notin shared /\ old \in Paths
      BY <1>4, <2>1, <2>2, <2>12 DEF OnFile
    <3>2. ASSUME NEW t \in Sinks, OnFile(t, old)'
          PROVE  /\ t = s
                 /\ out'[t].at = out[s].at + Len(out[s].buffer \o text)
      <4>1. t # s => OnFile(t, old) BY <2>6, <3>2 DEF OnFile
      <4>2. t = s BY <3>1, <4>1 DEF DiskInv, Held
      <4>3. QED BY <2>4, <2>6, <3>2, <4>2 DEF OnFile
    <3>3. QED BY <2>1, <2>9, <2>10, <3>1, <3>2, HeldWritten DEF o
  <2>13. QED BY <2>7, <2>11, <2>12
<1>5. QED BY <1>1, <1>3, <1>2, <1>4

\* A buffer without messages, written at its place into an empty file.
LEMMA OverlayNothing ==
  ASSUME NEW o \in Streams, Silent(o.buffer, 0)
  PROVE  Silent(Overlay(<<>>, o), 0)
<1>1. o.at \in Nat /\ o.buffer \in Seq(Entries) BY DEF Streams
<1>2. ASSUME NEW i \in DOMAIN Overlay(<<>>, o)
      PROVE  ~IsMessage(Overlay(<<>>, o)[i])
  <2>1. i \in Nat \ {0} BY <1>1 DEF Overlay
  <2>2. CASE i > o.at /\ i <= o.at + Len(o.buffer)
    <3>1. Overlay(<<>>, o)[i] = o.buffer[i - o.at] BY <2>2 DEF Overlay
    <3>2. i - o.at \in DOMAIN o.buffer /\ i - o.at > 0 BY <1>1, <2>1, <2>2
    <3>3. QED BY <3>1, <3>2 DEF Silent
  <2>3. CASE ~(i > o.at /\ i <= o.at + Len(o.buffer))
    <3>1. Overlay(<<>>, o)[i] = Hole BY <2>1, <2>3 DEF Overlay
    <3>2. QED BY <3>1, EntryKinds
  <2>4. QED BY <2>2, <2>3
<1>3. QED BY <1>2 DEF Silent

LEMMA ChangedDisk ==
  ASSUME DiskInv, NEW s \in Sinks, out[s] # NoStream, NEW p \in Paths,
         Changed(s, p)
  PROVE  Flushing' /\ \A q \in Paths \ shared' : Held(q)'
<1> DEFINE farewell == <<Header(header[s]), To(p)>>
           o   == Put(out[s], farewell)
           new == Put(Stream(p), <<From(path[s])>>)
           emptied == [disk EXCEPT ![p] = <<>>]
<1>1. TypeOK BY DEF DiskInv
<1>2. /\ Opened(p, s, {<<path[s], p>>})
      /\ out' = [out EXCEPT ![s] = new]
      /\ disk' = Flush(emptied, o)
  BY DEF Changed
<1>3. PICK old \in Paths :
        out[s] \in Streams /\ out[s].file = old /\ path[s] = old
  BY <1>1, OutType
<1>4. farewell \in Seq(Entries) /\ Silent(farewell, 0)
  <2>1. header[s] \in Nat BY <1>1 DEF TypeOK
  <2>2. farewell \in Seq(Entries) BY <2>1, EntryType
  <2>3. Silent(farewell, 0) BY EntryKinds DEF Silent
  <2>4. QED BY <2>2, <2>3
<1>5. new.file = p /\ new.at = 0 /\ Silent(new.buffer, 0)
  <2>1. <<From(path[s])>> \in Seq(Entries) BY <1>3, EntryType
  <2>2. Stream(p) \in Streams /\ Stream(p).file = p /\ Stream(p).at = 0
        /\ Stream(p).buffer = <<>>
    BY StreamType
  <2>3. new.file = p /\ new.at = 0 /\ new.buffer = <<>> \o <<From(path[s])>>
    BY <2>1, <2>2, PutType
  <2>4. Silent(<<From(path[s])>>, 0) BY EntryKinds DEF Silent
  <2>5. <<>> \o <<From(path[s])>> = <<From(path[s])>> BY <2>1
  <2>6. QED BY <2>3, <2>4, <2>5
<1> HIDE DEF farewell
<1>6. /\ o \in Streams /\ o.file = old
      /\ o.buffer = out[s].buffer \o farewell /\ Silent(o.buffer, 0)
  <2>1. out[s].buffer \in Seq(Entries) /\ Silent(out[s].buffer, 0)
    BY <1>3 DEF Streams, DiskInv, Flushing
  <2>2. QED BY <1>3, <1>4, <2>1, PutType, SilentConcat
<1>7. emptied \in [Paths -> Seq(Entries)] BY <1>1, TruncatedType
<1>8. emptied[p] = <<>> /\ \A q \in Paths \ {p} : emptied[q] = disk[q]
  BY <1>1 DEF TypeOK
<1> HIDE DEF o, new, emptied
<1>9. /\ disk'[old] = Overlay(emptied[old], o)
      /\ \A q \in Paths \ {old} : disk'[q] = emptied[q]
  BY <1>2, <1>6, <1>7, FlushType
<1>10. \A t \in Sinks : out'[t] # NoStream =>
         \/ t = s /\ out'[t] = new
         \/ t # s /\ out'[t] = out[t]
  BY <1>1, <1>2 DEF TypeOK
<1>11. Flushing'
  <2>1. ASSUME NEW t \in Sinks, out'[t] # NoStream
        PROVE  Silent(out'[t].buffer, 0)
    BY <1>5, <1>10, <2>1 DEF DiskInv, Flushing
  <2>2. QED BY <2>1 DEF Flushing
<1>12. ASSUME NEW q \in Paths \ shared', q # p PROVE Held(q)'
  <2>1. q \notin shared BY <1>1, <1>2, <1>12, OpenedFiles
  <2>2. told'[q] = told[q]
    <3>1. told' = [told EXCEPT ![p] = <<>>] BY <1>2 DEF Opened
    <3>2. QED BY <1>1, <1>12, <3>1 DEF TypeOK
  <2>3. ASSUME NEW t \in Sinks, OnFile(t, q)'
        PROVE  t # s /\ OnFile(t, q) /\ out'[t] = out[t]
    BY <1>5, <1>10, <1>12, <2>3 DEF OnFile
  <2>4. CASE q # old
    <3>1. disk'[q] = disk[q] BY <1>8, <1>9, <1>12, <2>4
    <3>2. QED BY <2>1, <2>2, <2>3, <3>1, HeldKept
  <2>5. CASE q = old
    <3>1. OnFile(s, q) BY <1>3, <2>5 DEF OnFile
    <3>2. \A t \in Sinks : ~OnFile(t, q)'
      BY <2>1, <2>3, <3>1 DEF DiskInv, Held
    <3>3. disk'[q] = Overlay(disk[q], Put(out[s], farewell))
      BY <1>8, <1>9, <1>12, <2>5 DEF o
    <3>4. QED BY <1>4, <2>1, <2>2, <3>1, <3>2, <3>3, HeldWritten
  <2>6. QED BY <2>4, <2>5
<1>13. ASSUME p \notin shared' PROVE Held(p)'
  <2>1. told'[p] = <<>>
    <3>1. told' = [told EXCEPT ![p] = <<>>] BY <1>2 DEF Opened
    <3>2. QED BY <1>1, <3>1 DEF TypeOK
  <2>2. disk'[p] \in Seq(Entries) /\ Silent(disk'[p], 0)
    <3>1. <<>> \in Seq(Entries) OBVIOUS
    <3>2. CASE p = old
      <4>1. disk'[p] = Overlay(<<>>, o) BY <1>8, <1>9, <3>2
      <4>2. QED BY <1>6, <3>1, <4>1, OverlayType, OverlayNothing
    <3>3. CASE p # old
      <4>1. disk'[p] = <<>> BY <1>8, <1>9, <3>3
      <4>2. QED BY <3>1, <4>1, EmptySilent
    <3>4. QED BY <3>2, <3>3
  <2>3. ASSUME NEW t \in Sinks, OnFile(t, p)' PROVE t = s /\ out'[t].at = 0
    <3>1. t # s => ~OnFile(t, p) BY <1>1, <1>2, <1>13, OpenedFiles
    <3>2. QED BY <1>5, <1>10, <2>3, <3>1 DEF OnFile
  <2>4. QED BY <2>1, <2>2, <2>3, HeldOpened
<1>14. QED BY <1>11, <1>12, <1>13

LEMMA ChangeDisk ==
  ASSUME DiskInv, NEW s \in Sinks, ChangeLogFile(s)
  PROVE  Flushing' /\ \A q \in Paths \ shared' : Held(q)'
<1>1. PICK p \in Paths : \/ out[s] = NoStream /\ ChangeUndefined(p, s)
                         \/ out[s] # NoStream /\ Changed(s, p)
                         \/ out[s] # NoStream /\ ChangeFailed(s, p)
  BY ChangeCases DEF DiskInv
<1>2. CASE out[s] = NoStream /\ ChangeUndefined(p, s)
  <2>1. out' = out BY <1>2 DEF ChangeUndefined, Undefined, sinkVars
  <2>2. CASE NothingOpened /\ disk' = disk
    BY <2>1, <2>2, QuietDisk DEF NothingOpened, DiskInv, Flushing, aux
  <2>3. CASE Opened(p, s, {}) /\ disk' = [disk EXCEPT ![p] = <<>>]
    BY <1>2, <2>1, <2>3, OpeningDisk
  <2>4. QED BY <1>2, <2>2, <2>3 DEF ChangeUndefined
<1>3. CASE out[s] # NoStream /\ Changed(s, p) BY <1>3, ChangedDisk
<1>4. CASE out[s] # NoStream /\ ChangeFailed(s, p)
  <2>1. out[s] \in Streams BY <1>4, OutType DEF DiskInv
  <2>2. <<Failed(p)>> \in Seq(Entries) BY EntryType
  <2>3. Silent(<<Failed(p)>>, 0) BY EntryKinds DEF Silent
  <2> DEFINE new == Put(out[s], <<Failed(p)>>)
  <2>4. new.file = out[s].file /\ new.at = out[s].at /\ Silent(new.buffer, 0)
    BY <1>4, <2>1, <2>2, <2>3, PutType, SilentConcat
    DEF Streams, DiskInv, Flushing
  <2>5. out' = [out EXCEPT ![s] = new] /\ UNCHANGED <<disk, told, shared>>
    BY <1>4 DEF ChangeFailed, aux
  <2> HIDE DEF new
  <2>6. \A t \in Sinks : out'[t] # NoStream =>
          /\ out[t] # NoStream /\ out'[t].file = out[t].file
          /\ out'[t].at = out[t].at /\ Silent(out'[t].buffer, 0)
    BY <1>4, <2>4, <2>5 DEF DiskInv, TypeOK, Flushing
  <2>7. QED BY <2>5, <2>6, QuietDisk
<1>5. QED BY <1>1, <1>2, <1>3, <1>4

LEMMA DestroyDisk ==
  ASSUME DiskInv, NEW s \in Sinks, Destroy(s)
  PROVE  Flushing' /\ \A q \in Paths \ shared' : Held(q)'
<1>1. CASE Undefined /\ NothingOpened /\ disk' = disk
  BY <1>1, QuietDisk
  DEF Undefined, NothingOpened, sinkVars, DiskInv, Flushing, aux
<1>2. CASE /\ out[s] # NoStream
           /\ disk' = Flush(disk, Put(out[s], <<Shutdown>>))
           /\ out' = [out EXCEPT ![s] = NoStream]
           /\ UNCHANGED aux
  <2> DEFINE o == Put(out[s], <<Shutdown>>)
  <2>1. TypeOK /\ UNCHANGED <<told, shared>> BY <1>2 DEF DiskInv, aux
  <2>2. PICK old \in Paths : out[s] \in Streams /\ out[s].file = old
    BY <1>2, <2>1, OutType
  <2>3. <<Shutdown>> \in Seq(Entries) /\ Silent(<<Shutdown>>, 0)
    BY EntryType, EntryKinds DEF Silent
  <2>4. o \in Streams /\ o.file = old BY <2>2, <2>3, PutType
  <2>5. /\ disk'[old] = Overlay(disk[old], o)
        /\ \A q \in Paths \ {old} : disk'[q] = disk[q]
    BY <1>2, <2>1, <2>4, FlushType DEF TypeOK
  <2>6. \A t \in Sinks : out'[t] # NoStream => t # s /\ out'[t] = out[t]
    BY <1>2, <2>1 DEF TypeOK
  <2>7. Flushing' BY <2>6 DEF DiskInv, Flushing
  <2>8. ASSUME NEW q \in Paths \ shared' PROVE Held(q)'
    <3>1. q \notin shared /\ told'[q] = told[q] BY <2>1, <2>8
    <3>2. \A t \in Sinks : OnFile(t, q)' => t # s /\ OnFile(t, q) /\ out'[t] = out[t]
      BY <2>6 DEF OnFile
    <3>3. CASE q # old
      <4>1. disk'[q] = disk[q] BY <2>5, <2>8, <3>3
      <4>2. QED BY <2>8, <3>1, <3>2, <4>1, HeldKept
    <3>4. CASE q = old
      <4>1. OnFile(s, q) BY <1>2, <2>2, <3>4 DEF OnFile
      <4>2. \A t \in Sinks : ~OnFile(t, q)'
        BY <2>8, <3>1, <3>2, <4>1 DEF DiskInv, Held
      <4>3. disk'[q] = Overlay(disk[q], Put(out[s], <<Shutdown>>))
        BY <2>5, <3>4
      <4>4. QED BY <2>3, <2>8, <3>1, <4>1, <4>2, <4>3, HeldWritten
    <3>5. QED BY <3>3, <3>4
  <2>9. QED BY <2>7, <2>8
<1>3. QED BY <1>1, <1>2 DEF Destroy

LEMMA DiskStep ==
  ASSUME DiskInv, [Next]_vars
  PROVE  DiskInv'
<1>1. TypeOK' /\ Idle' BY TypeStep DEF DiskInv
<1>2. Flushing' /\ \A q \in Paths \ shared' : Held(q)'
  <2>1. ASSUME UNCHANGED <<out, disk, told, shared>>
        PROVE  Flushing' /\ \A q \in Paths \ shared' : Held(q)'
    BY <2>1, QuietDisk DEF DiskInv, Flushing
  <2>2. CASE Tick BY <2>1, <2>2 DEF Tick, sinkVars, aux
  <2>3. ASSUME MemoryLost, UNCHANGED <<disk, aux>>
        PROVE  Flushing' /\ \A q \in Paths \ shared' : Held(q)'
    <3>1. \A s \in Sinks : out'[s] = NoStream BY <2>3 DEF MemoryLost
    <3>2. QED BY <2>3, <3>1, QuietDisk DEF aux
  <2>4. ASSUME NEW s \in Sinks, \/ NameFile(s) \/ NameNewFile(s)
                               \/ OverrideLogHeader(s)
        PROVE  Flushing' /\ \A q \in Paths \ shared' : Held(q)'
    BY <2>1, <2>4 DEF NameFile, NameNewFile, OverrideLogHeader, aux
  <2>5. CASE UNCHANGED vars BY <2>1, <2>5 DEF vars, sinkVars, aux
  <2>6. QED
    BY <2>2, <2>3, <2>4, <2>5, ConstructDisk, FileWriteDisk, ChangeDisk,
       DestroyDisk DEF Next, Restart, RefusePrefix
<1>3. QED BY <1>1, <1>2 DEF DiskInv

-----------------------------------------------------------------------------
(* The theorems *)

\* The invariant holds: types, only live sinks have streams, and who has which
\* file open (FileSink::FileSink, changeLogFile, ~FileSink).
THEOREM Invariant == Spec => []IInv
<1>1. Init => IInv
  BY InitType DEF Init, IInv, Idle, OpenTwice, LeftFiles, OnFile,
     OldFileNamesNew
<1>2. IInv /\ [Next]_vars => IInv' BY InvariantStep
<1>3. QED BY <1>1, <1>2, PTL DEF Spec

\* Every variable has a value of its kind, and a sink's stream is on the file
\* that fileName() tells (changeLogFile switches both together).
THEOREM TypeCorrect == Spec => []TypeOK
<1>1. IInv => TypeOK BY DEF IInv
<1>2. QED BY <1>1, Invariant, PTL

\* An old log file names its successor on the disk, unless it has been opened
\* again (the farewell of changeLogFile, and openLogFile, which truncates).
THEOREM OldFileNamesNewHolds == Spec => []OldFileNamesNew
<1>1. IInv => OldFileNamesNew BY DEF IInv
<1>2. QED BY <1>1, Invariant, PTL

\* A live sink that has a stream keeps one, also if a file cannot be opened
\* (changeLogFile goes on with the old one).
THEOREM StreamKeptHolds == Spec => StreamKept
<1> DEFINE Keeps == \A s \in Sinks :
                      stage[s] = "live" /\ stage'[s] = "live" /\ out[s] # NoStream
                        => out'[s] # NoStream
<1>1. TypeOK /\ [Next]_vars => Keeps
  <2> SUFFICES ASSUME TypeOK, [Next]_vars,
                      NEW s \in Sinks, stage[s] = "live", stage'[s] = "live",
                      out[s] # NoStream
               PROVE  out'[s] # NoStream
    OBVIOUS
  <2>1. out[s] \in Streams BY OutType
  <2>2. ASSUME NEW t \in Sinks, NEW o \in Streams, out' = [out EXCEPT ![t] = o]
        PROVE  out'[s] # NoStream
    BY <2>2, NoStreamIsNone DEF TypeOK
  <2>3. CASE UNCHANGED out BY <2>3
  <2>4. CASE MemoryLost BY <2>4 DEF MemoryLost
  <2>5. ASSUME NEW t \in Sinks, Construct(t) PROVE out'[s] # NoStream
    <3>1. PICK p \in Paths : Use(t, p) \/ Without(t, p) BY <2>5, ConstructCases
    <3>2. CASE Use(t, p) BY <2>2, <3>2, StreamType DEF Use
    <3>3. CASE Without(t, p) BY <2>3, <3>3 DEF Without
    <3>4. QED BY <3>1, <3>2, <3>3
  <2>6. ASSUME NEW t \in Sinks, FileWrite(t) PROVE out'[s] # NoStream
    <3>1. \/ Undefined
          \/ out[t] # NoStream /\ (Refuse(t) \/ Accept(t))
      BY <2>6, FileWriteCases
    <3>2. CASE Undefined BY <2>3, <3>2 DEF Undefined, sinkVars
    <3>3. CASE out[t] # NoStream /\ Refuse(t)
      BY <2>2, <3>3, OutType, PutType DEF Refuse
    <3>4. CASE out[t] # NoStream /\ Accept(t)
      BY <2>2, <3>4, OutType, PutType, FlushedType DEF Accept, WriteOut
    <3>5. QED BY <3>1, <3>2, <3>3, <3>4
  <2>7. ASSUME NEW t \in Sinks, ChangeLogFile(t) PROVE out'[s] # NoStream
    <3>1. PICK p \in Paths : \/ ChangeUndefined(p, t)
                             \/ out[t] # NoStream /\ Changed(t, p)
                             \/ out[t] # NoStream /\ ChangeFailed(t, p)
      BY <2>7, ChangeCases
    <3>2. CASE ChangeUndefined(p, t)
      BY <2>3, <3>2 DEF ChangeUndefined, Undefined, sinkVars
    <3>3. CASE out[t] # NoStream /\ Changed(t, p)
      <4>1. <<From(path[t])>> \in Seq(Entries) BY <3>3, OutType, EntryType
      <4>2. Put(Stream(p), <<From(path[t])>>) \in Streams
        BY <4>1, StreamType, PutType
      <4>3. QED BY <2>2, <3>3, <4>2 DEF Changed
    <3>4. CASE out[t] # NoStream /\ ChangeFailed(t, p)
      <4>1. <<Failed(p)>> \in Seq(Entries) BY EntryType
      <4>2. Put(out[t], <<Failed(p)>>) \in Streams BY <3>4, <4>1, OutType, PutType
      <4>3. QED BY <2>2, <3>4, <4>2 DEF ChangeFailed
    <3>5. QED BY <3>1, <3>2, <3>3, <3>4
  <2>8. ASSUME NEW t \in Sinks, Destroy(t) PROVE out'[s] # NoStream
    <3>1. CASE Undefined BY <2>3, <3>1 DEF Undefined, sinkVars
    <3>2. CASE /\ out' = [out EXCEPT ![t] = NoStream]
               /\ stage' = [stage EXCEPT ![t] = "gone"]
      BY <3>2 DEF TypeOK
    <3>3. QED BY <2>8, <3>1, <3>2 DEF Destroy
  <2>9. QED
    BY <2>3, <2>4, <2>5, <2>6, <2>7, <2>8
    DEF Next, Tick, Restart, RefusePrefix, NameFile, NameNewFile,
        OverrideLogHeader, vars, sinkVars
<1>2. QED BY <1>1, TypeCorrect, PTL DEF Spec, StreamKept

\* What the invariant says of the disk: every file that is not shared has its
\* messages, and at most one stream that stands behind all of them.
THEOREM DiskInvariant == Spec => []DiskInv
<1>1. Init => DiskInv
  <2> SUFFICES ASSUME Init PROVE DiskInv OBVIOUS
  <2>1. TypeOK BY InitType
  <2>2. \A s \in Sinks : out[s] = NoStream BY DEF Init
  <2>3. ASSUME NEW p \in Paths PROVE Held(p)
    <3>1. disk[p] = <<>> /\ told[p] = <<>> BY DEF Init
    <3>2. <<>> \in Seq(Entries) OBVIOUS
    <3>3. MessagesIn(<<>>) = <<>> BY <3>2, EmptySilent, SilentText
    <3>4. QED BY <2>2, <3>1, <3>3 DEF Held, OnFile
  <2>4. QED BY <2>1, <2>2, <2>3 DEF DiskInv, Idle, Flushing
<1>2. DiskInv /\ [Next]_vars => DiskInv' BY DiskStep
<1>3. QED BY <1>1, <1>2, PTL DEF Spec

\* A file that is not shared holds on the disk exactly the messages that were
\* accepted for it, in order, at every moment (fileWrite flushes each one).
THEOREM MessagesOnDiskHolds == Spec => []MessagesOnDisk
<1>1. DiskInv => MessagesOnDisk BY DEF DiskInv, Held, MessagesOnDisk
<1>2. QED BY <1>1, DiskInvariant, PTL

\* Only files whose name a sink has made are opened: what is accepted for
\* another one is added to what was, and it is shared or not as before.
LEMMA OldFileStep ==
  ASSUME TypeOK, [Next]_vars, NEW q \in Paths,
         \A s \in Sinks : q \notin MayOpen(s)
  PROVE  /\ told'[q] = told[q] \/ \E m : told'[q] = Append(told[q], m)
         /\ q \in shared' <=> q \in shared
<1> DEFINE Same == told'[q] = told[q] /\ (q \in shared' <=> q \in shared)
<1>1. \A s \in Sinks : \A p \in Paths \cap MayOpen(s) : \A change :
        Opened(p, s, change) => Same
  BY DEF TypeOK, Opened
<1> HIDE DEF Same
<1>2. UNCHANGED aux => Same BY DEF aux, Same
<1>3. ASSUME NEW s \in Sinks, Construct(s) PROVE Same
  <2>1. PICK p \in Paths \cap MayOpen(s) : Use(s, p) \/ Without(s, p)
    BY <1>3, ConstructCases
  <2>2. QED BY <1>1, <1>2, <2>1 DEF Use, Without, NothingOpened
<1>4. ASSUME NEW s \in Sinks, FileWrite(s)
      PROVE  /\ told'[q] = told[q] \/ \E m : told'[q] = Append(told[q], m)
             /\ q \in shared' <=> q \in shared
  <2>1. NothingOpened \/ Refuse(s) \/ (out[s] # NoStream /\ Accept(s))
    BY <1>4, FileWriteCases
  <2>2. CASE NothingOpened \/ Refuse(s)
    BY <2>2 DEF NothingOpened, Refuse, aux
  <2>3. CASE out[s] # NoStream /\ Accept(s)
    <3>1. /\ told' = [told EXCEPT ![path[s]] = Append(@, Message(sent'))]
          /\ shared' = shared
      BY <2>3 DEF Accept
    <3>2. QED BY <3>1 DEF TypeOK
  <2>4. QED BY <2>1, <2>2, <2>3
<1>5. ASSUME NEW s \in Sinks, ChangeLogFile(s) PROVE Same
  <2>1. PICK p \in Paths \cap MayOpen(s) : \/ ChangeUndefined(p, s)
                                          \/ Changed(s, p)
                                          \/ ChangeFailed(s, p)
    BY <1>5, ChangeCases
  <2>2. (\E change : Opened(p, s, change)) \/ UNCHANGED aux
    BY <2>1 DEF ChangeUndefined, Changed, ChangeFailed, NothingOpened
  <2>3. QED BY <1>1, <1>2, <2>1, <2>2
<1>6. ASSUME NEW s \in Sinks, Destroy(s) PROVE Same
  BY <1>2, <1>6 DEF Destroy, NothingOpened
<1>7. QED
  BY <1>2, <1>3, <1>4, <1>5, <1>6
  DEF Next, Tick, Restart, RefusePrefix, NameFile, NameNewFile,
      OverrideLogHeader, vars, Same

\* A sink comes to open a file only by making its name, which has the current
\* second.
LEMMA MayOpenStep ==
  ASSUME TypeOK, Idle, [Next]_vars, NEW s \in Sinks, NEW q \in Paths,
         q \in MayOpen(s)', q \notin MayOpen(s)
  PROVE  q.time = clock
<1>1. named'[s] # None BY DEF MayOpen
<1>2. CASE named'[s] = named[s] /\ stage'[s] = stage[s] BY <1>2 DEF MayOpen
<1>3. CASE MemoryLost BY <1>1, <1>3 DEF MemoryLost
<1>4. ASSUME NEW t \in Sinks, NameFile(t) \/ NameNewFile(t) PROVE q.time = clock
  <2>1. PICK p \in Paths : p.time = clock /\ named' = [named EXCEPT ![t] = p]
    BY <1>4, NameCases
  <2>2. stage' = stage BY <1>4, NameCases
  <2>3. CASE t # s BY <1>2, <2>1, <2>2, <2>3 DEF TypeOK
  <2>4. CASE t = s
    <3>1. named'[s] = p BY <2>1, <2>4 DEF TypeOK
    <3>2. q = p \/ q = Fallback(p) BY <3>1 DEF MayOpen
    <3>3. QED BY <2>1, <3>2, FallbackType
  <2>5. QED BY <2>3, <2>4
<1>5. ASSUME NEW t \in Sinks, Construct(t) PROVE q.time = clock
  <2>1. /\ named' = [named EXCEPT ![t] = None]
        /\ stage' = [stage EXCEPT ![t] = "live"]
    BY <1>5, ConstructCases
  <2>2. t # s BY <1>1, <2>1 DEF TypeOK
  <2>3. QED BY <1>2, <2>1, <2>2 DEF TypeOK
<1>6. ASSUME NEW t \in Sinks, ChangeLogFile(t) PROVE q.time = clock
  <2>1. PICK p : \/ ChangeUndefined(p, t)
                 \/ /\ named' = [named EXCEPT ![t] = None]
                    /\ Changed(t, p) \/ ChangeFailed(t, p)
    BY <1>6, ChangeCases
  <2>2. stage' = stage
    BY <2>1 DEF ChangeUndefined, Undefined, Changed, ChangeFailed, sinkVars
  <2>3. named'[s] = named[s] \/ named'[s] = None
    BY <2>1 DEF ChangeUndefined, Undefined, sinkVars, TypeOK
  <2>4. QED BY <1>1, <1>2, <2>2, <2>3
<1>7. ASSUME NEW t \in Sinks, FileWrite(t) PROVE q.time = clock
  <2>1. UNCHANGED <<stage, named>>
    BY <1>7, FileWriteCases DEF Undefined, sinkVars
  <2>2. QED BY <1>2, <2>1
<1>8. ASSUME NEW t \in Sinks, Destroy(t) PROVE q.time = clock
  <2>1. CASE Undefined BY <1>2, <2>1 DEF Undefined, sinkVars
  <2>2. CASE /\ Usable(t) /\ UNCHANGED named
             /\ stage' = [stage EXCEPT ![t] = "gone"]
    <3>1. t # s BY <1>1, <2>2 DEF Usable
    <3>2. QED BY <1>2, <2>2, <3>1 DEF TypeOK
  <2>3. QED BY <1>8, <2>1, <2>2 DEF Destroy
<1>9. QED
  BY <1>2, <1>3, <1>4, <1>5, <1>6, <1>7, <1>8
  DEF Next, Tick, Restart, RefusePrefix, OverrideLogHeader, vars, sinkVars

\* When the second in a file's name is over, no more sinks come to open it, and
\* when none is left that may, no step takes a message out of it, be it not
\* shared (createLogFileName, openLogFile).
THEOREM OldMessagesStayHolds == Spec => OldMessagesStay
<1> DEFINE Stay ==
      \A p \in Paths : p.time < clock =>
        /\ \A s \in Sinks : p \in MayOpen(s)' => p \in MayOpen(s)
        /\ (\A s \in Sinks : p \notin MayOpen(s)) /\ p \notin shared'
             => IsPrefix(MessagesIn(disk[p]), MessagesIn(disk'[p]))
<1>1. DiskInv /\ [Next]_vars => Stay
  <2> SUFFICES ASSUME DiskInv, [Next]_vars, NEW p \in Paths, p.time < clock
               PROVE  /\ \A s \in Sinks : p \in MayOpen(s)' => p \in MayOpen(s)
                      /\ (\A s \in Sinks : p \notin MayOpen(s))
                           /\ p \notin shared'
                           => IsPrefix(MessagesIn(disk[p]), MessagesIn(disk'[p]))
    OBVIOUS
  <2>1. p.time # clock BY DEF DiskInv, TypeOK, Paths
  <2>2. \A s \in Sinks : p \in MayOpen(s)' => p \in MayOpen(s)
    BY <2>1, MayOpenStep DEF DiskInv
  <2>3. ASSUME \A s \in Sinks : p \notin MayOpen(s), p \notin shared'
        PROVE  IsPrefix(MessagesIn(disk[p]), MessagesIn(disk'[p]))
    <3>1. p \notin shared BY <2>3, OldFileStep DEF DiskInv
    <3>2. MessagesIn(disk[p]) = told[p] BY <3>1 DEF DiskInv, Held
    <3>3. MessagesIn(disk'[p]) = told'[p]
      <4>1. DiskInv' BY DiskStep
      <4>2. QED BY <2>3, <4>1 DEF DiskInv, Held
    <3>4. told[p] \in Seq([message : Nat]) /\ told'[p] \in Seq([message : Nat])
      <4>1. TypeOK' BY TypeStep DEF DiskInv
      <4>2. QED BY <4>1 DEF DiskInv, TypeOK
    <3>5. told'[p] = told[p] \/ \E m : told'[p] = Append(told[p], m)
      BY <2>3, OldFileStep DEF DiskInv
    <3>6. IsPrefix(told[p], told'[p]) BY <3>4, <3>5, SMTT(30) DEF IsPrefix
    <3>7. QED BY <3>2, <3>3, <3>6
  <2>4. QED BY <2>2, <2>3
<1>2. QED BY <1>1, DiskInvariant, PTL DEF Spec, OldMessagesStay

=============================================================================
