------------------------------ MODULE LogMessage ------------------------------
(****************************************************************************)
(* What a message says, from the logging statement to the text in a file     *)
(* and on the console: LogCapture, saveMessage, LogMessage, FatalMessage,    *)
(* the stack dump and the layouts of logmessage.cpp.                         *)
(*                                                                          *)
(* A text is a sequence of characters or words; a layout is the order of     *)
(* what it shows, its fixed wording left out but for the word that names     *)
(* it.  "function" stands for the function and the line.                     *)
(* When a message goes where is in the modules LogWorker and FatalPath.      *)
(****************************************************************************)
EXTENDS Integers, Sequences, SequencesExt

CONSTANTS
  Levels,     \* values of the levels of statements
  Signals,    \* the signals of fatal events
  Paths,      \* __FILE__ of statements
  Frames,     \* stacks: up to 50 lines of backtrace_symbols, the limit
  Lines,      \* single lines of them
  Mangled,    \* a word that is a name __cxa_demangle takes
  Demangled,  \* what it makes of it
  Texts,      \* texts written by printf-like statements
  Sizes       \* MaxMessageSize

Fatal == 1000
Contract == 2000
FatalSignal == 2001
FatalException == 2002
Named == {"SIGABRT", "SIGFPE", "SIGSEGV", "SIGILL", "SIGTERM"}

ASSUME MessageAssumption ==
  /\ Levels \subseteq Nat \ {FatalSignal, FatalException}  \* of g3::internal
  /\ Paths \subseteq Seq(STRING) /\ Texts \subseteq Seq(STRING)
  /\ Lines \subseteq Seq(STRING)
  /\ Frames \subseteq Seq(Seq(STRING)) \ {<<>>}
  /\ {Mangled, Demangled} \subseteq STRING \ {"(", ")"}
  /\ Signals \subseteq STRING
  /\ Sizes \subseteq Nat \ {0}

VARIABLE subject  \* one report, stack or text and what is to become of it

wasFatal(level) == level >= Fatal
LevelText(level) == ToString(level)

----------------------------------------------------------------------------
(* LogCapture.                                                               *)

\* vsnprintf (external) leaves room for the terminating zero.
Written(text, size) == SubSeq(text, 1, IF Len(text) < size THEN Len(text) ELSE size - 1)

ParseFailure == "Failure to successfully parse"
Truncated == "[...truncated...]"

\* Fault: a text that is cut is taken for one that is not.
capturefUnmarked(text, size) ==
  IF text = <<>> THEN <<ParseFailure>> ELSE Written(text, size)
capturef(text, size) ==
  CASE text = <<>> -> <<ParseFailure>>
    [] Len(text) > size -> Written(text, size) \o <<Truncated>>
    [] OTHER -> Written(text, size)

FirstOf(c, line) == SelectInSeq(line, LAMBDA x : x = c)
LastOf(c, line, end) == SelectLastInSubSeq(line, 1, end, LAMBDA x : x = c)

\* A line "file(name+offset) address" without its parentheses, the name
\* demangled; any other line as it is.  Position 0 is none.
FrameSplit(line, open, plus, close) ==
  LET name == SubSeq(line, open + 1, plus - 1)
  IN IF 0 \in {close, open} \/ plus < open THEN line
     ELSE SubSeq(line, 1, open - 1)
            \o (IF name = <<Mangled>> THEN <<Demangled>> ELSE name)
            \o SubSeq(line, plus, close - 1)
            \o SubSeq(line, close + 1, Len(line))

\* Fault: the loop does not end at the first ")".
FrameTextLast(line) ==
  FrameSplit(line, LastOf("(", line, Len(line)), LastOf("+", line, Len(line)),
             FirstOf(")", line))
\* The last "(" and the last "+" before the first ")".
FrameText(line) ==
  LET close == FirstOf(")", line)
  IN FrameSplit(line, LastOf("(", line, close), LastOf("+", line, close), close)

\* The first frame is stackdump itself.
stackdump(raw, frames) ==
  IF raw # <<>> THEN raw
  ELSE FlattenSeq([i \in 1 .. Len(frames) - 1 |-> FrameText(frames[i + 1])])

exitReasonName(level, signal) ==
  IF signal \in Named THEN <<signal>>
  ELSE <<"UNKNOWN SIGNAL", signal, LevelText(level)>>

\* A statement's LogCapture with all that was streamed into it.
Captured(file, function, level, text, expression, signal, dump, frames) ==
  [file |-> file, function |-> function, level |-> level, text |-> text,
   expression |-> expression, signal |-> signal,
   stack_trace |-> IF wasFatal(level)
                   THEN <<"STACKDUMP">> \o stackdump(dump, frames) ELSE <<>>]

\* The one of signalHandler, which takes the dump first.
CapturedSignal(signal, frames) ==
  Captured(<<>>, <<>>, FatalSignal,
          <<"Received fatal signal">> \o exitReasonName(FatalSignal, signal),
          <<>>, signal, stackdump(<<>>, frames), frames)

----------------------------------------------------------------------------
(* LogMessage and FatalMessage.                                              *)

\* What follows the last separator.
splitFileName(path) ==
  SubSeq(path, SelectLastInSeq(path, LAMBDA x : x \in {"(", "/", "\\"}) + 1,
         Len(path))

New(path, function, level) ==
  [details |-> "default", timestamp |-> "time", file |-> splitFileName(path),
   file_path |-> path, function |-> function, level |-> level,
   expression |-> <<>>, message |-> <<>>]

\* Fault: a copy without the expression.
CopyShort(other) == [other EXCEPT !.expression = <<>>]
\* The copy constructor; the move constructor takes the same.
Copy(other) ==
  [details |-> other.details, timestamp |-> other.timestamp,
   file |-> other.file, file_path |-> other.file_path,
   function |-> other.function, level |-> other.level,
   expression |-> other.expression, message |-> other.message]

\* operator=, which swaps, leaves the layout and the path of the file.
Assigned(message, other) ==
  [other EXCEPT !.details = message.details, !.file_path = message.file_path]

shortLevel(msg) == <<"letter of", LevelText(msg.level)>>
DefaultLogDetailsToString(msg) ==
  shortLevel(msg) \o <<msg.timestamp>> \o msg.file \o msg.function
FullLogDetailsToString(msg) ==
  <<msg.timestamp, LevelText(msg.level), "thread">> \o msg.file \o msg.function
Details(msg) == IF msg.details = "full" THEN FullLogDetailsToString(msg)
                ELSE DefaultLogDetailsToString(msg)

normalToString(msg) == Details(msg) \o msg.message
fatalSignalToString(msg) ==
  <<msg.timestamp, "FATAL SIGNAL RECEIVED">> \o msg.message
fatalExceptionToString(msg) ==
  <<msg.timestamp, "FATAL EXCEPTION RECEIVED">> \o msg.message
fatalLogToString(msg) ==
  Details(msg) \o <<"EXIT trigger caused by LOG(FATAL) entry">> \o msg.message
fatalCheckToString(msg) ==
  Details(msg) \o <<"EXIT trigger caused by broken Contract">>
    \o msg.expression \o msg.message
fatalCustomToString(msg) ==
  Details(msg) \o <<"UNKNOWN or Custom made Log Message Type">> \o msg.message

toString(message, formattingFunc) ==
  LET msg == [message EXCEPT !.details = formattingFunc]
  IN CASE ~wasFatal(msg.level) -> normalToString(msg)
       [] msg.level = FatalSignal -> fatalSignalToString(msg)
       [] msg.level = FatalException -> fatalExceptionToString(msg)
       [] msg.level = Fatal -> fatalLogToString(msg)
       [] msg.level = Contract -> fatalCheckToString(msg)
       [] OTHER -> fatalCustomToString(msg)

\* What a sink is called with that takes a string.
Adapted(message) == toString(message, "default")

\* saveMessage; first is the stack trace of the first fatal event if this one
\* happened in its hook, and empty otherwise.
saveMessage(capture, first) ==
  [New(capture.file, capture.function, capture.level) EXCEPT
     !.expression = capture.expression,
     !.message = capture.text \o
       (IF ~wasFatal(capture.level) THEN <<>>
        ELSE IF first = <<>> THEN capture.stack_trace
        ELSE capture.stack_trace \o <<"recursive crash">> \o first)]

\* bgFatal makes the last message of a FatalMessage.
LastMessage(message, signal) ==
  [message EXCEPT !.message = @
     \o <<"Exiting after fatal event", LevelText(message.level)>>
     \o exitReasonName(message.level, signal)]

\* What the sinks are sent: FatalMessage's constructor, the copy for each sink
\* and the moves on the way.
Sent(capture, first) ==
  LET message == saveMessage(capture, first)
  IN IF wasFatal(capture.level)
     THEN Copy(LastMessage(Copy(message), capture.signal)) ELSE Copy(message)

\* CustomSink::PrintMessage: the console.
GetColor(level) ==
  CASE level = 500 -> "YELLOW" [] level = 100 -> "GREEN"
    [] level = 800 \/ wasFatal(level) -> "RED" [] OTHER -> "WHITE"
\* The least level it shows, as InitG3Logging takes it from the flags.
Threshold(stderrthreshold, logtostderr) ==
  CASE logtostderr \/ stderrthreshold = 0 -> 100
    [] stderrthreshold = 1 -> 500
    [] stderrthreshold = 3 -> 1000
    [] OTHER -> 800
PrintMessage(msg, threshold) ==
  IF msg.level < threshold THEN <<>>
  ELSE <<GetColor(msg.level)>> \o DefaultLogDetailsToString(msg) \o msg.message

----------------------------------------------------------------------------
(* Properties.                                                               *)

\* Where part may end in the text that begins behind one of the positions.
EndsOf(text, part, positions) ==
  {e \in 0 .. Len(text) :
     \E p \in positions : /\ p + Len(part) <= e
                          /\ part = SubSeq(text, e - Len(part) + 1, e)}

\* The parts occur in the text, one behind the other and apart.
SaysInOrder(text, parts) ==
  LET ends[n \in 0 .. Len(parts)] ==
        IF n = 0 THEN {0} ELSE EndsOf(text, parts[n], ends[n - 1])
  IN ends[Len(parts)] # {}

\* A statement with a level, or a CHECK; all give a function and a text.
Statements ==
  {Captured(path, <<"function">>, level, <<"text">>,
           IF level = Contract THEN <<"expression">> ELSE <<>>,
           "SIGABRT", <<>>, frames)
     : path \in Paths, level \in Levels \cup {Contract}, frames \in Frames}
Crashes == {CapturedSignal(signal, frames)
              : signal \in Signals, frames \in Frames}

\* What a run may look at; or nothing.
Reports == [kind : {"report"}, capture : Statements \cup Crashes,
            func : {"default", "full"}, first : {<<>>, <<"first">>}]
Stacks == [kind : {"stack"}, frames : Frames \cup {<<l, l>> : l \in Lines}]
Prints == [kind : {"print"}, text : Texts \ {<<>>}, size : Sizes]
Subjects == Reports \cup Stacks \cup Prints
Nothing == [kind |-> "nothing"]

(* Whatever the layout, the text in the log file, of a sink that takes       *)
(* strings and of an assigned message says all that the statement gave: its  *)
(* time, file, function, expression and text, in this order.  Of a fatal     *)
(* event it then has the stack, and in the end the level and the signal the  *)
(* process ends by; if it happened in the hook of another one, the stack of  *)
(* that one too.  The console, where it shows the level, says as much but    *)
(* for the expression (logmessage.cpp, g3log.cpp saveMessage, logworker.cpp  *)
(* bgFatal, custom_sink.cpp).                                                *)
ReportComplete ==
  subject.kind = "report" =>
    LET capture == subject.capture
        first == subject.first
        func == subject.func
        sent == Sent(capture, first)
        place == <<<<"time">>, splitFileName(capture.file), capture.function>>
        end == IF ~wasFatal(capture.level) THEN <<>>
               ELSE <<capture.stack_trace, first,
                      <<"Exiting after fatal event", LevelText(capture.level)>>,
                      exitReasonName(capture.level, capture.signal)>>
        other == New(<<"other">>, <<"other">>, Fatal)
    IN /\ \A text \in {toString(sent, func), Adapted(sent),
                      toString(Assigned(other, sent), func)} :
            SaysInOrder(text, place \o <<capture.expression, capture.text>> \o end)
       /\ \A flag \in 0 .. 4, toStderr \in BOOLEAN :
            Threshold(flag, toStderr) <= capture.level =>
              SaysInOrder(PrintMessage(sent, Threshold(flag, toStderr)),
                place \o <<capture.text>> \o end)

\* A text without its parentheses, demangled names turned back.
PlainWord(word) ==
  CASE word \in {"(", ")"} -> <<>>
    [] word = Demangled -> <<Mangled>>
    [] OTHER -> <<word>>
Plain(text) == FlattenSeq([i \in 1 .. Len(text) |-> PlainWord(text[i])])

(* No frame of the stack but stackdump's own is missing in a dump, whatever  *)
(* its line looks like, nor any part of a line: only parentheses go, and a   *)
(* name is replaced by the one it stands for (crashhandler_unix.cpp          *)
(* stackdump).                                                               *)
FramesKept ==
  subject.kind = "stack" =>
    Plain(stackdump(<<>>, subject.frames)) = Plain(FlattenSeq(Tail(subject.frames)))

(* A printf-like entry is the text that was written, or a proper beginning   *)
(* of it with the mark that it was cut (logcapture.cpp; g3log.hpp: "Messages *)
(* Longer than this are bound to 2KB with the string "[...truncated...]" at  *)
(* the end").  Not so where the text is as long as the buffer: it loses its  *)
(* last character and has no mark; and an empty text is reported as a        *)
(* failure.                                                                  *)
CutIsMarked ==
  subject.kind = "print" =>
    LET text == subject.text
        size == subject.size
        entry == capturef(text, size)
    IN \/ entry = text
       \/ \E k \in 0 .. Len(text) - 1 :
            entry = SubSeq(text, 1, k) \o <<Truncated>>
       \/ Len(text) = size /\ entry = Front(text)
=============================================================================
