------------------------------ MODULE TimeFormat ------------------------------
(****************************************************************************)
(* The time of a message as text (time.cpp): localtime_formatted first puts  *)
(* the fraction of the second in the place of every "%f", "%f3", "%f6" and   *)
(* "%f9" of the format, then hands the result to strftime.                   *)
(*                                                                          *)
(* A text is a sequence of characters.  An instant is the nanoseconds since  *)
(* the last full second; the rest of it is in the conversions of strftime.   *)
(* Modelled is the build without assertions: with them, put_time ends the    *)
(* process where it returns the format here.                                 *)
(****************************************************************************)
EXTENDS Integers, Sequences, SequencesExt

CONSTANTS
  Formats,    \* formats asked for
  Instants,   \* nanoseconds since the last full second
  Local,      \* what strftime makes of "%" and a character: [chars -> texts]
  TimeBuffer  \* size of put_time's buffer; 1024 in the code

ASSUME InstantAssumption == \A ns \in Instants : ns \in Nat /\ ns < 1000000000

ASSUME TimeAssumption ==
  /\ TimeBuffer \in Nat \ {0}
  /\ Formats \subseteq Seq(STRING)
  /\ \A char \in DOMAIN Local : Local[char] \in Seq(STRING)
  /\ "f" \notin DOMAIN Local
  /\ "%" \in DOMAIN Local /\ Local["%"] = <<"%">>

VARIABLE asked  \* the format and the instant of one call, or NoCall

Calls == Formats \X Instants
NoCall == <<>>

HasFraction(text, i) ==
  i + 1 <= Len(text) /\ text[i] = "%" /\ text[i + 1] = "f"

getFractional(format, pos) ==
  LET digit == IF pos + 2 <= Len(format) THEN format[pos + 2] ELSE ""
  IN CASE digit = "3" -> "Millisecond"
       [] digit = "6" -> "Microsecond"
       [] digit = "9" -> "Nanosecond"
       [] OTHER -> "NanosecondDefault"

zeroes(fractional) ==
  CASE fractional = "Millisecond" -> 3
    [] fractional = "Microsecond" -> 6
    [] OTHER -> 9

digitsToCut(fractional) ==
  CASE fractional = "Millisecond" -> 1000000
    [] fractional = "Microsecond" -> 1000
    [] OTHER -> 1

Digits == <<"0", "1", "2", "3", "4", "5", "6", "7", "8", "9">>
Powers == <<1, 10, 100, 1000, 10000, 100000, 1000000, 10000000, 100000000,
            1000000000>>
\* The digit of n before its last k.
Digit(n, k) == Digits[((n \div Powers[k + 1]) % 10) + 1]

\* std::to_string of n: no leading zeroes.
Decimal(n) ==
  LET size == CHOOSE k \in 1 .. 9 :
                n < Powers[k + 1] /\ (k = 1 \/ n >= Powers[k])
  IN [i \in 1 .. size |-> Digit(n, size - i)]

\* Fault: the value is not filled up with zeroes.
to_stringShort(ns, fractional) == Decimal(ns \div digitsToCut(fractional))
to_string(ns, fractional) ==
  LET value == Decimal(ns \div digitsToCut(fractional))
  IN [i \in 1 .. zeroes(fractional) - Len(value) |-> "0"] \o value

\* One turn of the loop over the format buffer.
Turn(ns, loop) ==
  LET found == {i \in loop.pos .. Len(loop.buffer) : HasFraction(loop.buffer, i)}
      at == Min(found)
      type == getFractional(loop.buffer, at)
      padding == IF type = "NanosecondDefault" THEN 0 ELSE 1
  IN IF found = {} THEN loop
     ELSE [buffer |-> SubSeq(loop.buffer, 1, at - 1) \o to_string(ns, type)
                        \o SubSeq(loop.buffer, at + 2 + padding, Len(loop.buffer)),
           pos |-> at + 2]

\* There are no more turns than characters in the format.
localtime_formatted_fractions(ns, format) ==
  LET loop[turn \in 0 .. Len(format)] ==
        IF turn = 0 THEN [buffer |-> format, pos |-> 1]
        ELSE Turn(ns, loop[turn - 1])
  IN loop[Len(format)].buffer

\* A text cut from left to right: a piece that starts at i has size[i]
\* characters.  There are as many pieces as characters, the last ones empty.
Behind(text, size, i) == IF i \in DOMAIN text THEN i + size[i] ELSE i
Starts(text, size) ==
  LET starts[k \in 0 .. Len(text)] ==
        IF k = 0 THEN 1 ELSE Behind(text, size, starts[k - 1])
  IN starts
Pieces(text, size) ==
  LET starts == Starts(text, size)
  IN [k \in 1 .. Len(text) |-> SubSeq(text, starts[k - 1], starts[k] - 1)]

HasConversion(text, i) ==
  i + 1 <= Len(text) /\ text[i] = "%" /\ text[i + 1] \in DOMAIN Local

Converted(piece) == IF Len(piece) = 2 THEN Local[piece[2]] ELSE piece

strftime(format) ==
  LET pieces == Pieces(format, [i \in DOMAIN format |->
                                  IF HasConversion(format, i) THEN 2 ELSE 1])
  IN FlattenSeq([k \in DOMAIN pieces |-> Converted(pieces[k])])

\* strftime returns 0 if the text does not fit, and also if it is empty.
put_time(format) ==
  LET text == strftime(format)
  IN IF Len(text) \in 1 .. TimeBuffer - 1 THEN text ELSE format

localtime_formatted(ns, format) ==
  put_time(localtime_formatted_fractions(ns, format))

\* date_formatted and time_formatted, the default of LogMessage::timestamp.
DefaultFormat ==
  <<"%","m","%","d"," ","%","H",":","%","M",":","%","S",".","%","f","6">>

----------------------------------------------------------------------------
(* What time.hpp promises of a format.                                       *)

\* The format cut into the items it consists of, from left to right.
ItemSize(format, i) ==
  CASE HasFraction(format, i) ->
         IF i + 2 <= Len(format) /\ format[i + 2] \in {"3", "6", "9"} THEN 3 ELSE 2
    [] HasConversion(format, i) -> 2
    [] OTHER -> 1

Items(format) == Pieces(format, [i \in DOMAIN format |-> ItemSize(format, i)])

\* The first n decimals of the second.
Decimals(ns, n) == [i \in 1 .. n |-> Digit(ns, 9 - i)]

ItemText(ns, item) ==
  CASE item = <<"%", "f", "3">> -> Decimals(ns, 3)
    [] item = <<"%", "f", "6">> -> Decimals(ns, 6)
    [] item \in {<<"%", "f", "9">>, <<"%", "f">>} -> Decimals(ns, 9)
    [] Len(item) = 2 /\ item[2] \in DOMAIN Local -> Local[item[2]]
    [] OTHER -> item

ItemTexts(ns, items) == FlattenSeq([k \in DOMAIN items |-> ItemText(ns, items[k])])

\* A literal "%f", written "%%f".
SaysFraction(items) ==
  \E i \in 1 .. Len(items) - 1 :
    items[i] = <<"%", "%">> /\ items[i + 1] = <<"f">>

(* The text is the format with every item in it shown: the fractions are the *)
(* first 3, 6 or 9 decimals of the second (time.hpp, "%f3: milliseconds, 3   *)
(* digits: 001"), and putting them in disturbs neither one another nor what  *)
(* strftime is to convert.  Not so for "%%f", in which the code finds a      *)
(* fraction, and for a text that is empty or does not fit.                   *)
TimestampRight ==
  asked # NoCall =>
    LET format == asked[1]
        ns == asked[2]
        shown == ItemTexts(ns, Items(format))
    IN ~SaysFraction(Items(format)) /\ Len(shown) \in 1 .. TimeBuffer - 1
         => localtime_formatted(ns, format) = shown
=============================================================================
