-------------------------- MODULE MCLogStatements --------------------------
(* LogStatements, and the texts of messages, for TLC.                        *)
EXTENDS LogStatements, TimeFormat, LogMessage

\* The texts of up to n characters.
Strings(chars, n) == UNION {[1 .. k -> chars] : k \in 0 .. n}

MCFormats == Strings({"%", "f", "3", "6", "H"}, 4) \cup {DefaultFormat}
MCInstants == {0, 7, 1000, 120034, 5000000, 123456789, 999999999}
MCLocal == [c \in {"%", "H", "m", "d", "M", "S"} |->
              IF c = "%" THEN <<"%">> ELSE <<"1", "2">>]

MCLines == Strings({"(", "+", ")", "name"}, 6)
MCFrames == {<<<<"own">>>>, <<<<"own">>, <<"exe", "(", "name", "+", "4", ")">>,
                             <<"exe", "(", "+", "8", ")">>>>}
MCPaths == {<<"main">>, <<"src", "/", "main">>, <<"C", "\\", "main", "(">>}
MCTexts == Strings({"a", "b"}, 5)

texts == <<asked, subject>>
\* The state is about the statement, or about one text that never changes.
NoText == asked = NoCall /\ subject = Nothing
OneText ==
  \/ asked \in Calls /\ subject = Nothing
  \/ asked = NoCall /\ subject \in Subjects

MCInit == Init /\ (NoText \/ (macro = "LOG" /\ enabled /\ OneText))
MCNext ==
  \/ Next /\ NoText /\ UNCHANGED texts
  \/ ~NoText /\ UNCHANGED <<vars, texts>>
MCSpec ==
  MCInit /\ [][MCNext]_<<vars, texts>> /\ \A t \in Threads : WF_vars(Continue(t))
=============================================================================
