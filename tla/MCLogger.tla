------------------------------ MODULE MCLogger ------------------------------
(***************************************************************************)
(* A small instance of Logger: two threads, a root logger with the console *)
(* and a second logger, one file appender; and patterns of up to three     *)
(* pieces for LogPattern.                                                  *)
(***************************************************************************)
EXTENDS Logger

CONSTANTS t1, t2

TwoThreads == {t1, t2}
TwoLoggers == {"root", "system"}
OneFile == {"file"}
MCChars == {"m", "n", "x", "H", "%", "{", "}", ":", " "}
MCLetters == {"m", "n", "x", "H"}
MCItems == {"m", "n"}
MessageLine == <<"%", "m", "%", "n">>
MessageOnly == <<"%", "m">>
OnePattern == {MessageOnly}
Unset == [l \in TwoLoggers |-> IF l = "root" THEN <<"stdout">> ELSE <<>>]
Shared == [l \in TwoLoggers |-> <<"file">>]
TwoSetups == {Unset, Shared}
LevelsOfLoggers == [l \in TwoLoggers |-> IF l = "root" THEN 2 ELSE 1]
LevelsOfAppenders == [a \in {"file", "stdout"} |-> IF a = "file" THEN 2 ELSE 1]
TwoLevels == {1, 2}

Conversions == {Item(<<c>>, f, 1) : c \in {"m", "n", "x"}, f \in {<<>>, <<"H">>, <<"%", ":">>}}
               \cup {Item(<<"m", "n">>, <<>>, 1)}
Texts == {Item(<<"x">>, <<>>, 0), Item(<<":", "m">>, <<>>, 0), Item(<<" ">>, <<>>, 0)}
MCPieces == UNION {[1..n -> Conversions \cup Texts] : n \in 0..3}
=============================================================================
