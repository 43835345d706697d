------------------------------ MODULE JsonText ------------------------------
(***************************************************************************)
(* How the vendored jsoncpp puts numbers and strings into bytes            *)
(* (json_tool.h, json_writer.cpp).  A text is a sequence of bytes.  A      *)
(* double is <<"finite", m, e>>, m times ten to the e with m no multiple   *)
(* of ten (few enough digits that "%.17g" shows them all), or the kind of  *)
(* a special value with two zeros.                                         *)
(***************************************************************************)
EXTENDS Integers, Sequences, SequencesExt

NUL == 0
BACKSPACE == 8
TAB == 9
LF == 10
FORMFEED == 12
CR == 13
SPACE == 32
QUOTE == 34
APOSTROPHE == 39
STAR == 42
PLUS == 43
COMMA == 44
MINUS == 45
DOT == 46
SLASH == 47
ZERO == 48
COLON == 58
OPEN == 91
BACKSLASH == 92
CLOSE == 93
BEGIN == 123
END == 125
SmallB == 98
SmallE == 101
SmallF == 102
SmallN == 110
SmallR == 114
SmallT == 116
SmallU == 117

Digits == 48..57

\* The words of the grammar: what true and false are in a text, and so on.
Word == [true |-> <<116, 114, 117, 101>>, false |-> <<102, 97, 108, 115, 101>>,
         null |-> <<110, 117, 108, 108>>, NaN |-> <<78, 97, 78>>,
         Infinity |-> <<73, 110, 102, 105, 110, 105, 116, 121>>]

Repeat(byte, n) == [i \in 1..n |-> byte]

\* codePointToUTF8; nothing for a number that is no code point.
CodePointToUTF8(cp) ==
  LET rest(n) == 128 + ((cp \div n) % 64)
  IN CASE cp \in 0..127         -> <<cp>>
       [] cp \in 128..2047      -> <<192 + (cp \div 64), rest(1)>>
       [] cp \in 2048..65535    -> <<224 + (cp \div 4096), rest(64), rest(1)>>
       [] cp \in 65536..1114111 -> <<240 + (cp \div 262144), rest(4096), rest(64), rest(1)>>
       [] OTHER                 -> <<>>

-----------------------------------------------------------------------------
\* uintToString: the decimal digits of n.
RECURSIVE UIntToString(_)
UIntToString(n) == (IF n < 10 THEN <<>> ELSE UIntToString(n \div 10)) \o <<ZERO + (n % 10)>>

\* valueToString of an integer.
IntToString(n) == IF n < 0 THEN <<MINUS>> \o UIntToString(-n) ELSE UIntToString(n)

\* The double of m times ten to the e.
RECURSIVE Decimal(_, _)
Decimal(m, e) ==
  CASE m = 0                -> <<"finite", 0, 0>>
    [] m # 0 /\ m % 10 = 0  -> Decimal(m \div 10, e + 1)
    [] OTHER                -> <<"finite", m, e>>

Special(kind) == <<kind, 0, 0>>

\* What "%.17g" prints of a finite double: fixed or scientific notation.
PrintedG(r) ==
  LET Mantissa(digits) == IF Len(digits) = 1 THEN digits ELSE <<digits[1], DOT>> \o Tail(digits)
      Exponent(digits) == Repeat(ZERO, 2 - Len(digits)) \o digits
      Printed(digits, before) ==                \* so many digits before the point
        CASE before \notin -3..17 ->
               Mantissa(digits) \o <<SmallE, IF before < 1 THEN MINUS ELSE PLUS>>
                 \o Exponent(UIntToString(IF before < 1 THEN 1 - before ELSE before - 1))
          [] before \in -3..17 /\ r[3] >= 0 -> digits \o Repeat(ZERO, r[3])
          [] before \in 1..17 /\ r[3] < 0 ->
               SubSeq(digits, 1, before) \o <<DOT>> \o SubSeq(digits, before + 1, Len(digits))
          [] before \in -3..0 /\ r[3] < 0 ->
               <<ZERO, DOT>> \o Repeat(ZERO, -before) \o digits
      Shown(digits) == Printed(digits, Len(digits) + r[3])
  IN IF r[2] < 0 THEN <<MINUS>> \o Shown(UIntToString(-r[2])) ELSE Shown(UIntToString(r[2]))

\* Mutation of RealToString: what "%.17g" prints is left as it is.
RealWithoutPoint(r, specials) ==
  IF r[1] = "finite" THEN PrintedG(r) ELSE Word.null

\* valueToString of a double: a text without point and exponent gets ".0", so
\* that it is read as a double again.
RealToString(r, specials) ==
  LET Pointed(printed) ==
        IF \E i \in DOMAIN printed : printed[i] \in {DOT, SmallE}
        THEN printed ELSE printed \o <<DOT, ZERO>>
  IN CASE r[1] = "finite" -> Pointed(PrintedG(r))
       [] r[1] = "NaN" -> IF specials THEN Word.NaN ELSE Word.null
       [] r[1] \in {"Infinity", "-Infinity"} ->
            (IF r[1] = "-Infinity" THEN <<MINUS>> ELSE <<>>) \o
            IF specials THEN Word.Infinity
            ELSE <<49, SmallE, PLUS>> \o Repeat(57, 4)           \* 1e+9999

-----------------------------------------------------------------------------
\* A byte with the letter that stands for it after a backslash.
Escapes == { <<QUOTE, QUOTE>>, <<BACKSLASH, BACKSLASH>>,
             <<BACKSPACE, SmallB>>, <<FORMFEED, SmallF>>, <<LF, SmallN>>,
             <<CR, SmallR>>, <<TAB, SmallT>> }

HexDigit(n) == IF n < 10 THEN ZERO + n ELSE 55 + n

\* A byte of a quoted string: control characters are written \u00XX.
Escaped(byte) ==
  CASE \E e \in Escapes : e[1] = byte ->
         <<BACKSLASH, (CHOOSE e \in Escapes : e[1] = byte)[2]>>
    [] byte \in 0..31 /\ \A e \in Escapes : e[1] # byte ->
         <<BACKSLASH, SmallU, ZERO, ZERO, HexDigit(byte \div 16), HexDigit(byte % 16)>>
    [] OTHER -> <<byte>>

\* Is there anything to escape: containsControlCharacter0, and strnpbrk as it is
\* called.
ContainsControlCharacter(s) == \E i \in DOMAIN s : s[i] \in 0..31
ContainsEscape(s) == \E i \in DOMAIN s : \E e \in Escapes : e[1] = s[i]

\* valueToQuotedStringN: the bytes of a string whose length is known.
QuotedN(s) ==
  LET bytes == IF ContainsEscape(s) \/ ContainsControlCharacter(s)
               THEN FlattenSeq([i \in DOMAIN s |-> Escaped(s[i])]) ELSE s
  IN <<QUOTE>> \o bytes \o <<QUOTE>>

\* A C string: its first NUL ends it.
CString(s) ==
  LET nul == SelectInSeq(s, LAMBDA byte : byte = NUL)
  IN IF nul = 0 THEN s ELSE SubSeq(s, 1, nul - 1)

\* valueToQuotedString: the bytes of a C string.
QuotedC(s) == QuotedN(CString(s))
=============================================================================
