------------------------------ MODULE JsonLexer ------------------------------
(***************************************************************************)
(* The tokens of json_reader.cpp.  A place in a document is the number of  *)
(* bytes before it.  Reader and OurReader read the same tokens except for  *)
(* those a feature of OurReader adds: "our" says whose token it is.        *)
(***************************************************************************)
EXTENDS JsonText

\* getNextChar: the byte after a place, 0 at the end, and the place after it.
Byte(doc, at) == IF at < Len(doc) THEN doc[at + 1] ELSE NUL
After(doc, at) == IF at < Len(doc) THEN at + 1 ELSE at

\* The first place from at on whose byte fulfils the test, or the end.
Until(doc, at, Test(_)) ==
  LET found == SelectInSubSeq(doc, at + 1, Len(doc), Test)
  IN IF found = 0 THEN Len(doc) ELSE found - 1

Blank == {SPACE, TAB, CR, LF}

\* skipSpaces
SkipSpaces(doc, at) == Until(doc, at, LAMBDA byte : byte \notin Blank)

\* match: does the word stand here?
Matches(doc, at, word) ==
  at + Len(word) <= Len(doc) /\ SubSeq(doc, at + 1, at + Len(word)) = word

\* containsNewLine
ContainsNewLine(doc, from, to) == \E i \in from + 1 .. to : doc[i] \in {LF, CR}

\* normalizeEOL: every end of a line is one line feed.
NormalizeEOL(s) ==
  FlattenSeq([i \in DOMAIN s |->
                CASE s[i] = CR -> <<LF>>
                  [] s[i] = LF /\ i > 1 /\ s[i - 1] = CR -> <<>>
                  [] OTHER -> <<s[i]>>])

DigitsEnd(doc, at) == Until(doc, at, LAMBDA byte : byte \notin Digits)

\* readNumber, after the first byte: digits, a fraction, an exponent, each of
\* which may be missing or without digits.
FractionEnd(doc, at) == IF Byte(doc, at) = DOT THEN DigitsEnd(doc, at + 1) ELSE at
ExponentEnd(doc, at) ==
  IF Byte(doc, at) \notin {SmallE, 69} THEN at
  ELSE DigitsEnd(doc, at + IF Byte(doc, at + 1) \in {PLUS, MINUS} THEN 2 ELSE 1)
NumberEnd(doc, at) == ExponentEnd(doc, FractionEnd(doc, DigitsEnd(doc, at)))

\* readString, after the opening quote: the place after the closing one, 0 when
\* there is none.
RECURSIVE StringEnd(_, _, _)
StringEnd(doc, at, quote) ==
  CASE at >= Len(doc)              -> 0
    [] Byte(doc, at) = quote       -> at + 1
    [] Byte(doc, at) = BACKSLASH -> StringEnd(doc, at + 2, quote)
    [] OTHER                       -> StringEnd(doc, at + 1, quote)

\* readStringSingleQuote of OurReader
SingleQuoteStringEnd(doc, at) == StringEnd(doc, at, APOSTROPHE)

\* readCStyleComment, after the opening: the place after it and whether it is
\* one.  A document that ends in a slash closes every comment.
CStyleComment(doc, at) ==
  LET closing == {p \in at + 1 .. Len(doc) - 1 : doc[p] = STAR /\ doc[p + 1] = SLASH}
  IN IF closing # {} THEN [end |-> Min(closing) + 1, ok |-> TRUE]
     ELSE [end |-> Len(doc), ok |-> at < Len(doc) /\ doc[Len(doc)] = SLASH]

\* readCppStyleComment: up to and with the end of the line.
CppStyleCommentEnd(doc, at) ==
  LET line == Until(doc, at, LAMBDA byte : byte \in {LF, CR})
  IN IF Byte(doc, line) = CR /\ Byte(doc, line + 1) = LF THEN line + 2 ELSE After(doc, line)

\* readComment, after its first byte.
Comment(doc, at) ==
  CASE Byte(doc, at) = STAR  -> CStyleComment(doc, at + 1)
    [] Byte(doc, at) = SLASH -> [end |-> CppStyleCommentEnd(doc, at + 1), ok |-> TRUE]
    [] OTHER                    -> [end |-> After(doc, at), ok |-> FALSE]

-----------------------------------------------------------------------------
Signs == { <<BEGIN, "objectBegin">>, <<END, "objectEnd">>, <<OPEN, "arrayBegin">>,
           <<CLOSE, "arrayEnd">>, <<COMMA, "arraySeparator">>,
           <<COLON, "memberSeparator">>, <<NUL, "endOfStream">> }

TokenAt(type, start, end) == [type |-> type, start |-> start, end |-> end]

\* A token of the given word, an error after its first byte if another stands here.
WordToken(doc, start, type, word) ==
  IF Matches(doc, start, word) THEN TokenAt(type, start, start + Len(word))
  ELSE TokenAt("error", start, start + 1)

\* A string up to the given end.
StringToken(doc, start, end) ==
  IF end = 0 THEN TokenAt("error", start, Len(doc)) ELSE TokenAt("string", start, end)

CommentToken(doc, start) ==
  LET Taken(comment) == TokenAt(IF comment.ok THEN "comment" ELSE "error", start, comment.end)
  IN Taken(Comment(doc, start + 1))

\* Reader::readToken without what a comment does, behind the blanks.
ReaderToken(doc, start) ==
  LET byte == Byte(doc, start)
  IN CASE \E s \in Signs : s[1] = byte ->
            TokenAt((CHOOSE s \in Signs : s[1] = byte)[2], start, After(doc, start))
       [] byte = QUOTE -> StringToken(doc, start, StringEnd(doc, start + 1, QUOTE))
       [] byte = SLASH -> CommentToken(doc, start)
       [] byte \in Digits \cup {MINUS} -> TokenAt("number", start, NumberEnd(doc, start + 1))
       [] byte = SmallT -> WordToken(doc, start, "true", Word.true)
       [] byte = SmallF -> WordToken(doc, start, "false", Word.false)
       [] byte = SmallN -> WordToken(doc, start, "null", Word.null)
       [] OTHER -> TokenAt("error", start, start + 1)

\* OurReader::readNumber: it looks for infinity after a sign, and passes over its
\* first letter before the rest of the word is matched.
OurSignedToken(doc, start, features) ==
  CASE Byte(doc, start + 1) # Word.Infinity[1] -> TokenAt("number", start, NumberEnd(doc, start + 1))
    [] /\ Byte(doc, start + 1) = Word.Infinity[1]
       /\ features.allowSpecialFloats /\ Matches(doc, start + 2, Tail(Word.Infinity)) ->
         TokenAt("negInf", start, start + 1 + Len(Word.Infinity))
    [] OTHER -> TokenAt("error", start, start + 2)

\* OurReader::readToken: an apostrophe that opens no string is taken for the
\* start of a comment.
OurToken(doc, start, features) ==
  LET byte == Byte(doc, start)
  IN CASE byte = APOSTROPHE ->
            IF features.allowSingleQuotes THEN StringToken(doc, start, SingleQuoteStringEnd(doc, start + 1))
            ELSE CommentToken(doc, start)
       [] byte = MINUS -> OurSignedToken(doc, start, features)
       [] byte = Word.NaN[1] /\ features.allowSpecialFloats ->
            WordToken(doc, start, "NaN", Word.NaN)
       [] byte = Word.Infinity[1] /\ features.allowSpecialFloats ->
            WordToken(doc, start, "posInf", Word.Infinity)
       [] OTHER -> ReaderToken(doc, start)

-----------------------------------------------------------------------------
\* What a hexadecimal digit stands for.
HexValue(byte) ==
  CASE byte \in Digits -> byte - ZERO
    [] byte \in 97..102 -> byte - 87
    [] byte \in 65..70 -> byte - 55

\* decodeUnicodeEscapeSequence: four hexadecimal digits, -1 if they are not.
UnicodeEscape(doc, at, end) ==
  IF /\ end - at >= 4
     /\ \A i \in at + 1 .. at + 4 : doc[i] \in Digits \cup 97..102 \cup 65..70
  THEN FoldLeft(LAMBDA value, byte : value * 16 + HexValue(byte), 0, SubSeq(doc, at + 1, at + 4))
  ELSE -1

\* decodeUnicodeCodePoint: the code point, -1 for none, and the place after it;
\* the second half of a pair may be any escape.
UnicodeCodePoint(doc, at, end) ==
  LET first == UnicodeEscape(doc, at, end)
      second == UnicodeEscape(doc, at + 6, end)
  IN IF first \notin 55296..56319 THEN [cp |-> first, at |-> at + 4]
     ELSE [cp |-> IF /\ end - at >= 10
                     /\ Matches(doc, at + 4, <<BACKSLASH, SmallU>>)
                     /\ second # -1
                  THEN 65536 + ((first % 1024) * 1024) + (second % 1024) ELSE -1,
           at |-> at + 10]

Undecoded == [ok |-> FALSE, bytes |-> <<>>]

\* decodeString between the quotes: escapes are replaced, a quote ends it.
RECURSIVE DecodedString(_, _, _)
DecodedString(doc, at, end) ==
  LET escape == Byte(doc, at + 1)
      unicode == UnicodeCodePoint(doc, at + 2, end)
      Then(bytes, next) ==
        LET rest == DecodedString(doc, next, end)
        IN IF rest.ok THEN [ok |-> TRUE, bytes |-> bytes \o rest.bytes] ELSE Undecoded
  IN CASE at = end \/ Byte(doc, at) = QUOTE -> [ok |-> TRUE, bytes |-> <<>>]
       [] at < end /\ Byte(doc, at) \notin {QUOTE, BACKSLASH} ->
            Then(<<Byte(doc, at)>>, at + 1)
       [] at < end /\ Byte(doc, at) = BACKSLASH ->
            CASE at + 1 = end -> Undecoded
              [] at + 1 < end /\ escape = SLASH -> Then(<<SLASH>>, at + 2)
              [] at + 1 < end /\ \E e \in Escapes : e[2] = escape ->
                   Then(<<(CHOOSE e \in Escapes : e[2] = escape)[1]>>, at + 2)
              [] at + 1 < end /\ escape = SmallU ->
                   IF unicode.cp = -1 THEN Undecoded
                   ELSE Then(CodePointToUTF8(unicode.cp), unicode.at)
              [] OTHER -> Undecoded
=============================================================================
