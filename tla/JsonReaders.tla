---------------------------- MODULE JsonReaders -----------------------------
(***************************************************************************)
(* The two readers of jsoncpp: the deprecated Reader, and OurReader behind *)
(* CharReaderBuilder.                                                      *)
(***************************************************************************)
EXTENDS JsonValue, JsonLexer

CONSTANT StackLimit

\* CharReaderBuilder::setDefaults; Features::all for what Reader knows of it.
Defaults == [allowComments |-> TRUE, strictRoot |-> FALSE, allowDroppedNullPlaceholders |-> FALSE,
             allowNumericKeys |-> FALSE, allowSingleQuotes |-> FALSE, failIfExtra |-> FALSE,
             rejectDupKeys |-> FALSE, allowSpecialFloats |-> FALSE]

\* Features::strictMode
StrictMode == [Defaults EXCEPT !.allowComments = FALSE, !.strictRoot = TRUE]

\* CharReaderBuilder::strictMode
OurStrictMode == [StrictMode EXCEPT !.failIfExtra = TRUE, !.rejectDupKeys = TRUE]

-----------------------------------------------------------------------------
\* A text of the form that readNumber takes, split into its parts.
Parts(text) ==
  LET DigitsIn(s) == SelectSeq(s, LAMBDA byte : byte \in Digits)
      Split(whole, fraction) ==
        [negative |-> Byte(text, 0) = MINUS,
         digits |-> DigitsIn(SubSeq(text, 1, fraction)),
         decimals |-> IF fraction = whole THEN 0 ELSE fraction - whole - 1,
         mark |-> fraction < Len(text),
         down |-> Byte(text, fraction + 1) = MINUS,
         exponent |-> DigitsIn(SubSeq(text, fraction + 1, Len(text)))]
      SplitAt(whole) == Split(whole, FractionEnd(text, whole))
  IN SplitAt(DigitsEnd(text, IF Byte(text, 0) = MINUS THEN 1 ELSE 0))

NumberOf(digits) == FoldLeft(LAMBDA n, byte : n * 10 + (byte - ZERO), 0, digits)

\* The double a text stands for; beyond the largest one it is infinity.
DoubleIn(parts) ==
  LET Signed(negative, digits) == (IF negative THEN -1 ELSE 1) * NumberOf(digits)
      Double(m, e) ==
        IF m # 0 /\ e > 308 THEN Special(IF m < 0 THEN "-Infinity" ELSE "Infinity")
        ELSE Decimal(m, e - parts.decimals)
  IN Double(Signed(parts.negative, parts.digits), Signed(parts.down, parts.exponent))

\* Reader::decodeDouble: an input stream takes the whole text, and no infinity.
StreamDouble(text) ==
  LET Taken(parts, double) ==
        IF /\ parts.digits # <<>>
           /\ parts.mark => parts.exponent # <<>>
           /\ double[1] = "finite"
        THEN Gives(double) ELSE Throws
      Streamed(parts) == Taken(parts, DoubleIn(parts))
  IN Streamed(Parts(text))

\* OurReader::decodeDouble: sscanf takes what stands before an exponent
\* without digits, and infinity for a number that is too large.
ScannedDouble(text) ==
  LET Scanned(parts) == IF parts.digits # <<>> THEN Gives(DoubleIn(parts)) ELSE Throws
  IN Scanned(Parts(text))

\* A number as a name: asCString fails for what is no string, asString does not.
ReaderName(r) == IF r.status = "ok" THEN [r EXCEPT !.status = "thrown"] ELSE r
OurName(r) == IF r.status = "ok" THEN [r EXCEPT !.v = Of("string", AsString(r.v).is)] ELSE r

PlainToken(doc, start, features) == ReaderToken(doc, start)

Reader == INSTANCE JsonReader WITH Token <- PlainToken, DoubleOf <- StreamDouble,
                                   NumberName <- ReaderName
Our == INSTANCE JsonReader WITH Token <- OurToken, DoubleOf <- ScannedDouble,
                                NumberName <- OurName

\* The functions of OurReader, which the source copies from Reader one by one.
OurReadValue(r, path) == Our!ReadValue(r, path)
OurSkipCommentTokens(r) == Our!SkipCommentTokens(r)
OurAddComment(r) == Our!AddComment(r)
OurReadObject(r, path) == Our!ReadMembers(r, path, Initial("object"), <<>>)
OurReadArray(r, path) == Our!ReadElements(r, path, Initial("array"))
OurDecodeNumber(r) == Our!DecodeNumber(r)
OurCStyleComment(doc, at) == CStyleComment(doc, at)
OurCppStyleCommentEnd(doc, at) == CppStyleCommentEnd(doc, at)
OurDecodeString(r) == Our!DecodeString(r)
OurUnicodeCodePoint(doc, at, end) == UnicodeCodePoint(doc, at, end)
OurAddErrorAndRecover(r, type) == Our!AddErrorAndRecover(r, type)
OurParse(doc, features, collect) == Our!Parse(doc, features, collect)
OurStructuredErrors(r) == Our!StructuredErrors(r)
OurPushErrorWithExtra(r, path, extra) == Our!PushErrorWithExtra(r, path, extra)
=============================================================================
