----------------------------- MODULE JsonReader -----------------------------
(***************************************************************************)
(* Reader (json_reader.cpp): a recursive descent over the tokens of a      *)
(* document.  OurReader is declared in the source as a copy of it, with    *)
(* other tokens, another reading of doubles and of numbers as names: what  *)
(* differs is a parameter, and JsonReaders instantiates this module twice. *)
(*                                                                         *)
(* A reader r has the document, its features and whether it collects       *)
(* comments; the place it is at and the last token; the value it has read; *)
(* its status (an exception ends in "thrown"); the errors, by the places   *)
(* of their tokens; commentsBefore_, lastValue_ (by its path) and          *)
(* lastValueEnd_; and the comments and offsets of all values by path.      *)
(***************************************************************************)
EXTENDS JsonValue, JsonLexer

CONSTANTS Token(_, _, _),     \* readToken: the token at a place of a document
          DoubleOf(_),        \* decodeDouble: a text as a double, if it is one
          NumberName(_),      \* the name of a member that is given as a number
          StackLimit          \* how deep values may be nested

NoValue == [path |-> <<>>, end |-> -1]

\* A reader at the start of a document, with the token behind the blanks at every
\* place of it.
Start(doc, features, collect) ==
  [doc |-> doc, tokens |-> [at \in 0 .. Len(doc) |-> Token(doc, SkipSpaces(doc, at), features)],
   features |-> features, collect |-> collect /\ features.allowComments,
   at |-> 0, tok |-> TokenAt("endOfStream", 0, 0), v |-> Null, status |-> "ok", errors |-> <<>>,
   before |-> <<>>, last |-> NoValue, comments |-> NoEntries, offsets |-> NoEntries]

Throw(r) == [r EXCEPT !.status = "thrown"]

\* addError; an exception stays one.
AddError(r, start, end) ==
  IF r.status = "thrown" THEN r
  ELSE [r EXCEPT !.status = "failed", !.errors = Append(@, <<start, end>>)]

\* CommentInfo::setComment: a comment must start with a slash.
IsComment(text) == text = <<>> \/ text[1] \in {NUL, SLASH}

\* setComment: without its last end of line; getComment returns it as a C string.
SetComment(r, path, placement, text) ==
  LET kept == IF text # <<>> /\ Last(text) = LF THEN Front(text) ELSE text
  IN IF ~IsComment(kept) THEN Throw(r)
     ELSE [r EXCEPT !.comments = (<<path, placement>> :> CString(kept)) @@ @]

\* addComment, and in which place readComment puts it: after the last value if
\* both are on one line, else before the next value.
AddComment(r) ==
  LET t == r.tok
      text == NormalizeEOL(SubSeq(r.doc, t.start + 1, t.end))
      sameLine == /\ r.last # NoValue
                  /\ ~ContainsNewLine(r.doc, r.last.end, t.start)
                  /\ \/ Byte(r.doc, t.start + 1) # STAR
                     \/ ~ContainsNewLine(r.doc, t.start, t.end)
  IN IF sameLine THEN SetComment(r, r.last.path, "afterOnSameLine", text)
     ELSE [r EXCEPT !.before = @ \o text]

\* readToken
Accept(r, token) ==
  LET moved == [r EXCEPT !.tok = token, !.at = token.end]
  IN IF token.type = "comment" /\ r.collect THEN AddComment(moved) ELSE moved
ReadToken(r) == Accept(r, r.tokens[r.at])

\* The loops over comments of readObject and readArray.
RECURSIVE PastComments(_)
PastComments(r) == IF r.tok.type = "comment" THEN PastComments(ReadToken(r)) ELSE r

\* skipCommentTokens
SkipCommentTokens(r) ==
  IF r.features.allowComments THEN PastComments(ReadToken(r)) ELSE ReadToken(r)

\* recoverFromError: tokens are skipped up to one of the type.
RECURSIVE RecoverFromError(_, _)
RecoverFromError(r, type) ==
  LET From(next) ==
        IF next.tok.type \in {type, "endOfStream"} THEN next ELSE RecoverFromError(next, type)
  IN From(ReadToken(r))

\* An error at the last token.
AddErrorAt(r) == AddError(r, r.tok.start, r.tok.end)

\* Mutation of AddErrorAndRecover: the error is skipped and forgotten.
SkipTo(r, type) == RecoverFromError(r, type)

\* addErrorAndRecover
AddErrorAndRecover(r, type) == RecoverFromError(AddErrorAt(r), type)

-----------------------------------------------------------------------------
\* decodeNumber: an integer where one of the large types can hold it, else a
\* double.
DecodeNumber(r) ==
  LET text == SubSeq(r.doc, r.tok.start + 1, r.tok.end)
      negative == text[1] = MINUS
      digits == IF negative THEN Tail(text) ELSE text
      AsInt(n) == [r EXCEPT !.v = CASE negative                 -> Of("int", -n)
                                    [] ~negative /\ n <= MaxInt -> Of("int", n)
                                    [] ~negative /\ n > MaxInt  -> Of("uint", n)]
      Decoded(n, double) ==
        CASE /\ \A i \in DOMAIN digits : digits[i] \in Digits
             /\ n <= IF negative THEN -MinLargestInt ELSE MaxLargestUInt -> AsInt(n)
          [] OTHER -> IF double.ok THEN [r EXCEPT !.v = Of("real", double.is)] ELSE AddErrorAt(r)
  IN Decoded(FoldLeft(LAMBDA n, byte : n * 10 + (byte - ZERO), 0, digits), DoubleOf(text))

\* decodeString of the last token.
DecodeString(r) ==
  LET Decoded(string) == IF string.ok THEN [r EXCEPT !.v = Of("string", string.bytes)] ELSE AddErrorAt(r)
  IN Decoded(DecodedString(r.doc, r.tok.start + 1, r.tok.end - 1))

Scalars == [true |-> Of("boolean", TRUE), false |-> Of("boolean", FALSE), null |-> Null,
            NaN |-> Of("real", Special("NaN")), posInf |-> Of("real", Special("Infinity")),
            negInf |-> Of("real", Special("-Infinity"))]

\* The value of a path is read, up to this place: its offsets, and what a comment
\* on this line belongs to.
Read(r, path, start) ==
  [r EXCEPT !.offsets = (path :> <<start, r.at>>) @@ @,
            !.last = IF r.collect THEN [path |-> path, end |-> r.at] ELSE @]

\* The value read now takes the place of what its path held before.
Emptied(r, path) ==
  LET Stays(other) == ~IsStrictPrefix(path, other)
  IN [r EXCEPT !.offsets = RestrictDomain(@, Stays),
               !.comments = RestrictDomain(@, LAMBDA key : Stays(key[1]))]

RECURSIVE ReadValue(_, _), ReadMembers(_, _, _, _), ReadElements(_, _, _)

\* readValue: the next value, for the given path.  The comments before it are
\* its own.
Commented(r, path) ==
  IF r.collect /\ r.before # <<>>
  THEN [SetComment(Emptied(r, path), path, "before", r.before) EXCEPT !.before = <<>>]
  ELSE Emptied(r, path)
ValueAt(r, path) ==
  LET type == r.tok.type
      Done(value) == Read(value, path, r.tok.start)
  IN CASE type = "objectBegin"    -> Done(ReadMembers(r, path, Initial("object"), <<>>))
       [] type = "arrayBegin"     -> Done(ReadElements(r, path, Initial("array")))
       [] type = "number"         -> Done(DecodeNumber(r))
       [] type = "string"         -> Done(DecodeString(r))
       [] type \in DOMAIN Scalars -> Done([r EXCEPT !.v = Scalars[type]])
       [] type \in {"arraySeparator", "objectEnd", "arrayEnd"}
          /\ r.features.allowDroppedNullPlaceholders ->
            Read([r EXCEPT !.v = Null, !.at = @ - 1], path, r.at - 2)
       [] OTHER -> AddErrorAt(r)
ReadValue(r, path) ==
  IF Len(path) >= StackLimit THEN Throw(r)
  ELSE ValueAt(Commented(SkipCommentTokens(r), path), path)

\* The loop of readObject, from its end: behind a member, at the comma, at the
\* colon, at the name.  The brace ends the object where no comma was, or an empty
\* name before it.
AfterComma(r, path, object, name) ==
  IF r.tok.type = "objectEnd" THEN [r EXCEPT !.v = object] ELSE ReadMembers(r, path, object, name)
AtComma(r, path, object, name) ==
  IF r.tok.type \notin {"objectEnd", "arraySeparator", "comment"}
  THEN AddErrorAndRecover(r, "objectEnd")
  ELSE AfterComma(PastComments(r), path, object, name)
AfterMember(r, path, object, name) ==
  IF r.status # "ok" THEN RecoverFromError(r, "objectEnd")
  ELSE AtComma(ReadToken(r), path, PutMember(object, name, r.v), name)
AtColon(r, path, object, name, token) ==
  CASE r.tok.type # "memberSeparator" -> AddErrorAndRecover(r, "objectEnd")
    [] r.tok.type = "memberSeparator" /\ r.features.rejectDupKeys /\ Has(object, name) ->
         RecoverFromError(AddError(r, token.start, token.end), "objectEnd")
    [] OTHER -> AfterMember(ReadValue(r, Append(path, <<"key", name>>)), path, object, name)
AfterName(r, path, object) ==
  IF r.status # "ok" THEN RecoverFromError(r, "objectEnd")
  ELSE AtColon(ReadToken(r), path, object, Content(r.v), r.tok)
AtName(r, path, object, prev) ==
  CASE r.tok.type = "objectEnd" /\ prev = <<>> -> [r EXCEPT !.v = object]
    [] r.tok.type = "string" -> AfterName(DecodeString(r), path, object)
    [] r.tok.type = "number" /\ r.features.allowNumericKeys ->
         AfterName(NumberName(DecodeNumber(r)), path, object)
    [] OTHER -> AddErrorAndRecover(r, "objectEnd")
ReadMembers(r, path, object, prev) == AtName(PastComments(ReadToken(r)), path, object, prev)

\* The loop of readArray, from its end.
AfterSeparator(r, path, array) ==
  CASE r.tok.type = "arrayEnd"       -> [r EXCEPT !.v = array]
    [] r.tok.type = "arraySeparator" -> ReadElements(r, path, array)
    [] OTHER                         -> AddErrorAndRecover(r, "arrayEnd")
AfterElement(r, path, array) ==
  IF r.status # "ok" THEN RecoverFromError(r, "arrayEnd")
  ELSE AfterSeparator(PastComments(ReadToken(r)), path, Appended(array, r.v))
ReadElements(r, path, array) ==
  IF Size(array) = 0 /\ Byte(r.doc, SkipSpaces(r.doc, r.at)) = CLOSE
  THEN [ReadToken(r) EXCEPT !.v = array]
  ELSE AfterElement(ReadValue(r, Append(path, <<"index", Size(array)>>)), path, array)

\* parse: a value; then, if asked for, nothing more, and a container.
Rooted(r) ==
  IF r.features.strictRoot /\ ~IsContainer(r.v) THEN AddError(r, 0, Len(r.doc)) ELSE r
Ended(r) ==
  IF /\ r.features.failIfExtra
     /\ r.features.strictRoot \/ r.tok.type # "error"
     /\ r.tok.type # "endOfStream"
  THEN AddErrorAt(r)
  ELSE Rooted(IF r.collect /\ r.before # <<>> THEN SetComment(r, <<>>, "after", r.before) ELSE r)
Finished(r) == IF r.status = "thrown" THEN r ELSE Ended(SkipCommentTokens(r))
Parse(doc, features, collect) == Finished(ReadValue(Start(doc, features, collect), <<>>))

-----------------------------------------------------------------------------
\* good and getStructuredErrors: the errors of a reader, by their offsets.
Good(r) == r.errors = <<>>
StructuredErrors(r) ==
  [i \in DOMAIN r.errors |-> [start |-> r.errors[i][1], limit |-> r.errors[i][2]]]

\* pushError, with the value of a path, and with that of another one besides.
\* The first counts the limit from the end of the document.
Inside(r, path) == \A offset \in Range(r.offsets[path]) : offset <= Len(r.doc)
PushError(r, path) ==
  IF ~Inside(r, path) THEN r
  ELSE [r EXCEPT !.errors = Append(@, <<r.offsets[path][1], Len(r.doc) + r.offsets[path][2]>>)]
PushErrorWithExtra(r, path, extra) ==
  IF ~Inside(r, path) \/ r.offsets[extra][2] > Len(r.doc) THEN r
  ELSE [r EXCEPT !.errors = Append(@, r.offsets[path])]
=============================================================================
