---------------------------- MODULE JsonWriters -----------------------------
(***************************************************************************)
(* The writers of json_writer.cpp.  FastWriter writes a value on one line  *)
(* and without its comments.  StyledWriter, StyledStreamWriter and         *)
(* BuiltStyledStreamWriter, the one behind StreamWriterBuilder, are three  *)
(* editions of one algorithm: a record "style" says which one writes and   *)
(* how it is set up.  The comments of a value are keyed by its path and    *)
(* their placement, as the readers leave them.                             *)
(***************************************************************************)
EXTENDS JsonValue

CONSTANT RightMargin          \* rightMargin_

ASSUME MarginAssumption == RightMargin \in Nat

\* The three editions as they are constructed, and newStreamWriter with its
\* settings; none of them but FastWriter and StyledWriter ends the text itself.
StyledWriter ==
  [edition |-> "Styled", indentation |-> Repeat(SPACE, 3), comments |-> TRUE,
   colon |-> <<SPACE, COLON, SPACE>>, null |-> Word.null, specials |-> FALSE]
StyledStreamWriter(indentation) ==
  [StyledWriter EXCEPT !.edition = "StyledStream", !.indentation = indentation]
NewStreamWriter(indentation, comments, yaml, dropNull, specials) ==
  [edition |-> "Built", indentation |-> indentation, comments |-> comments,
   colon |-> CASE yaml -> <<COLON, SPACE>>
               [] ~yaml /\ indentation = <<>> -> <<COLON>>
               [] ~yaml /\ indentation # <<>> -> <<SPACE, COLON, SPACE>>,
   null |-> IF dropNull THEN <<>> ELSE Word.null, specials |-> specials]

\* StreamWriterBuilder::setDefaults
DefaultStreamWriter == NewStreamWriter(<<TAB>>, TRUE, FALSE, FALSE, FALSE)

\* The text of a value that is no container, or an empty one.
PlainText(v, null, specials) ==
  CASE TypeOf(v) = "null"            -> null
    [] TypeOf(v) \in {"int", "uint"} -> IntToString(Content(v))
    [] TypeOf(v) = "real"            -> RealToString(Content(v), specials)
    [] TypeOf(v) = "string"          -> QuotedN(Content(v))
    [] TypeOf(v) = "boolean"         -> IF Content(v) THEN Word.true ELSE Word.false
    [] TypeOf(v) = "array"           -> <<OPEN, CLOSE>>
    [] TypeOf(v) = "object"          -> <<BEGIN, END>>

\* What a container shows: all elements of an array up to its last one, the
\* members of an object in the order of their names; and the path to one.
Shown(v) == IF TypeOf(v) = "array" THEN [i \in 1..Size(v) |-> i - 1] ELSE MemberNames(v)
Below(path, v, key) == Append(path, <<IF TypeOf(v) = "array" THEN "index" ELSE "key", key>>)

Joined(texts, separator) ==
  FlattenSeq([i \in DOMAIN texts |-> (IF i > 1 THEN separator ELSE <<>>) \o texts[i]])

-----------------------------------------------------------------------------
\* FastWriter::writeValue
RECURSIVE FastValue(_, _, _)
FastValue(v, yaml, null) ==
  LET Text(key) == FastValue(At(v, key), yaml, null)
      colon == IF yaml THEN <<COLON, SPACE>> ELSE <<COLON>>
      texts == [i \in DOMAIN Shown(v) |->
                  LET key == Shown(v)[i]
                  IN IF TypeOf(v) = "array" THEN Text(key) ELSE QuotedN(key) \o colon \o Text(key)]
  IN CASE TypeOf(v) = "array"  -> <<OPEN>> \o Joined(texts, <<COMMA>>) \o <<CLOSE>>
       [] TypeOf(v) = "object" -> <<BEGIN>> \o Joined(texts, <<COMMA>>) \o <<END>>
       [] OTHER                -> PlainText(v, null, FALSE)

\* FastWriter::write
FastText(v, yaml, dropNull) ==
  FastValue(v, yaml, IF dropNull THEN <<>> ELSE Word.null) \o <<LF>>

-----------------------------------------------------------------------------
\* A styled writer at work: what it has written, indentString_ and indented_,
\* which StyledWriter reads off the last byte it wrote.
Put(w, bytes) == [w EXCEPT !.text = @ \o bytes]
Indent(style, w) == [w EXCEPT !.indent = @ \o style.indentation]
Unindent(style, w) == [w EXCEPT !.indent = SubSeq(@, 1, Len(@) - Len(style.indentation))]

\* StyledWriter::writeIndent: a space is taken for an indentation.
StyledWriteIndent(w) ==
  CASE w.text = <<>>                           -> Put(w, w.indent)
    [] w.text # <<>> /\ Last(w.text) = SPACE -> w
    [] w.text # <<>> /\ Last(w.text) = LF    -> Put(w, w.indent)
    [] OTHER                                   -> Put(w, <<LF>> \o w.indent)

\* StyledStreamWriter::writeIndent
StreamWriteIndent(w) == Put(w, <<LF>> \o w.indent)

\* BuiltStyledStreamWriter::writeIndent: without an indentation there are no
\* ends of lines either.
BuiltWriteIndent(style, w) ==
  IF style.indentation = <<>> THEN w ELSE Put(w, <<LF>> \o w.indent)

WriteIndent(style, w) ==
  CASE style.edition = "Styled"       -> StyledWriteIndent(w)
    [] style.edition = "StyledStream" -> StreamWriteIndent(w)
    [] style.edition = "Built"        -> BuiltWriteIndent(style, w)

\* writeIndent where the callers ask for it.
IfNotIndented(style, w) ==
  IF style.edition # "Styled" /\ w.indented THEN w ELSE WriteIndent(style, w)

\* writeWithIndent
WriteWithIndent(style, w, bytes) ==
  [Put(IfNotIndented(style, w), bytes) EXCEPT !.indented = FALSE]

\* hasComment and getComment
HasComment(comments, path, placement) == <<path, placement>> \in DOMAIN comments
Placements == {"before", "afterOnSameLine", "after"}
HasCommentForValue(comments, path) == \E p \in Placements : HasComment(comments, path, p)

\* Mutation of WriteCommentBefore: no end of line behind the comment.
WriteCommentBeforeInline(style, w, comments, path) ==
  IF style.comments /\ HasComment(comments, path, "before")
  THEN Put(IfNotIndented(style, w), comments[<<path, "before">>]) ELSE w

\* The lines of a comment, those after the first indented if they begin one.
CommentLines(w, comment) ==
  FlattenSeq([i \in DOMAIN comment |->
                IF i < Len(comment) /\ comment[i] = LF /\ comment[i + 1] = SLASH
                THEN <<LF>> \o w.indent ELSE <<comment[i]>>])

\* writeCommentBeforeValue of StyledWriter, and of the stream writers, which
\* leave the end of the line to the indentation of what follows.
StyledCommentBefore(w, comment) ==
  Put(Put(StyledWriteIndent(Put(w, <<LF>>)), CommentLines(w, comment)), <<LF>>)
StreamCommentBefore(style, w, comment) ==
  [Put(IfNotIndented(style, w), CommentLines(w, comment)) EXCEPT !.indented = FALSE]

WriteCommentBefore(style, w, comments, path) ==
  LET comment == comments[<<path, "before">>]
  IN CASE ~(style.comments /\ HasComment(comments, path, "before")) -> w
       [] OTHER -> IF style.edition = "Styled" THEN StyledCommentBefore(w, comment)
                   ELSE StreamCommentBefore(style, w, comment)

\* What writeCommentAfterValueOnSameLine of each edition makes of the comment
\* after a value.
StyledCommentAfter(w, comment) == Put(w, <<LF>> \o comment \o <<LF>>)
StreamCommentAfter(style, w, comment) == Put(WriteIndent(style, w), comment)

\* writeCommentAfterValueOnSameLine: the comment on the same line first.
WriteCommentAfter(style, w, comments, path) ==
  LET has(placement) == style.comments /\ HasComment(comments, path, placement)
      same == IF has("afterOnSameLine")
              THEN Put(w, <<SPACE>> \o comments[<<path, "afterOnSameLine">>]) ELSE w
      after == comments[<<path, "after">>]
  IN [(CASE ~has("after") -> same
         [] has("after") /\ style.edition = "Styled" -> StyledCommentAfter(same, after)
         [] has("after") /\ style.edition # "Styled" -> StreamCommentAfter(style, same, after))
      EXCEPT !.indented = @ /\ style.edition = "Built"]

\* The elements of an array as texts of their own (childValues_).
ElementTexts(style, v) ==
  [i \in 1..Size(v) |-> PlainText(At(v, i - 1), style.null, style.specials)]

\* isMultineArray: too long for a line, or with containers or comments inside.
IsMultilineArray(style, v, comments, path) ==
  \/ style.edition = "Built" /\ style.comments
  \/ Size(v) * 3 >= RightMargin
  \/ \E i \in 0 .. Size(v) - 1 : \/ IsContainer(At(v, i)) /\ Size(At(v, i)) > 0
                               \/ HasCommentForValue(comments, Below(path, v, i))
  \/ 4 + (Size(v) - 1) * 2 + Len(FlattenSeq(ElementTexts(style, v))) >= RightMargin

\* An array on a single line.
SingleLine(style, v) ==
  LET space == IF style.edition = "Built" /\ style.indentation = <<>> THEN <<>> ELSE <<SPACE>>
  IN <<OPEN>> \o space \o Joined(ElementTexts(style, v), <<COMMA>> \o space) \o space \o <<CLOSE>>

\* writeValue and writeArrayValue: entry by entry, each between its comments.
RECURSIVE WriteValue(_, _, _, _, _)
WriteValue(style, w, v, comments, path) ==
  LET array == TypeOf(v) = "array"
      shown == Shown(v)
      Quoted(name) == IF style.edition = "Built" THEN QuotedN(name) ELSE QuotedC(name)
      Named(x, key) == IF array THEN [IfNotIndented(style, x) EXCEPT !.indented = TRUE]
                       ELSE Put(WriteWithIndent(style, x, Quoted(key)), style.colon)
      Entry(x, i) ==
        LET below == Below(path, v, shown[i])
            named == Named(WriteCommentBefore(style, x, comments, below), shown[i])
            Closed(value) == IF array THEN [value EXCEPT !.indented = FALSE] ELSE value
            Parted(value) == IF i < Len(shown) THEN Put(value, <<COMMA>>) ELSE value
        IN WriteCommentAfter(
             style, Parted(Closed(WriteValue(style, named, At(v, shown[i]), comments, below))),
             comments, below)
      opened == WriteWithIndent(style, w, <<IF array THEN OPEN ELSE BEGIN>>)
      entries == FoldLeft(Entry, Indent(style, opened), [i \in DOMAIN shown |-> i])
  IN CASE ~IsContainer(v) \/ Size(v) = 0 -> Put(w, PlainText(v, style.null, style.specials))
       [] array /\ Size(v) > 0 /\ ~IsMultilineArray(style, v, comments, path) ->
            Put(w, SingleLine(style, v))
       [] OTHER -> WriteWithIndent(style, Unindent(style, entries),
                                   <<IF array THEN CLOSE ELSE END>>)

\* write
StyledText(style, v, comments) ==
  LET start == [text |-> <<>>, indent |-> <<>>, indented |-> TRUE]
      before == WriteCommentBefore(style, start, comments, <<>>)
      begun == IF style.edition = "Styled" THEN before
               ELSE [IfNotIndented(style, before) EXCEPT !.indented = TRUE]
      value == WriteValue(style, begun, v, comments, <<>>)
  IN WriteCommentAfter(style, value, comments, <<>>).text \o
       (IF style.edition = "Built" THEN <<>> ELSE <<LF>>)

\* What each of the three makes of a value and its comments.
StyledWriterText(v, comments) == StyledText(StyledWriter, v, comments)
StyledStreamWriterText(indentation, v, comments) ==
  StyledText(StyledStreamWriter(indentation), v, comments)
BuiltText(built, v, comments) == StyledText(built, v, comments)
=============================================================================
