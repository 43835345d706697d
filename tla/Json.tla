-------------------------------- MODULE Json --------------------------------
(***************************************************************************)
(* A program that uses jsoncpp.  It builds a value with the operations of  *)
(* Json::Value, through a spare value that it fills in and gets back, or   *)
(* it has a document typed piece by piece.  What it has is written by      *)
(* every writer and read by both readers in the properties.                *)
(***************************************************************************)
EXTENDS JsonReaders, JsonWriters

CONSTANTS Samples,            \* values the program starts from
          Edges,              \* numbers at the limits of the types, held alone
          Names,              \* names of members
          MaxNodes,           \* values in root and spare together
          MaxSize,            \* largest size of an array
          PieceValue,         \* a document is typed of texts with their values,
          Comments,           \* of comments and of the signs of JSON,
          MaxPieces,          \* so many of them,
          Behind,             \* some of them behind one that is wrong,
          MaxWrong            \* so many of those

VARIABLES root, spare, text,
          thrown              \* did the last call fail an assertion?
vars == <<root, spare, text, thrown>>

\* The values inside a value, by their paths.
RECURSIVE Places(_)
Places(v) ==
  {<<>>} \cup
  IF ~IsContainer(v) THEN {}
  ELSE UNION {{<<Below(<<>>, v, key)[1]>> \o p : p \in Places(Content(v)[key])}
                : key \in DOMAIN Content(v)}

Init == root = Null /\ spare = Null /\ text = <<>> /\ thrown = FALSE

\* The program goes on within its bound on values, an exception or not.
Holds(newRoot, newSpare) ==
  /\ text = <<>>
  /\ Cardinality(Places(newRoot)) + Cardinality(Places(newSpare)) <= MaxNodes
  /\ root' = newRoot /\ spare' = newSpare
  /\ UNCHANGED text
Becomes(newRoot, newSpare) == Holds(newRoot, newSpare) /\ thrown' = FALSE

\* operator= of a sample, or of an edge where nothing has been built.
Hold == \E x \in Samples \cup (IF root = Null THEN Edges ELSE {}) : Becomes(root, x)

\* swap
Swap ==
  /\ spare \notin Edges
  /\ \E p \in Places(root) : Becomes(Made(root, p, spare), Resolve(root, p))

\* operator[] of an index, of a name, and append, assigned the spare value.
AssignIndex ==
  /\ spare \notin Edges
  /\ \E p \in Places(root), i \in 0 .. MaxSize - 1 :
       LET v == Resolve(root, p)
       IN TypeOf(v) \in {"null", "array"} /\ Becomes(Made(root, p, PutAt(v, i, spare)), spare)
AssignMember ==
  /\ spare \notin Edges
  /\ \E p \in Places(root), name \in Names :
       LET v == Resolve(root, p)
       IN TypeOf(v) \in {"null", "object"} /\ Becomes(Made(root, p, PutMember(v, name, spare)), spare)
Add ==
  /\ spare \notin Edges
  /\ \E p \in Places(root) :
       LET v == Resolve(root, p)
       IN /\ TypeOf(v) \in {"null", "array"} /\ Size(v) < MaxSize
          /\ Becomes(Made(root, p, Appended(v, spare)), spare)

\* resize; behind a place that nothing is stored for, the entries are erased and
\* the size is less than asked for, which fails an assertion.
ResizeArray ==
  \E p \in Places(root), n \in 0..MaxSize :
    LET v == Resolve(root, p)
    IN /\ TypeOf(v) \in {"null", "array"}
       /\ Holds(Made(root, p, Resize(v, n)), spare)
       /\ thrown' = (Size(Resize(v, n)) # n)

\* clear
ClearValue ==
  \E p \in Places(root) :
    LET v == Resolve(root, p)
    IN (v = Null \/ IsContainer(v)) /\ Becomes(Made(root, p, Clear(v)), spare)

\* removeIndex and removeMember hand the removed value over.
RemoveElement ==
  \E p \in Places(root), i \in 0 .. MaxSize - 1 :
    LET v == Resolve(root, p)
    IN /\ TypeOf(v) = "array"
       /\ Becomes(Made(root, p, RemoveIndex(v, i)), IF Has(v, i) THEN At(v, i) ELSE spare)

\* ... of an object by the bytes of a name or by a C string; the calls that return
\* it take a C string, and return null where there is none.
RemoveNamed ==
  \E p \in Places(root), name \in Names :
    LET v == Resolve(root, p)
        Removed(key, returned) == Becomes(Made(root, p, RemoveMember(v, key)), returned)
        Filled(key) == Removed(key, IF Has(v, key) THEN At(v, key) ELSE spare)
    IN /\ TypeOf(v) = "object"
       /\ Filled(name) \/ Filled(CString(name)) \/ Removed(CString(name), At(v, CString(name)))

\* What a document is typed of.
JsonSigns == {<<byte>> : byte \in {OPEN, CLOSE, BEGIN, END, COMMA, COLON}}
Pieces == JsonSigns \cup DOMAIN PieceValue \cup Comments

\* The document, and features that refuse one with more behind its value.
Doc == FlattenSeq(text)
Whole == [Defaults EXCEPT !.failIfExtra = TRUE]

\* A document is typed on while it is right or may become so, with a sign for its
\* last piece; when a piece has made it wrong before its end, up to MaxWrong pieces
\* follow, in shorter ones.
Type ==
  LET Extends(doc, r) ==
        \/ r.status = "ok"
        \/ r.status = "failed" /\ r.errors[1][1] = Len(doc)
      Continues(doc) == Extends(doc, OurParse(doc, Whole, FALSE))
      GoesOn(n) == n <= 0 \/ Continues(FlattenSeq(SubSeq(text, 1, n)))
      Typed(pieces, max) == Len(text) < max /\ \E piece \in pieces : text' = Append(text, piece)
  IN /\ root = Null /\ spare = Null
     /\ Len(text) < MaxPieces
     /\ IF GoesOn(Len(text))
        THEN Typed(Pieces, MaxPieces - 1) \/ Typed(JsonSigns, MaxPieces)
        ELSE GoesOn(Len(text) - MaxWrong) /\ Typed(Behind, MaxPieces - 1)
     /\ thrown' = FALSE /\ UNCHANGED <<root, spare>>

Next == \/ Hold \/ Swap \/ AssignIndex \/ AssignMember \/ Add \/ ResizeArray \/ ClearValue
        \/ RemoveElement \/ RemoveNamed \/ Type

Spec == Init /\ [][Next]_vars

-----------------------------------------------------------------------------
\* A value as it comes back from a text: integers by their numbers, the largest
\* ones unsigned, and every place of an array filled.
RECURSIVE AsRead(_)
AsRead(v) ==
  CASE TypeOf(v) \in {"int", "uint"} -> Of(IF Content(v) > MaxInt THEN "uint" ELSE "int", Content(v))
    [] TypeOf(v) = "array"  -> Of("array", [i \in 0 .. Size(v) - 1 |-> AsRead(At(v, i))])
    [] TypeOf(v) = "object" -> Of("object", [name \in DOMAIN Content(v) |-> AsRead(At(v, name))])
    [] OTHER -> v

Reads(reading, v) == reading.status = "ok" /\ Equal(reading.v, AsRead(v))

\* Is there an infinite number, or a name with a NUL, in a value?
Within(v, Test(_)) == \E p \in Places(v) : Test(Resolve(v, p))
Infinite(v) == Within(v, LAMBDA x : TypeOf(x) = "real" /\ Content(x)[1] # "finite")
CutNames(v) ==
  Within(v, LAMBDA x : TypeOf(x) = "object" /\ \E name \in DOMAIN Content(x) : CString(name) # name)

\* Its texts, by all writers; those that cut a name at a NUL are left out for it.
BuiltStyles == {DefaultStreamWriter, NewStreamWriter(<<>>, FALSE, FALSE, FALSE, FALSE),
                NewStreamWriter(<<SPACE>>, FALSE, TRUE, FALSE, FALSE)}
Texts(v) ==
  {FastText(v, yaml, FALSE) : yaml \in BOOLEAN} \cup
  {BuiltText(style, v, NoEntries) : style \in BuiltStyles} \cup
  IF CutNames(v) THEN {}
  ELSE {StyledWriterText(v, NoEntries), StyledStreamWriterText(<<TAB>>, v, NoEntries)}

\* What any writer makes of a value without NaN is read by either reader as that
\* value, in strict mode too if it is a container.  (NaN is written as null;
\* infinity as 1e+9999, which only OurReader takes.)
RoundTrip ==
  text = <<>> =>
    \A t \in Texts(spare), strict \in IF IsContainer(spare) THEN BOOLEAN ELSE {FALSE} :
      /\ Reads(OurParse(t, IF strict THEN OurStrictMode ELSE Defaults, ~strict), spare)
      /\ ~Infinite(spare) =>
           Reads(Reader!Parse(t, IF strict THEN StrictMode ELSE Defaults, ~strict), spare)

\* JSON by its grammar: the values that a sequence of pieces stands for, the
\* sequences of values between commas, and those of members.  One thing is not
\* JSON and taken for it: a comma behind the last member if its name is empty.
RECURSIVE Meanings(_), Lists(_), MemberLists(_)
Meanings(ps) ==
  LET inside == SubSeq(ps, 2, Len(ps) - 1)
      framed(open, close) == Len(ps) > 1 /\ ps[1] = <<open>> /\ Last(ps) = <<close>>
  IN CASE framed(OPEN, CLOSE) ->
            {FoldLeft(Appended, Initial("array"), list) :
               list \in IF inside = <<>> THEN {<<>>} ELSE Lists(inside)}
       [] framed(BEGIN, END) ->
            {FoldLeft(LAMBDA v, m : PutMember(v, m[1], m[2]), Initial("object"), list) :
               list \in IF inside = <<>> THEN {<<>>}
                       ELSE MemberLists(inside) \cup
                            {members \in MemberLists(Front(inside)) :
                               Last(inside) = <<COMMA>> /\ Last(members)[1] = <<>>}}
       [] OTHER -> IF Len(ps) = 1 /\ ps[1] \in DOMAIN PieceValue THEN {PieceValue[ps[1]]} ELSE {}
Separated(ps, One(_), More(_)) ==
  {<<x>> : x \in One(ps)} \cup
  UNION {{<<x>> \o list : x \in One(SubSeq(ps, 1, i - 1)), list \in More(SubSeq(ps, i + 1, Len(ps)))}
           : i \in {j \in DOMAIN ps : ps[j] = <<COMMA>>}}
Lists(ps) == Separated(ps, Meanings, Lists)
MemberLists(ps) ==
  LET Member(qs) ==
        IF /\ Len(qs) > 2 /\ qs[2] = <<COLON>> /\ qs[1] \in DOMAIN PieceValue
           /\ TypeOf(PieceValue[qs[1]]) = "string"
        THEN {<<Content(PieceValue[qs[1]]), v>> : v \in Meanings(SubSeq(qs, 3, Len(qs)))} ELSE {}
  IN Separated(ps, Member, MemberLists)

\* Errors are at places of the document.
InDocument(errors) ==
  \A error \in Range(errors) : error.start \in 0 .. error.limit /\ error.limit <= Len(Doc)

\* A document without comments is read if it is JSON by the grammar (with the
\* comma that is taken for it), as the value that the grammar gives it, and
\* otherwise it is refused; in strict mode if it is a container besides.  Reader
\* does not look behind the value, so that it is only asked about what is JSON.
\* What is refused has an error, and errors are at places of the document.
ReadByGrammar ==
  LET Is(r, values) == IF r.status = "ok" THEN Our!Good(r) /\ values = {r.v}
                       ELSE ~Our!Good(r) /\ InDocument(OurStructuredErrors(r)) /\ values = {}
      Agrees(meanings) ==
        /\ \A features \in {Whole, OurStrictMode} :
             Is(OurParse(Doc, features, FALSE),
                {v \in meanings : features.strictRoot => IsContainer(v)})
        /\ meanings # {} => Is(Reader!Parse(Doc, Defaults, FALSE), meanings)
  IN Range(text) \cap Comments = {} => Agrees(Meanings(text))

\* The offsets of every value in a document are those of a text of this value,
\* and the place of an error that a program pushes for it, another one besides.
\* (Without another one the limit of such an error lies behind the document.)
SpansRight ==
  LET IsRead(own, v) == own.status = "ok" /\ own.v = v
      Pushed(r, p) == OurStructuredErrors(OurPushErrorWithExtra(r, p, <<>>))
      Right(r) ==
        r.status = "ok" =>
          \A p \in Places(r.v) :
            /\ IsRead(OurParse(SubSeq(Doc, r.offsets[p][1] + 1, r.offsets[p][2]), Whole, FALSE),
                      Resolve(r.v, p))
            /\ InDocument(Pushed(r, p))
  IN Right(OurParse(Doc, Defaults, TRUE))

\* Documents are read as JSON says, with the comma above, and are refused as a
\* whole whatever stands behind what is wrong in them, brackets at which the
\* reader recovers included; and every value is found again where its offsets say
\* (json_reader.cpp 463-555, 763-781, 1436-1534).
ReadsJson == text # <<>> => ReadByGrammar /\ SpansRight

\* jsontestrunner (useStyledWriter and the two after it, runTest): what has been
\* read is written by one of these and read again by Reader.
TestedStyles == {StyledWriter, StyledStreamWriter(<<TAB>>), DefaultStreamWriter}
Rewritten(style, r) == Reader!Parse(StyledText(style, r.v, r.comments), Defaults, TRUE)

EndsInSpace(comments) == \E key \in DOMAIN comments : Last(comments[key]) = SPACE

\* A document that is read, written and read again has the same value with the
\* same comments at the same places of it.  (StyledWriter takes a space at the
\* end of a comment for an indentation and writes on in the comment: left out.)
CommentsKept ==
  LET Kept(again, r) == Reads(again, r.v) /\ again.comments = r.comments
  IN text # <<>> =>
       \A r \in {OurParse(Doc, Defaults, TRUE), Reader!Parse(Doc, Defaults, TRUE)},
          style \in TestedStyles :
         r.status = "ok" /\ (style = StyledWriter => ~EndsInSpace(r.comments)) =>
           Kept(Rewritten(style, r), r)

\* The integer types by their ranges.
Ranges == {<<"int", MinInt, MaxInt>>, <<"uint", 0, MaxUInt>>,
           <<"int64", MinLargestInt, MaxLargestInt>>, <<"uint64", 0, MaxLargestUInt>>}

\* is..., as... and isConvertibleTo agree, up to the limits of every type: a
\* conversion that is announced does not throw, one that is refused does, and a
\* number that is of a type is converted to it without loss.
ConversionsAgree ==
  /\ \A type \in Ranges :
       LET got == AsInteger(spare, type[2], type[3])
       IN /\ type[1] \in {"int", "uint"} => got.ok = IsConvertibleTo(spare, type[1])
          /\ IsWithin(spare, type[2], type[3]) =>
               /\ got.ok /\ got.is \in type[2]..type[3]
               /\ AsReal(got.is) = AsDouble(spare).is
  /\ AsDouble(spare).ok = IsConvertibleTo(spare, "real")
  /\ AsBool(spare).ok = IsConvertibleTo(spare, "boolean")
  /\ AsString(spare).ok = IsConvertibleTo(spare, "string")
  /\ IsConvertibleTo(spare, "null") /\ AsBool(spare).ok => ~AsBool(spare).is

\* Values without NaN are in one order: of two values exactly one is less unless
\* operator== takes them for equal.  (Edges are compared with each other.)
OrderTotal ==
  \A other \in {root} \cup (IF spare \in Edges THEN Edges ELSE {}) :
    LET order == Compare(spare, other)
    IN Compare(other, spare) = -order /\ (order = 0) = Equal(spare, other)

\* The list that an array is: a place that nothing is stored for is a null.
Elements(v) == IF TypeOf(v) = "array" THEN [i \in 1..Size(v) |-> At(v, i - 1)] ELSE <<>>
List == INSTANCE JsonList WITH list <- Elements(root), Compound <- IsContainer

\* Has an array places that nobody has filled?
HasHoles(v) ==
  Within(v, LAMBDA x : TypeOf(x) = "array" /\ DOMAIN Content(x) # 0 .. Size(x) - 1)

\* Does a step end the array where such a place begins?
EndsAtHole ==
  /\ TypeOf(root) = "array" /\ Size(root') < Size(root)
  /\ ~Has(root, Size(root'))

\* An array is the list that value.h describes, whatever is done to it and to the
\* values inside it; what is taken out is handed over, and no resize fails.
\* This is not so of an array with places that nobody has filled, where it is cut
\* at one of them: removeIndex of the last element takes the nulls below it along,
\* and resize fails its assertion, against value.h 523 and 397 (json_value.cpp
\* 959-998, 1124, 1178-1199).
ImplementsList ==
  /\ List!ListInit /\ [][EndsAtHole \/ List!ListNext]_(Elements(root))
  /\ [][thrown' => HasHoles(root)]_vars
=============================================================================
