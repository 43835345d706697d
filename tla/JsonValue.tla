------------------------------ MODULE JsonValue ------------------------------
(***************************************************************************)
(* Json::Value (json_value.cpp): a type and what is stored under it.  The  *)
(* elements of an array and the members of an object are kept in a map, so *)
(* an array may lack elements below its last one.  Pairs, not records, so  *)
(* that two values differ by their types before their contents are looked  *)
(* at.  Comments and offsets of a value are kept apart (JsonReader).       *)
(***************************************************************************)
EXTENDS JsonText, TLC

CONSTANTS MaxInt,             \* Value::maxInt, scaled down
          MaxLargestInt       \* Value::maxLargestInt, scaled down

ASSUME RangesAssumption == MaxInt \in Nat /\ MaxLargestInt \in Nat /\ 2 * MaxInt < MaxLargestInt

MinInt == -MaxInt - 1
MaxUInt == 2 * MaxInt + 1
MinLargestInt == -MaxLargestInt - 1
MaxLargestUInt == 2 * MaxLargestInt + 1

Types == <<"null", "int", "uint", "real", "string", "boolean", "array", "object">>
Of(type, content) == <<type, content>>
TypeOf(v) == v[1]
Content(v) == v[2]
Null == Of("null", 0)
NoEntries == [key \in {} |-> Null]

\* Value(ValueType): what a value of a type is at first.
Initial(type) ==
  Of(type, CASE type \in {"null", "int", "uint"} -> 0
             [] type = "real" -> Decimal(0, 0)
             [] type = "string" -> <<>>
             [] type = "boolean" -> FALSE
             [] type \in {"array", "object"} -> NoEntries)

IsContainer(v) == TypeOf(v) \in {"array", "object"}
IsNumeric(v) == TypeOf(v) \in {"int", "uint", "real"}

\* A null value becomes an empty container when it is used as one.
As(type, v) == IF v = Null THEN Initial(type) ELSE v

\* size: of an array one more than its last index.
Size(v) ==
  CASE TypeOf(v) = "array" /\ DOMAIN Content(v) # {} -> Max(DOMAIN Content(v)) + 1
    [] TypeOf(v) = "object" -> Cardinality(DOMAIN Content(v))
    [] OTHER -> 0

\* isMember, and whether an index has an entry.
Has(v, key) == IsContainer(v) /\ key \in DOMAIN Content(v)

\* operator[] const of an index, and find of a name: null where nothing is stored.
Element(v, index) == IF index \in DOMAIN Content(v) THEN Content(v)[index] ELSE Null
Find(v, name) == IF name \in DOMAIN Content(v) THEN Content(v)[name] ELSE Null
At(v, key) ==
  CASE TypeOf(v) = "array"  -> Element(v, key)
    [] TypeOf(v) = "object" -> Find(v, key)
    [] OTHER                -> Null

\* operator[] of an index, and of a name (resolveReference), assigned to.
PutAt(v, index, x) == Of("array", (index :> x) @@ Content(As("array", v)))
PutMember(v, name, x) == Of("object", (name :> x) @@ Content(As("object", v)))

\* clear
Clear(v) == Of(TypeOf(v), IF IsContainer(v) THEN NoEntries ELSE Content(v))

\* resize: growing stores one null at the end, shrinking erases entries.
Resize(v, n) ==
  LET a == As("array", v)
  IN CASE n = 0 -> Clear(a)
       [] n > Size(a) -> PutAt(a, n - 1, Null)
       [] OTHER -> Of("array", RestrictDomain(Content(a), LAMBDA i : i < n))

\* append
Appended(v, x) == PutAt(v, Size(v), x)

\* removeMember; a value that is no object stays.
RemoveMember(v, name) ==
  IF TypeOf(v) # "object" THEN v
  ELSE Of("object", RestrictDomain(Content(v), LAMBDA key : key # name))

\* Mutation of RemoveIndex: the elements after the removed one stay where they are.
RemoveWithoutShift(v, index) ==
  IF ~Has(v, index) THEN v
  ELSE Of("array", RestrictDomain(Content(v), LAMBDA i : i # index))

\* removeIndex: the elements after it move down by one and are all stored then;
\* nothing happens where nothing is stored.
RemoveIndex(v, index) ==
  IF TypeOf(v) # "array" \/ ~Has(v, index) THEN v
  ELSE Of("array", [i \in {j \in DOMAIN Content(v) : j < index} \cup (index .. Size(v) - 2) |->
                      At(v, IF i < index THEN i ELSE i + 1)])

-----------------------------------------------------------------------------
\* CZString::operator<: byte by byte, a prefix first.
BytesLess(s, t) ==
  \/ IsStrictPrefix(s, t)
  \/ \E i \in DOMAIN s \cap DOMAIN t : s[i] < t[i] /\ SubSeq(s, 1, i - 1) = SubSeq(t, 1, i - 1)

\* getMemberNames: in the order of the map.
MemberNames(v) == SetToSortSeq(DOMAIN Content(v), BytesLess)

\* begin and end: the keys that are stored, in the order of the map.
Keys(v) ==
  IF TypeOf(v) = "array" THEN SetToSortSeq(DOMAIN Content(v), <) ELSE MemberNames(v)

-----------------------------------------------------------------------------
\* Doubles: compared, cut to an integer, made of one.  The two largest integers
\* are no doubles: they are rounded up to the power of two above them.
Scaled(r, e) == r[2] * 10 ^ (r[3] - e)
Rank(r) ==                    \* its sign and its order of magnitude
  LET order == 500 + Len(IntToString(r[2])) + r[3]
  IN CASE r[1] = "Infinity"  -> 1000
       [] r[1] = "-Infinity" -> -1000
       [] r[1] = "finite"    -> IF r[2] = 0 THEN 0 ELSE IF r[2] > 0 THEN order ELSE -order

\* Mutation of RealLess: "not above" for "below".
RealNotAbove(r, s) ==
  /\ "NaN" \notin {r[1], s[1]}
  /\ Rank(r) <= Rank(s)
  /\ Rank(r) = Rank(s) /\ r[1] = "finite" =>
       LET e == Min({r[3], s[3]}) IN Scaled(r, e) <= Scaled(s, e)

\* r < s, of doubles.
RealLess(r, s) ==
  /\ "NaN" \notin {r[1], s[1]}
  /\ \/ Rank(r) < Rank(s)
     \/ /\ Rank(r) = Rank(s) /\ r[1] = "finite"
        /\ LET e == Min({r[3], s[3]}) IN Scaled(r, e) < Scaled(s, e)
Truncated(r) ==
  CASE r[3] >= 0              -> Scaled(r, 0)
    [] r[3] < 0 /\ r[2] >= 0  -> r[2] \div 10 ^ (-r[3])
    [] r[3] < 0 /\ r[2] < 0   -> -((-r[2]) \div 10 ^ (-r[3]))
AsReal(n) == Decimal(IF n \in {MaxLargestInt, MaxLargestUInt} THEN n + 1 ELSE n, 0)

\* InRange
InRange(r, lo, hi) ==
  r[1] # "NaN" /\ ~RealLess(r, AsReal(lo)) /\ ~RealLess(AsReal(hi), r)

\* Mutation of IsWithin: the limit of the large types counts as inside.
IsWithinRounded(v, lo, hi) ==
  CASE TypeOf(v) \in {"int", "uint"} -> Content(v) \in lo..hi
    [] TypeOf(v) = "real" -> Content(v)[3] >= 0 /\ InRange(Content(v), lo, hi)
    [] OTHER -> FALSE

\* isInt, isUInt, isInt64 and isUInt64, by their ranges: a number of the range
\* without a fraction.
IsWithin(v, lo, hi) ==
  LET r == Content(v)
  IN CASE TypeOf(v) \in {"int", "uint"} -> r \in lo..hi
       [] TypeOf(v) = "real" ->
            /\ r[3] >= 0
            /\ InRange(r, lo, hi)
            /\ hi \in {MaxLargestInt, MaxLargestUInt} => RealLess(r, AsReal(hi))
       [] OTHER -> FALSE

Throws == [ok |-> FALSE, is |-> 0]
Gives(x) == [ok |-> TRUE, is |-> x]

\* asInt, asUInt, asInt64 and asUInt64, by their ranges.
AsInteger(v, lo, hi) ==
  CASE TypeOf(v) \in {"int", "uint"} /\ IsWithin(v, lo, hi) -> Gives(Content(v))
    [] TypeOf(v) = "real" /\ InRange(Content(v), lo, hi)    -> Gives(Truncated(Content(v)))
    [] TypeOf(v) = "null"                                   -> Gives(0)
    [] TypeOf(v) = "boolean"                                -> Gives(IF Content(v) THEN 1 ELSE 0)
    [] OTHER                                                -> Throws

\* asDouble
AsDouble(v) ==
  CASE TypeOf(v) \in {"int", "uint"} -> Gives(AsReal(Content(v)))
    [] TypeOf(v) = "real"            -> Gives(Content(v))
    [] TypeOf(v) = "null"            -> Gives(Decimal(0, 0))
    [] TypeOf(v) = "boolean"         -> Gives(Decimal(IF Content(v) THEN 1 ELSE 0, 0))
    [] OTHER                         -> Throws

\* asBool
AsBool(v) ==
  CASE TypeOf(v) = "boolean"         -> Gives(Content(v))
    [] TypeOf(v) = "null"            -> Gives(FALSE)
    [] TypeOf(v) \in {"int", "uint"} -> Gives(Content(v) # 0)
    [] TypeOf(v) = "real"            -> Gives(Content(v) # Decimal(0, 0))
    [] OTHER                         -> Throws

\* asString
AsString(v) ==
  CASE TypeOf(v) = "null"            -> Gives(<<>>)
    [] TypeOf(v) = "string"          -> Gives(Content(v))
    [] TypeOf(v) = "boolean"         -> Gives(IF Content(v) THEN Word.true ELSE Word.false)
    [] TypeOf(v) \in {"int", "uint"} -> Gives(IntToString(Content(v)))
    [] TypeOf(v) = "real"            -> Gives(RealToString(Content(v), FALSE))
    [] OTHER                         -> Throws

\* isConvertibleTo
IsConvertibleTo(v, type) ==
  LET fits(lo, hi) == \/ IsWithin(v, lo, hi)
                      \/ TypeOf(v) = "real" /\ InRange(Content(v), lo, hi)
                      \/ TypeOf(v) \in {"boolean", "null"}
  IN CASE type = "null" -> \/ v = Null
                           \/ IsNumeric(v) /\ AsDouble(v).is = Decimal(0, 0)
                           \/ ~IsNumeric(v) /\ v = Initial(TypeOf(v))
       [] type = "int" -> fits(MinInt, MaxInt)
       [] type = "uint" -> fits(0, MaxUInt)
       [] type \in {"real", "boolean"} -> IsNumeric(v) \/ TypeOf(v) \in {"boolean", "null"}
       [] type = "string" -> ~IsContainer(v)
       [] type \in {"array", "object"} -> TypeOf(v) \in {type, "null"}

-----------------------------------------------------------------------------
\* operator== of values: by type and by what is stored, entry by entry; NaN is
\* equal to nothing.
RECURSIVE HasNaN(_)
HasNaN(v) ==
  \/ v = Of("real", Special("NaN"))
  \/ IsContainer(v) /\ \E key \in DOMAIN Content(v) : HasNaN(Content(v)[key])
Equal(v, w) == v = w /\ ~HasNaN(v)

\* Value::operator<: by type, then by what is stored; containers by their
\* number of entries, then by the first entry in which they differ.
RECURSIVE Less(_, _)
Less(v, w) ==
  LET x == Content(v)
      y == Content(w)
      type == TypeOf(v)
      rank(t) == SelectInSeq(Types, LAMBDA s : s = t)
      KeyLess(k, l) == IF type = "array" THEN k < l ELSE BytesLess(k, l)
      Same(i) == Keys(v)[i] = Keys(w)[i] /\ Equal(x[Keys(v)[i]], y[Keys(w)[i]])
      Before(i) == \/ KeyLess(Keys(v)[i], Keys(w)[i])
                   \/ Keys(v)[i] = Keys(w)[i] /\ Less(x[Keys(v)[i]], y[Keys(w)[i]])
  IN CASE type # TypeOf(w) -> rank(type) < rank(TypeOf(w))
       [] type = TypeOf(w) ->
            CASE type = "null" -> FALSE
              [] type \in {"int", "uint"} -> x < y
              [] type = "real" -> RealLess(x, y)
              [] type = "boolean" -> ~x /\ y
              [] type = "string" -> BytesLess(x, y)
              [] IsContainer(v) ->
                   \/ Len(Keys(v)) < Len(Keys(w))
                   \/ /\ Len(Keys(v)) = Len(Keys(w))
                      /\ \E i \in DOMAIN Keys(v) : Before(i) /\ \A j \in 1 .. i - 1 : Same(j)

\* compare
Compare(v, w) == IF Less(v, w) THEN -1 ELSE IF Less(w, v) THEN 1 ELSE 0

\* Path::resolve: a path is a sequence of <<"index", n>> and <<"key", name>>.
RECURSIVE Resolve(_, _)
Resolve(v, path) ==
  IF path = <<>> THEN v
  ELSE IF \/ path[1][1] = "index" /\ (TypeOf(v) # "array" \/ path[1][2] >= Size(v))
          \/ path[1][1] = "key" /\ ~(TypeOf(v) = "object" /\ Has(v, path[1][2]))
       THEN Null ELSE Resolve(At(v, path[1][2]), Tail(path))

\* Path::make, and x assigned to what it finds or creates.
RECURSIVE Made(_, _, _)
Made(v, path, x) ==
  IF path = <<>> THEN x
  ELSE LET y == Made(At(v, path[1][2]), Tail(path), x)
       IN IF path[1][1] = "index" THEN PutAt(v, path[1][2], y) ELSE PutMember(v, path[1][2], y)
=============================================================================
