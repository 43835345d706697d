------------------------------- MODULE MCJson -------------------------------
(***************************************************************************)
(* Json for TLC.  The ranges of the integer types are scaled down to -8..7 *)
(* and -128..127, with every limit and its neighbours among the edges.     *)
(***************************************************************************)
EXTENDS Json

Signed(n) == Of("int", n)
Unsigned(n) == Of("uint", n)
Real(m, e) == Of("real", Decimal(m, e))
String(bytes) == Of("string", bytes)

\* The string has an end of line, a quote, a NUL, an e with an accent and a
\* character in four bytes.
MCSamples == {Signed(-1), Real(2, 0), String(<<10, 34, 0, 195, 169, 240, 159, 152, 128>>),
              Initial("array"), Initial("object")}

MCEdges ==
  {Signed(n) : n \in {MinLargestInt, MinInt - 1, MinInt, MaxInt, MaxInt + 1, MaxUInt, MaxUInt + 1,
                     MaxLargestInt}} \cup
  {Unsigned(n) : n \in {0, MaxInt, MaxInt + 1, MaxUInt, MaxUInt + 1, MaxLargestInt,
                        MaxLargestInt + 1, MaxLargestUInt}} \cup
  {Real(n, 0) : n \in {MinLargestInt, MinInt - 1, MinInt, 0, MaxInt, MaxInt + 1, MaxUInt,
                       MaxUInt + 1, MaxLargestInt + 1, MaxLargestUInt + 1}} \cup
  {Real(5, -1), Real(-5, -1), Real(75, -1), Real(-85, -1), Real(1, 20), Real(-3125, -5)} \cup
  {Of("real", Special("Infinity")), Of("real", Special("-Infinity"))} \cup
  {Of("boolean", FALSE), Of("boolean", TRUE)}

\* "", "a" and "a" with a NUL behind it.
MCNames == {<<>>, <<97>>, <<97, 0>>}

\* -2.5 and "".
MCPieceValue ==
  (<<45, 50, 46, 53>> :> Real(-25, -1)) @@
  (<<34, 34>> :> String(<<>>))

\* A comment of a bracket to the end of the line, one that ends in a space, and
\* one over two lines.
MCComments == {<<47, 47, 93, 10>>, <<47, 47, 99, 32, 10>>, <<47, 42, 125, 10, 42, 47>>}

\* Behind what is wrong: the signs that end a container, and a string and a
\* comment with such signs inside.
MCBehind == {<<CLOSE>>, <<END>>,
             <<34, 92, 117, 100, 56, 51, 100, 92, 117, 100, 101, 48, 48, 93, 34>>,
             <<47, 42, 125, 10, 42, 47>>}
=============================================================================
