----------------------------- MODULE LogPattern -----------------------------
(***************************************************************************)
(* LogFormatter::init (log.cc): a pattern such as "%d{%H:%M}%T%m%n" is cut *)
(* into items.  The loop of the code is the function LogFormatter(p); what *)
(* a pattern means is stated the other way round, by writing a sequence of *)
(* pieces down as a pattern (Written).                                     *)
(*                                                                         *)
(* A pattern is a sequence of characters; an item is [str, fmt, type]:     *)
(* type 0 is text, type 1 a conversion with its argument.                  *)
(***************************************************************************)
EXTENDS Integers, Sequences, SequencesExt

CONSTANTS
  Chars,     \* the characters
  Letters,   \* what isalpha accepts
  Items      \* the letters of s_format_items

LeftBrace == "{"
RightBrace == "}"

ASSUME LogPatternAssumption ==
  /\ Items \subseteq Letters /\ Letters \subseteq Chars
  /\ {"%", LeftBrace, RightBrace} \subseteq Chars \ Letters

Item(str, fmt, type) == [str |-> str, fmt |-> fmt, type |-> type]
PatternError == Item(<<"<<pattern_error>>">>, <<>>, 0)

\* Mutation of Stop: the scan goes on over every character but a brace.
StopAtBrace(p, i) ==
  LET stops == {n \in (i + 1)..Len(p) : p[n] = LeftBrace}
  IN Min(stops \cup {Len(p) + 1})

\* The scan from the % at position i on: it stops at a character that is
\* neither a letter nor a brace, or at an opening brace, or at the end.
Stop(p, i) ==
  LET stops == {n \in (i + 1)..Len(p) : p[n] \notin Letters \cup {RightBrace}}
  IN Min(stops \cup {Len(p) + 1})

\* The closing brace of the argument opened at position n; 0 if there is none.
Closing(p, n) ==
  LET closes == {m \in (n + 1)..Len(p) : p[m] = RightBrace}
  IN Min(IF closes = {} THEN {0} ELSE closes)

\* Where the loop is, the text not yet made an item, the items, and the error.
State(i, nstr, vec, m_error) ==
  [i |-> i, nstr |-> nstr, vec |-> vec, m_error |-> m_error]

Flushed(s) == IF s.nstr = <<>> THEN s.vec ELSE Append(s.vec, Item(s.nstr, <<>>, 0))

Text(s, c) == State(s.i + 1, Append(s.nstr, c), s.vec, s.m_error)
Conversion(s, str, fmt, next) ==
  State(next, <<>>, Append(Flushed(s), Item(str, fmt, 1)), s.m_error)

\* One round of the loop.  Of "%%" only the first % is taken as text; and an
\* argument that is not closed is reported without skipping anything.
Round(p, s) ==
  LET i == s.i
      n == Stop(p, i)
      str == SubSeq(p, i + 1, n - 1)
      braced == n <= Len(p) /\ p[n] = LeftBrace
      close == Closing(p, n)
  IN CASE p[i] # "%" -> Text(s, p[i])
       [] p[i] = "%" /\ i < Len(p) /\ p[i + 1] = "%" -> Text(s, "%")
       [] OTHER ->
            IF ~braced THEN Conversion(s, str, <<>>, n)
            ELSE IF close # 0
                 THEN Conversion(s, str, SubSeq(p, n + 1, close - 1), close + 1)
                 ELSE State(i + 1, s.nstr, Append(s.vec, PatternError), TRUE)

Start == State(1, <<>>, <<>>, FALSE)
Advanced(p, s) == IF s.i > Len(p) THEN s ELSE Round(p, s)

\* The loop, after k rounds: none is made once the pattern is at its end, which
\* it is after at most as many rounds as it has characters.
Rounds(p) ==
  LET after[k \in 0..Len(p)] == IF k = 0 THEN Start ELSE Advanced(p, after[k - 1])
  IN after

Known(it) == it.type = 0 \/ \E c \in Items : it.str = <<c>>

\* m_items and m_error after the constructor.
LogFormatter(p) ==
  LET end == Rounds(p)[Len(p)]
      items == Flushed(end)
  IN [m_items |-> items,
      m_error |-> end.m_error \/ \E k \in 1..Len(items) : ~Known(items[k])]

-----------------------------------------------------------------------------
(* What patterns mean.                                                     *)

\* What an author writes: a text has no %, a conversion is named by letters and
\* its argument ends at the first closing brace.
Piece ==
  {x \in [str : Seq(Chars), fmt : Seq(Chars), type : {0, 1}] :
     /\ x.str # <<>>
     /\ x.type = 0 => x.fmt = <<>> /\ "%" \notin Range(x.str)
     /\ x.type = 1 => Range(x.str) \subseteq Letters /\ RightBrace \notin Range(x.fmt)}

\* A piece as it is written: text as it is, a conversion after a %, with its
\* argument in braces if it has one.
Written(piece) ==
  IF piece.type = 0 THEN piece.str
  ELSE IF piece.fmt = <<>> THEN <<"%">> \o piece.str
  ELSE <<"%">> \o piece.str \o <<LeftBrace>> \o piece.fmt \o <<RightBrace>>

\* Pieces that can be told apart when written one after the other: no two
\* texts in a row, and a text after a conversion without an argument begins
\* with nothing that would go on with it.
Separable(pieces) ==
  \A k \in 1..(Len(pieces) - 1) :
    pieces[k + 1].type = 0 =>
      /\ pieces[k].type = 1
      /\ pieces[k].fmt = <<>> =>
           pieces[k + 1].str[1] \notin Letters \cup {LeftBrace, RightBrace}

Pattern(pieces) == FlattenSeq([k \in 1..Len(pieces) |-> Written(pieces[k])])

\* A pattern is parsed into the pieces it was written from, and accepted when
\* its conversions are known (log.cc 446-559).
ParsedAsWritten(pieces) ==
  LET f == LogFormatter(Pattern(pieces))
  IN /\ f.m_items = pieces
     /\ f.m_error <=> \E k \in 1..Len(pieces) :
                        pieces[k].type = 1 /\ pieces[k].str \notin {<<c>> : c \in Items}
=============================================================================
