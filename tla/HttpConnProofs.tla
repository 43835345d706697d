--------------------------- MODULE HttpConnProofs ---------------------------
(***************************************************************************)
(* What HttpConn guarantees for any requests, files, buffer and header     *)
(* sizes, however TCP cuts the requests and writev the responses.          *)
(*                                                                         *)
(* Reading: the bytes of a request are its lines one after the other (Cut  *)
(* says where each begins), and at any time they are in the buffer, the    *)
(* socket and the client's hands, in this order (Placed).  The parser is   *)
(* at the beginning of one of the lines, knows what the lines before it    *)
(* say and has not touched what follows (AtLine), or waits for the body    *)
(* (InBody).  Writing: the client has the first cells of the response and  *)
(* the iovecs hold the rest of it (Partly).                                *)
(***************************************************************************)
EXTENDS HttpConn, FiniteSetTheorems, SequenceTheorems, WellFoundedInduction,
        TLAPS

-----------------------------------------------------------------------------
(* Lines and texts.                                                        *)

\* A set of numbers has a least one: its initial intervals are finite sets.
LEMMA LeastNatural ==
  ASSUME NEW T \in SUBSET Nat, T # {}
  PROVE  \E x \in T : \A y \in T : x <= y
<1> DEFINE R == StrictSubsetOrdering(Nat)
           U == {0..k : k \in T}
<1>1. U \subseteq FiniteSubsetsOf(Nat)
  <2> SUFFICES ASSUME NEW k \in T PROVE 0..k \in FiniteSubsetsOf(Nat)
    OBVIOUS
  <2>1. IsFiniteSet(0..k)
    BY FS_Interval
  <2> QED BY <2>1 DEF FiniteSubsetsOf
<1>2. IsWellFoundedOn(R, FiniteSubsetsOf(Nat))
  BY FS_StrictSubsetOrderingWellFounded
<1>3. U # {}
  OBVIOUS
<1>4. PICK A \in U : \A B \in U : <<B, A>> \notin R
  BY <1>1, <1>2, <1>3, WFMin
<1>5. PICK x \in T : A = 0..x
  OBVIOUS
<1>6. ASSUME NEW y \in T, y < x PROVE FALSE
  <2>1. 0..y \in U
    OBVIOUS
  <2>2. 0..y \subseteq 0..x /\ 0..y # 0..x
    BY <1>6
  <2>3. <<0..y, 0..x>> \in R
    BY <2>2 DEF StrictSubsetOrdering
  <2> QED BY <1>4, <1>5, <2>1, <2>3
<1>7. \A y \in T : x <= y
  BY <1>6
<1> QED BY <1>7

\* Induction over 1..n, for a property given as the set of what has it.
LEMMA CountingUp ==
  ASSUME NEW n \in Nat, NEW S, n # 0 => 1 \in S,
         \A k \in 1..n : k # n /\ k \in S => k + 1 \in S
  PROVE  \A k \in 1..n : k \in S
<1> DEFINE T == (1..n) \ S
<1>1. SUFFICES ASSUME T # {} PROVE FALSE
  OBVIOUS
<1>2. PICK m \in T : \A k \in T : m <= k
  <2>1. T \in SUBSET Nat
    OBVIOUS
  <2> QED BY <1>1, <2>1, LeastNatural
<1> QED
  BY <1>2

\* f[i] is the concatenation of the first i texts of s.
Unfolds(f, s, n) ==
  f = [i \in 1..n |-> IF i = 1 THEN s[i] ELSE f[i - 1] \o s[i]]

LEMMA UnfoldsFurther ==
  ASSUME NEW s, NEW n \in Nat \ {0}, NEW f, Unfolds(f, s, n)
  PROVE  \E g : Unfolds(g, s, n + 1)
<1> DEFINE g == [i \in 1..(n + 1) |-> IF i = n + 1 THEN f[n] \o s[n + 1] ELSE f[i]]
<1>1. \A i \in 1..n : f[i] = IF i = 1 THEN s[i] ELSE f[i - 1] \o s[i]
  BY DEF Unfolds
<1>2. \A i \in 1..(n + 1) : g[i] = IF i = 1 THEN s[i] ELSE g[i - 1] \o s[i]
  BY <1>1
<1>3. Unfolds(g, s, n + 1)
  BY <1>2 DEF Unfolds
<1> QED BY <1>3

\* Such an f exists, and FlattenSeq takes its last value.
LEMMA FlattenExists ==
  ASSUME NEW s, NEW n \in Nat \ {0}
  PROVE  \E f : Unfolds(f, s, n)
<1> DEFINE S == {k \in Nat \ {0} : \E f : Unfolds(f, s, k)}
<1>1. 1 \in S
  <2>1. Unfolds([i \in 1..1 |-> s[1]], s, 1)
    BY DEF Unfolds
  <2> QED BY <2>1
<1>2. \A k \in 1..n : k # n /\ k \in S => k + 1 \in S
  BY UnfoldsFurther
<1>3. n \in S
  <2> HIDE DEF S
  <2> QED BY <1>1, <1>2, CountingUp
<1> QED BY <1>3

LEMMA FlattenUnfolds ==
  ASSUME NEW s, Len(s) \in Nat \ {0}
  PROVE  \E f : Unfolds(f, s, Len(s)) /\ FlattenSeq(s) = f[Len(s)]
BY FlattenExists DEF FlattenSeq, Unfolds

\* The texts of the first lines, each one line longer than the one before.
LEMMA FlatGrows ==
  ASSUME NEW C, CR \in C, LF \in C, NEW s \in Seq(Seq(C)), Len(s) # 0
  PROVE  \E e : /\ e[0] = <<>>
                /\ e[Len(s)] = Flat(s)
                /\ \A k \in 1..Len(s) : e[k] = e[k - 1] \o (s[k] \o <<CR, LF>>)
<1> DEFINE n == Len(s)
           j == [i \in 1..n |-> s[i] \o <<CR, LF>>]
<1>1. n \in Nat \ {0} /\ Len(j) = n /\ Flat(s) = FlattenSeq(j)
  BY DEF Flat
<1>2. PICK f : Unfolds(f, j, n) /\ Flat(s) = f[n]
  BY <1>1, FlattenUnfolds
<1>3. \A k \in 1..n : j[k] \in Seq(C) /\ j[k] = s[k] \o <<CR, LF>>
  OBVIOUS
<1> HIDE DEF j, n
<1>4. \A k \in 1..n : f[k] = IF k = 1 THEN j[k] ELSE f[k - 1] \o j[k]
  BY <1>2 DEF Unfolds
<1> DEFINE e == [k \in 0..n |-> IF k = 0 THEN <<>> ELSE f[k]]
<1>5. e[0] = <<>> /\ \A k \in 1..n : e[k] = f[k]
  BY <1>1
<1> HIDE DEF e
<1>6. ASSUME NEW k \in 1..n
      PROVE  e[k] = e[k - 1] \o j[k]
  <2>1. CASE k = 1
    <3>1. <<>> \o j[1] = j[1]
      BY <1>1, <1>3
    <3>2. e[k - 1] = <<>> /\ e[k] = j[1] /\ j[k] = j[1]
      BY <2>1, <1>1, <1>4, <1>5
    <3> QED BY <3>1, <3>2
  <2>2. CASE k # 1
    <3>1. k - 1 \in 1..n
      BY <2>2, <1>1
    <3> QED BY <2>2, <3>1, <1>4, <1>5
  <2> QED BY <2>1, <2>2
<1> QED
  <2>1. e[n] = Flat(s)
    BY <1>1, <1>2, <1>5
  <2>2. \A k \in 1..n : e[k] = e[k - 1] \o (s[k] \o <<CR, LF>>)
    BY <1>3, <1>6
  <2> QED BY <1>5, <2>1, <2>2 DEF n

\* The line w begins after the first a cells of t.
LineAt(t, w, a) ==
  /\ a + Len(w) + 2 <= Len(t)
  /\ \A i \in 1..Len(w) : t[a + i] = w[i]
  /\ t[a + Len(w) + 1] = CR
  /\ t[a + Len(w) + 2] = LF

\* A line that is added at the end of a text.
LEMMA LineAdded ==
  ASSUME NEW C, CR \in C, LF \in C, NEW t \in Seq(C), NEW w \in Seq(C)
  PROVE  /\ t \o (w \o <<CR, LF>>) \in Seq(C)
         /\ Len(t \o (w \o <<CR, LF>>)) = Len(t) + Len(w) + 2
         /\ LineAt(t \o (w \o <<CR, LF>>), w, Len(t))
<1> DEFINE u == w \o <<CR, LF>>
<1>1. <<CR, LF>> \in Seq(C)
  OBVIOUS
<1>2. /\ u \in Seq(C) /\ Len(u) = Len(w) + 2
      /\ \A i \in 1..Len(w) : u[i] = w[i]
      /\ u[Len(w) + 1] = CR /\ u[Len(w) + 2] = LF
  BY <1>1
<1> HIDE DEF u
<1>5. t \o u \in Seq(C) /\ Len(t \o u) = Len(t) + Len(u)
  BY <1>2
<1>3. ASSUME NEW i \in 1..Len(u) PROVE (t \o u)[Len(t) + i] = u[i]
  BY <1>2
<1> DEFINE v == t \o u
<1> HIDE DEF v
<1>4. v \in Seq(C) /\ Len(v) = Len(t) + Len(w) + 2 /\ LineAt(v, w, Len(t))
  BY <1>2, <1>3, <1>5 DEF LineAt, v
<1> QED
  BY <1>4 DEF u, v

\* A line stays where it is when the text goes on.
LEMMA LineStays ==
  ASSUME NEW C, NEW t \in Seq(C), NEW u \in Seq(C), NEW w \in Seq(C), NEW a \in Nat,
         LineAt(t, w, a)
  PROVE  LineAt(t \o u, w, a)
<1> DEFINE v == t \o u
<1>1. /\ Len(t) \in Nat /\ Len(u) \in Nat /\ Len(w) \in Nat
      /\ Len(v) = Len(t) + Len(u) /\ \A i \in 1..Len(t) : v[i] = t[i]
  OBVIOUS
<1> HIDE DEF v
<1>2. \A i \in 1..Len(t) : v[i] = t[i]
  BY <1>1
<1>3. \A i \in 1..Len(w) : a + i \in 1..Len(t) /\ t[a + i] = w[i]
  BY <1>1 DEF LineAt
<1>4. /\ a + Len(w) + 1 \in 1..Len(t) /\ t[a + Len(w) + 1] = CR
      /\ a + Len(w) + 2 \in 1..Len(t) /\ t[a + Len(w) + 2] = LF
      /\ a + Len(w) + 2 <= Len(v)
  BY <1>1 DEF LineAt
<1>5. LineAt(v, w, a)
  BY <1>2, <1>3, <1>4 DEF LineAt
<1> QED BY <1>5 DEF v

\* Where the lines of s begin, and the last one ends, in a text that begins
\* with them.
Laid(cut, s, t) ==
  /\ cut \in [0..Len(s) -> Nat]
  /\ cut[0] = 0
  /\ \A k \in 1..Len(s) : /\ cut[k] = cut[k - 1] + Len(s[k]) + 2
                          /\ LineAt(t, s[k], cut[k - 1])

\* The lines of a message, flattened, are where the cuts say.
LEMMA FlatIsLaid ==
  ASSUME NEW C, CR \in C, LF \in C, NEW s \in Seq(Seq(C)), Len(s) # 0
  PROVE  /\ Flat(s) \in Seq(C)
         /\ \E cut : Laid(cut, s, Flat(s)) /\ cut[Len(s)] = Len(Flat(s))
<1>1. PICK e : /\ e[0] = <<>>
               /\ e[Len(s)] = Flat(s)
               /\ \A k \in 1..Len(s) : e[k] = e[k - 1] \o (s[k] \o <<CR, LF>>)
  BY FlatGrows
<1>2. Len(s) \in Nat \ {0} /\ \A k \in 1..Len(s) : s[k] \in Seq(C)
  OBVIOUS
<1> DEFINE n == Len(s)
<1>3. ASSUME NEW k \in 1..n, e[k - 1] \in Seq(C)
      PROVE  /\ e[k] \in Seq(C)
             /\ Len(e[k]) = Len(e[k - 1]) + Len(s[k]) + 2
             /\ LineAt(e[k], s[k], Len(e[k - 1]))
  <2>1. e[k] = e[k - 1] \o (s[k] \o <<CR, LF>>) /\ s[k] \in Seq(C)
    BY <1>1, <1>2
  <2> DEFINE t == e[k - 1]
             w == s[k]
  <2>2. t \in Seq(C) /\ w \in Seq(C) /\ e[k] = t \o (w \o <<CR, LF>>)
    BY <1>3, <2>1
  <2> HIDE DEF t, w
  <2>3. e[k] \in Seq(C) /\ Len(e[k]) = Len(t) + Len(w) + 2 /\ LineAt(e[k], w, Len(t))
    BY <2>2, LineAdded
  <2> QED BY <2>3 DEF t, w
<1>4. e[0] \in Seq(C) /\ Len(e[0]) = 0
  BY <1>1
<1>5. \A k \in 1..n : e[k] \in Seq(C)
  <2> DEFINE S == {k \in 1..n : e[k] \in Seq(C)}
  <2>1. 1 \in S
    <3>1. 1 \in 1..n /\ e[1 - 1] \in Seq(C)
      BY <1>2, <1>4
    <3> QED BY <3>1, <1>3
  <2>2. ASSUME NEW k \in 1..n, k # n, k \in S
        PROVE  k + 1 \in S
    <3>1. k + 1 \in 1..n /\ e[(k + 1) - 1] \in Seq(C)
      BY <2>2, <1>2
    <3> QED BY <3>1, <1>3
  <2>3. \A k \in 1..n : k \in S
    <3> HIDE DEF S
    <3> QED BY <2>1, <2>2, <1>2, CountingUp
  <2> QED BY <2>3
<1>6. \A k \in 1..n : e[k - 1] \in Seq(C)
  <2> SUFFICES ASSUME NEW k \in 1..n PROVE e[k - 1] \in Seq(C)
    OBVIOUS
  <2>1. k - 1 = 0 \/ k - 1 \in 1..n
    BY <1>2
  <2> QED BY <2>1, <1>4, <1>5
<1> DEFINE cut == [k \in 0..n |-> Len(e[k])]
<1>7. /\ cut \in [0..n -> Nat] /\ cut[0] = 0 /\ cut[n] = Len(e[n])
      /\ \A k \in 1..n : cut[k] = Len(e[k]) /\ cut[k - 1] = Len(e[k - 1])
  <2>1. \A k \in 0..n : Len(e[k]) \in Nat
    BY <1>4, <1>5
  <2> QED BY <2>1, <1>2, <1>4
<1> HIDE DEF cut
<1>8. \A k \in 1..n : cut[k] = cut[k - 1] + Len(s[k]) + 2
  BY <1>3, <1>6, <1>7
<1>9. \A k \in 1..n : \A l \in 1..k : LineAt(e[k], s[l], cut[l - 1])
  <2> DEFINE S == {k \in 1..n : \A l \in 1..k : LineAt(e[k], s[l], cut[l - 1])}
  <2>1. \A k \in 1..n : LineAt(e[k], s[k], cut[k - 1])
    BY <1>3, <1>6, <1>7
  <2>2. 1 \in S
    BY <2>1, <1>2
  <2>3. ASSUME NEW k \in 1..n, k # n, k \in S
        PROVE  k + 1 \in S
    <3>1. /\ k + 1 \in 1..n /\ (k + 1) - 1 = k
          /\ e[k + 1] = e[k] \o (s[k + 1] \o <<CR, LF>>)
      <4>1. k + 1 \in 1..n /\ (k + 1) - 1 = k
        BY <2>3, <1>2
      <4> HIDE DEF n
      <4>2. e[k + 1] = e[(k + 1) - 1] \o (s[k + 1] \o <<CR, LF>>)
        BY <4>1, <1>1 DEF n
      <4> QED BY <4>1, <4>2
    <3>2. s[k + 1] \o <<CR, LF>> \in Seq(C)
      <4>1. <<CR, LF>> \in Seq(C)
        OBVIOUS
      <4> QED BY <4>1, <3>1, <1>2
    <3>3. ASSUME NEW l \in 1..k
          PROVE  LineAt(e[k + 1], s[l], cut[l - 1])
      <4>1. l \in 1..n /\ LineAt(e[k], s[l], cut[l - 1])
        BY <2>3, <1>2
      <4>2. s[l] \in Seq(C) /\ l - 1 \in 0..n
        BY <4>1, <1>2
      <4>3. cut[l - 1] \in Nat
        BY <4>2, <1>7
      <4> QED BY <4>1, <4>2, <4>3, <3>1, <3>2, <1>5, LineStays
    <3>4. LineAt(e[k + 1], s[k + 1], cut[(k + 1) - 1])
      BY <3>1, <2>1
    <3>5. \A l \in 1..(k + 1) : l = k + 1 \/ l \in 1..k
      BY <1>2
    <3> QED BY <3>1, <3>3, <3>4, <3>5
  <2>4. \A k \in 1..n : k \in S
    <3> HIDE DEF S
    <3> QED BY <2>2, <2>3, <1>2, CountingUp
  <2> QED BY <2>4
<1>10. Laid(cut, s, e[n])
  <2>1. \A k \in 1..n : LineAt(e[n], s[k], cut[k - 1])
    BY <1>2, <1>9
  <2> QED BY <1>7, <1>8, <2>1 DEF Laid
<1> QED
  BY <1>1, <1>2, <1>5, <1>7, <1>10

-----------------------------------------------------------------------------
(* The layout of a request.                                                *)

\* What a cell of the buffer holds.
Cells == Words \cup {CR, LF, NUL}

\* The lines of a request, the last of them empty, and how many.
Lines(r) == <<r.line>> \o r.headers \o << <<>> >>
LineCount(r) == Len(r.headers) + 2

\* What RequestsAssumption says of one request.
LEMMA RequestShape ==
  ASSUME NEW r \in Requests
  PROVE  /\ r.line \in Seq(Words)
         /\ r.headers \in Seq(Seq(Words) \ {<<>>})
         /\ r.body \in Seq(Words \cup {CR, LF})
BY RequestsAssumption

\* A word is none of the cells that end lines and texts.
LEMMA CellsAreApart ==
  /\ CR # LF /\ CR # NUL /\ LF # NUL
  /\ CR \notin Words /\ LF \notin Words /\ NUL \notin Words
<1>1. CR # LF /\ CR # NUL /\ LF # NUL
  BY DEF CR, LF, NUL
<1>2. NUL \notin Words
  BY RequestsAssumption
<1>3. CR \notin Words /\ LF \notin Words
  BY Zenon DEF Words
<1> QED BY <1>1, <1>2, <1>3

\* The lines: the request line, the headers, which are not empty, the empty one.
LEMMA LinesShape ==
  ASSUME NEW r \in Requests
  PROVE  /\ LineCount(r) \in Nat /\ LineCount(r) >= 2
         /\ Lines(r) \in Seq(Seq(Words))
         /\ Len(Lines(r)) = LineCount(r)
         /\ Lines(r)[1] = r.line
         /\ \A k \in 1..Len(r.headers) : /\ Lines(r)[k + 1] = r.headers[k]
                                         /\ Lines(r)[k + 1] # <<>>
         /\ Lines(r)[LineCount(r)] = <<>>
<1>1. /\ r.line \in Seq(Words) /\ r.headers \in Seq(Seq(Words))
      /\ \A k \in 1..Len(r.headers) : r.headers[k] # <<>>
      /\ Len(r.headers) \in Nat
  BY RequestShape
<1>2. <<>> \in Seq(Words)
  OBVIOUS
<1>3. <<r.line>> \in Seq(Seq(Words)) /\ << <<>> >> \in Seq(Seq(Words))
  BY <1>1, <1>2
<1> DEFINE h == r.headers
           l == r.line
<1> HIDE DEF h, l
<1>4. /\ <<l>> \o h \o << <<>> >> \in Seq(Seq(Words))
      /\ Len(<<l>> \o h \o << <<>> >>) = Len(h) + 2
      /\ (<<l>> \o h \o << <<>> >>)[1] = l
      /\ \A k \in 1..Len(h) : (<<l>> \o h \o << <<>> >>)[k + 1] = h[k]
      /\ (<<l>> \o h \o << <<>> >>)[Len(h) + 2] = <<>>
  <2> DEFINE S == Seq(Words)
             f == <<l>> \o h
  <2>1. h \in Seq(S) /\ l \in S /\ <<l>> \in Seq(S) /\ << <<>> >> \in Seq(S)
    BY <1>1, <1>3 DEF h, l
  <2> HIDE DEF S
  <2>2. /\ f \in Seq(S) /\ Len(f) = Len(h) + 1 /\ f[1] = l
        /\ \A k \in 1..Len(h) : f[k + 1] = h[k]
    BY <2>1
  <2> HIDE DEF f
  <2>3. /\ f \o << <<>> >> \in Seq(S)
        /\ Len(f \o << <<>> >>) = Len(f) + 1
        /\ \A k \in 1..Len(f) : (f \o << <<>> >>)[k] = f[k]
        /\ (f \o << <<>> >>)[Len(f) + 1] = <<>>
    BY <2>1, <2>2
  <2>4. Len(h) \in Nat
    BY <1>1 DEF h
  <2>5. (f \o << <<>> >>)[1] = l /\ \A k \in 1..Len(h) : (f \o << <<>> >>)[k + 1] = h[k]
    BY <2>2, <2>3, <2>4
  <2>6. Len(f \o << <<>> >>) = Len(h) + 2 /\ (f \o << <<>> >>)[Len(h) + 2] = <<>>
    BY <2>2, <2>3, <2>4
  <2> QED BY <2>3, <2>5, <2>6 DEF f, S
<1> QED
  <2>1. Lines(r) = <<l>> \o h \o << <<>> >> /\ LineCount(r) = Len(h) + 2
    BY DEF Lines, LineCount, h, l
  <2>2. /\ LineCount(r) \in Nat /\ LineCount(r) >= 2
        /\ \A k \in 1..Len(h) : h[k] # <<>>
    BY <2>1, <1>1 DEF h
  <2> QED BY <2>1, <2>2, <1>4 DEF h, l

\* Cut(r)[k] is the number of cells in the first k lines of r.
Cut(r) == CHOOSE cut : /\ Laid(cut, Lines(r), HeadOf(r))
                       /\ cut[LineCount(r)] = Len(HeadOf(r))

\* The head of a request is its lines, one after the other.
LEMMA HeadLaid ==
  ASSUME NEW r \in Requests
  PROVE  /\ HeadOf(r) \in Seq(Cells)
         /\ Laid(Cut(r), Lines(r), HeadOf(r))
         /\ Cut(r)[LineCount(r)] = Len(HeadOf(r))
<1>1. Lines(r) \in Seq(Seq(Cells)) /\ Len(Lines(r)) = LineCount(r) /\ LineCount(r) # 0
  <2>1. Seq(Words) \subseteq Seq(Cells)
    BY SeqMonotonic DEF Cells
  <2>2. Lines(r) \in Seq(Seq(Cells))
    BY <2>1, LinesShape, SeqMonotonic
  <2> QED BY <2>2, LinesShape
<1>2. CR \in Cells /\ LF \in Cells
  BY DEF Cells
<1>3. HeadOf(r) = Flat(Lines(r))
  BY DEF HeadOf, Lines
<1>4. /\ Flat(Lines(r)) \in Seq(Cells)
      /\ \E cut : /\ Laid(cut, Lines(r), Flat(Lines(r)))
                   /\ cut[Len(Lines(r))] = Len(Flat(Lines(r)))
  BY <1>1, <1>2, FlatIsLaid
<1> QED
  BY <1>1, <1>3, <1>4 DEF Cut

\* Head and body of a request.
LEMMA StreamShape ==
  ASSUME NEW r \in Requests
  PROVE  /\ Stream(r) \in Seq(Cells)
         /\ Len(HeadOf(r)) \in Nat /\ Len(r.body) \in Nat
         /\ Len(Stream(r)) = Len(HeadOf(r)) + Len(r.body)
         /\ \A i \in 1..Len(r.body) : /\ Stream(r)[Len(HeadOf(r)) + i] = r.body[i]
                                      /\ r.body[i] # NUL
<1>1. HeadOf(r) \in Seq(Cells) /\ r.body \in Seq(Words \cup {CR, LF})
  BY HeadLaid, RequestShape
<1>2. r.body \in Seq(Cells)
  BY <1>1, SeqMonotonic DEF Cells
<1>3. \A i \in 1..Len(r.body) : r.body[i] # NUL
  BY <1>1, CellsAreApart
<1> QED
  BY <1>1, <1>2, <1>3 DEF Stream

\* Line k + 1 of a request is in the bytes of it from cut k on.
LEMMA LineShape ==
  ASSUME NEW r \in Requests, NEW k \in 0..(LineCount(r) - 1)
  PROVE  /\ Cut(r)[0] = 0
         /\ Cut(r)[k] \in Nat
         /\ Lines(r)[k + 1] \in Seq(Words)
         /\ Cut(r)[k + 1] = Cut(r)[k] + Len(Lines(r)[k + 1]) + 2
         /\ Cut(r)[k + 1] <= Len(HeadOf(r))
         /\ LineAt(Stream(r), Lines(r)[k + 1], Cut(r)[k])
<1>1. /\ LineCount(r) \in Nat /\ Lines(r) \in Seq(Seq(Words))
      /\ Len(Lines(r)) = LineCount(r)
  BY LinesShape
<1>2. k + 1 \in 1..Len(Lines(r)) /\ (k + 1) - 1 = k /\ k \in 0..Len(Lines(r))
  BY <1>1
<1>3. Laid(Cut(r), Lines(r), HeadOf(r))
  BY HeadLaid
<1> DEFINE a == Cut(r)[k]
           w == Lines(r)[k + 1]
<1>4. a \in Nat /\ w \in Seq(Words) /\ Cut(r)[0] = 0
  <2>1. w \in Seq(Words)
    BY <1>1, <1>2
  <2>2. Cut(r) \in [0..Len(Lines(r)) -> Nat] /\ Cut(r)[0] = 0
    BY <1>3 DEF Laid
  <2> QED BY <1>2, <2>1, <2>2
<1>5. Cut(r)[k + 1] = a + Len(w) + 2 /\ LineAt(HeadOf(r), w, a)
  BY <1>2, <1>3 DEF Laid
<1> HIDE DEF a, w
<1>6. a + Len(w) + 2 <= Len(HeadOf(r))
  BY <1>5 DEF LineAt
<1>7. /\ w \in Seq(Cells) /\ HeadOf(r) \in Seq(Cells) /\ r.body \in Seq(Cells)
  <2>1. r.body \in Seq(Words \cup {CR, LF})
    BY RequestShape
  <2> QED BY <1>4, <2>1, HeadLaid, SeqMonotonic DEF Cells
<1>8. LineAt(Stream(r), w, a)
  BY <1>4, <1>5, <1>7, LineStays DEF Stream
<1> QED
  BY <1>4, <1>5, <1>6, <1>8 DEF a, w

-----------------------------------------------------------------------------
(* parse_line.                                                             *)

\* What is needed of the buffer for a line to be looked for.
ReadBufOK == m_read_buf \in Seq(Cells) /\ m_checked_index \in Nat

\* The least index of a set of ends is one of them.
LEMMA FirstEnd ==
  ASSUME ReadBufOK, Ends # {}
  PROVE  /\ LineEnd \in Ends
         /\ \A i \in Ends : LineEnd <= i
<1>1. m_read_idx \in Nat /\ Ends \in SUBSET Nat
  BY DEF ReadBufOK, m_read_idx, Ends
<1>2. \E x \in Ends : \A y \in Ends : x <= y
  BY <1>1, LeastNatural
<1> QED
  BY <1>2 DEF LineEnd, Min

\* Writing a NUL, inside the text or past its end.
LEMMA CellSet ==
  ASSUME NEW b \in Seq(Cells), NEW i
  PROVE  /\ [b EXCEPT ![i] = NUL] \in Seq(Cells)
         /\ Len([b EXCEPT ![i] = NUL]) = Len(b)
         /\ \A j \in 1..Len(b) : [b EXCEPT ![i] = NUL][j] = IF j = i THEN NUL ELSE b[j]
<1>1. NUL \in Cells
  BY DEF Cells
<1>2. CASE i \in 1..Len(b)
  BY <1>1, <1>2, ExceptSeq
<1>3. CASE i \notin 1..Len(b)
  <2>1. [b EXCEPT ![i] = NUL] = b
    BY <1>3
  <2> QED BY <2>1, <1>3
<1> QED BY <1>2, <1>3

\* The line that parse_line has found, and what it writes over its end.
LEMMA LineFound ==
  ASSUME ReadBufOK, LineOk
  PROVE  /\ Ends # {}
         /\ LineStart \in Nat
         /\ m_checked_index < LineStart + 2
         /\ LineStart + 2 <= m_read_idx
         /\ Terminated \in Seq(Cells)
         /\ Len(Terminated) = m_read_idx
         /\ \A i \in 1..m_read_idx : Terminated[i] =
              IF i \in {LineStart + 1, LineStart + 2} THEN NUL ELSE m_read_buf[i]
<1>1. Ends # {} /\ m_read_idx \in Nat /\ m_read_buf \in Seq(Cells)
  BY DEF LineOk, LineOpen, ReadBufOK, m_read_idx
<1>2. LineEnd \in m_checked_index..(m_read_idx - 1)
  BY <1>1, FirstEnd DEF Ends
<1>3. LineStart \in Nat /\ m_checked_index < LineStart + 2 /\ LineStart + 2 <= m_read_idx
  <2>1. LineStart >= 0 /\ LineStart + 1 < m_read_idx
    BY DEF LineOk, CrLf
  <2>2. LineStart = LineEnd \/ LineStart = LineEnd - 1
    BY DEF LineStart
  <2> QED BY <1>1, <1>2, <2>1, <2>2 DEF ReadBufOK
<1> DEFINE b == [m_read_buf EXCEPT ![LineStart + 1] = NUL]
<1>4. /\ b \in Seq(Cells) /\ Len(b) = m_read_idx
      /\ \A i \in 1..m_read_idx : b[i] = IF i = LineStart + 1 THEN NUL ELSE m_read_buf[i]
  BY <1>1, CellSet DEF m_read_idx
<1>5. Terminated = [b EXCEPT ![LineStart + 2] = NUL]
  BY DEF Terminated
<1> HIDE DEF b
<1>6. /\ Terminated \in Seq(Cells) /\ Len(Terminated) = m_read_idx
      /\ \A i \in 1..m_read_idx : Terminated[i] = IF i = LineStart + 2 THEN NUL ELSE b[i]
  BY <1>4, <1>5, CellSet
<1> QED
  BY <1>1, <1>3, <1>4, <1>6

\* Where parse_line stops without a line.
LEMMA CutInBuffer ==
  ASSUME ReadBufOK, m_checked_index <= m_read_idx
  PROVE  (IF LineOpen THEN LineCut ELSE LineEnd) \in m_checked_index..m_read_idx
<1>1. m_read_idx \in Nat
  BY DEF ReadBufOK, m_read_idx
<1>2. Ends # {} => LineEnd \in m_checked_index..(m_read_idx - 1)
  BY FirstEnd DEF Ends
<1>3. ~LineOpen => Ends # {}
  BY DEF LineOpen
<1> QED
  BY <1>1, <1>2, <1>3 DEF LineCut, ReadBufOK

-----------------------------------------------------------------------------
(* Types.                                                                  *)

\* What the parser works on.
ReadTypes ==
  /\ pc \in {"in", "parse", "deaf", "dead", "lost", "out", "json", "copy",
            "write", "over", "closed"}
  /\ m_read_ret \in Verdicts
  /\ m_check_state \in {"REQUESTLINE", "HEADER", "CONTENT"}
  /\ line_status \in {"OK", "OPEN"}
  /\ pending \in BOOLEAN /\ m_linger \in BOOLEAN
  /\ asked \in Requests \cup {NoRequest}
  /\ pending => asked \in Requests
  /\ m_read_buf \in Seq(Cells) /\ rx \in Seq(Cells) /\ unsent \in Seq(Cells)
  /\ m_start_line \in Nat /\ m_checked_index \in Nat
  /\ m_start_line <= m_checked_index
  /\ m_checked_index <= m_read_idx /\ m_read_idx <= READ_BUFFER_SIZE
  /\ pc \in {"parse", "out"} => m_read_idx < READ_BUFFER_SIZE
  /\ m_content_length \in Nat /\ m_post_cgi \in {0, 1}
  /\ m_check_state # "REQUESTLINE" /\ m_method = "POST" => m_post_cgi = 1
  /\ m_check_state # "REQUESTLINE" => m_url \in Urls
  /\ m_file_address \notin {NoMap, Garbage} => m_file_address.url \in DOMAIN Files

\* What write() works on.
WriteTypes ==
  /\ iov0 \in [base : 0..HeaderSize, len : 0..HeaderSize]
  /\ bytes_have_send \in Nat
  /\ rpc \in {"spec", "spec2", "json", "json2"} /\ frame \in Frames

LEMMA EmptyText == <<>> \in Seq(Cells) /\ Len(<<>>) = 0
OBVIOUS

\* One lemma per step that the types of the parser have to survive.
LEMMA ReadTypesKept ==
  ASSUME ReadTypes, UNCHANGED <<clientVars, readVars>>,
         pc' \in {"dead", "json", "copy", "write"} \/ pc' = pc
  PROVE  ReadTypes'
BY DEF ReadTypes, clientVars, readVars, bufferVars, parseVars, m_read_idx

LEMMA ReadTypesClient ==
  ASSUME ReadTypes, Client
  PROVE  ReadTypes'
<1>1. ASSUME NEW r \in Requests, Ask(r)
      PROVE  ReadTypes'
  <2>1. Stream(r) \in Seq(Cells)
    BY StreamShape
  <2> QED BY <1>1, <2>1 DEF Ask, ReadTypes, readVars, bufferVars, parseVars, m_read_idx
<1>2. ASSUME NEW n \in 1..Len(unsent), Deliver(n)
      PROVE  ReadTypes'
  <2>1. /\ SubSeq(unsent, 1, n) \in Seq(Cells)
        /\ SubSeq(unsent, n + 1, Len(unsent)) \in Seq(Cells)
        /\ rx \in Seq(Cells)
    BY DEF ReadTypes
  <2>2. rx \o SubSeq(unsent, 1, n) \in Seq(Cells)
    BY <2>1
  <2> QED BY <1>2, <2>1, <2>2 DEF Deliver, ReadTypes, readVars, bufferVars,
     parseVars, m_read_idx
<1> QED BY <1>1, <1>2 DEF Client

LEMMA ReadTypesRecv ==
  ASSUME ReadTypes, Recv
  PROVE  ReadTypes'
<1>1. /\ m_read_buf \in Seq(Cells) /\ rx \in Seq(Cells)
      /\ m_read_idx \in Nat /\ Len(rx) \in Nat /\ m_read_idx <= READ_BUFFER_SIZE
      /\ READ_BUFFER_SIZE \in Nat
  BY BufferAssumption DEF ReadTypes, m_read_idx
<1>2. CASE Len(rx) < Room
  <2>1. m_read_buf' = m_read_buf \o rx /\ rx' = <<>> /\ pc' = "parse"
    BY <1>2 DEF Recv, TakeAll
  <2>2. m_read_buf' \in Seq(Cells) /\ m_read_idx' = m_read_idx + Len(rx)
    BY <1>1, <2>1 DEF m_read_idx
  <2>3. rx' \in Seq(Cells) /\ m_read_idx' < READ_BUFFER_SIZE /\ m_read_idx <= m_read_idx'
    BY <1>1, <1>2, <2>1, <2>2 DEF Room
  <2> QED BY <1>1, <2>1, <2>2, <2>3 DEF Recv, TakeAll, ReadTypes, parseVars
<1>3. CASE ~ (Len(rx) < Room)
  <2>1. /\ m_read_buf' = m_read_buf \o SubSeq(rx, 1, Room)
        /\ rx' = SubSeq(rx, Room + 1, Len(rx)) /\ pc' = "deaf"
    BY <1>3 DEF Recv, TakeAll
  <2>2. Room \in 0..Len(rx)
    BY <1>1, <1>3 DEF Room
  <2>3. /\ SubSeq(rx, 1, Room) \in Seq(Cells) /\ Len(SubSeq(rx, 1, Room)) = Room
        /\ SubSeq(rx, Room + 1, Len(rx)) \in Seq(Cells)
    BY <1>1, <2>2
  <2>4. m_read_buf' \in Seq(Cells) /\ m_read_idx' = m_read_idx + Room
    BY <1>1, <2>1, <2>3 DEF m_read_idx
  <2>5. m_read_idx' = READ_BUFFER_SIZE /\ m_read_idx <= m_read_idx'
    BY <1>1, <2>2, <2>4 DEF Room
  <2>6. rx' \in Seq(Cells) /\ m_read_idx' <= READ_BUFFER_SIZE
    BY <1>1, <2>1, <2>3, <2>5
  <2>7. /\ line_status' = "OK" /\ UNCHANGED <<asked, pending, unsent, m_checked_index>>
        /\ UNCHANGED <<m_start_line, parseVars, m_post_cgi, m_read_ret, m_file_address>>
    BY DEF Recv, TakeAll
  <2>8. m_checked_index <= m_read_idx'
    BY <1>1, <2>5 DEF ReadTypes
  <2> QED BY <2>1, <2>4, <2>6, <2>7, <2>8 DEF ReadTypes, parseVars
<1> QED BY <1>2, <1>3

LEMMA ReadTypesLine ==
  ASSUME ReadTypes, NextLine
  PROVE  /\ m_read_buf' \in Seq(Cells) /\ m_read_idx' = m_read_idx
         /\ m_start_line' \in Nat /\ m_checked_index' \in Nat
         /\ m_start_line' <= m_checked_index'
         /\ m_checked_index' <= m_read_idx'
         /\ line_status' \in {"OK", "OPEN"}
BY LineFound DEF NextLine, ReadTypes, ReadBufOK, m_read_idx

\* The verdicts of do_request.
LEMMA ReadTypesDecide ==
  ASSUME ReadTypes, m_url \in Urls, do_request
  PROVE  /\ m_read_ret' \in Verdicts /\ m_url' \in Urls
         /\ pc' \in {"out", "dead"}
         /\ m_file_address' \notin {NoMap, Garbage} => m_file_address'.url \in DOMAIN Files
<1>1. PICK url \in Urls : Page(url)
  BY FilesAssumption DEF do_request, Urls
<1>2. Resource(url) \in Verdicts
  BY DEF Resource, Verdicts
<1>3. Resource(url) = "FILE_REQUEST" => url \in DOMAIN Files
  BY DEF Resource, Urls
<1> QED
  BY <1>1, <1>2, <1>3 DEF Page, Decide, ReadTypes

LEMMA ReadTypesContent ==
  ASSUME ReadTypes, pc = "parse", NEW b \in Seq(Cells), Len(b) = m_read_idx,
         NEW checked \in Nat, checked <= m_read_idx, parse_content(b, checked)
  PROVE  ReadTypes'
<1>1. m_read_buf' \in Seq(Cells) /\ m_read_idx' = m_read_idx
  BY CellSet DEF parse_content, m_read_idx
<1>2. m_url \in Urls
  BY DEF parse_content, ReadTypes
<1>3. CASE m_read_idx >= m_content_length + checked
  <2>1. do_request /\ line_status' = "OK"
    BY <1>3 DEF parse_content
  <2>2. /\ m_read_ret' \in Verdicts /\ m_url' \in Urls
        /\ pc' \in {"out", "dead"}
        /\ m_file_address' \notin {NoMap, Garbage} => m_file_address'.url \in DOMAIN Files
    BY <1>2, <2>1, ReadTypesDecide
  <2> QED BY <1>1, <2>1, <2>2 DEF parse_content, ReadTypes, clientVars, parseVars
<1>4. CASE ~ (m_read_idx >= m_content_length + checked)
  BY <1>1, <1>4 DEF parse_content, ReadTypes, clientVars, parseVars
<1> QED BY <1>3, <1>4

LEMMA ReadTypesParse ==
  ASSUME ReadTypes, process_read
  PROVE  ReadTypes'
<1>1. CASE NoMoreLines
  <2>1. ReadBufOK /\ m_checked_index <= m_read_idx
    BY DEF ReadTypes, ReadBufOK
  <2>2. m_checked_index' \in m_checked_index..m_read_idx
    BY <1>1, <2>1, CutInBuffer DEF NoMoreLines
  <2> QED BY <1>1, <2>2 DEF NoMoreLines, ReadTypes, clientVars, parseVars,
     m_read_idx, Verdicts
<1>2. CASE RequestLine
  <2>1. CASE GoodLine(Line)
    BY <1>2, <2>1, ReadTypesLine DEF RequestLine, ReadTypes, clientVars, GoodLine, NextLine
  <2>2. CASE ~GoodLine(Line)
    BY <1>2, <2>2, ReadTypesLine DEF RequestLine, ReadTypes, clientVars, Decide, Verdicts
  <2> QED BY <2>1, <2>2
<1>3. CASE HeaderLine
  <2>1. m_linger' \in BOOLEAN
    BY <1>3 DEF HeaderLine, ReadTypes
  <2>2. NextLine /\ UNCHANGED <<pc, clientVars, m_check_state, m_method, m_url, m_string,
                               m_post_cgi, m_read_ret, m_file_address>>
    BY <1>3 DEF HeaderLine
  <2>3. m_content_length' \in Nat
    <3>1. m_content_length' \in {atol(Line[2]), m_content_length}
      BY <1>3 DEF HeaderLine
    <3>2. atol(Line[2]) \in Nat
      BY RequestsAssumption DEF atol
    <3> QED BY <3>1, <3>2 DEF ReadTypes
  <2> QED BY <2>1, <2>2, <2>3, ReadTypesLine DEF ReadTypes, clientVars
<1>4. CASE EndOfHeaders
  <2>1. CASE m_content_length # 0
    BY <1>4, <2>1, ReadTypesLine DEF EndOfHeaders, ReadTypes, clientVars
  <2>2. CASE m_content_length = 0
    <3>1. m_url \in Urls /\ do_request
      BY <1>4, <2>2 DEF EndOfHeaders, ReadTypes
    <3>2. /\ m_read_ret' \in Verdicts /\ m_url' \in Urls
          /\ pc' \in {"out", "dead"}
          /\ m_file_address' \notin {NoMap, Garbage} => m_file_address'.url \in DOMAIN Files
      BY <3>1, ReadTypesDecide
    <3> QED BY <1>4, <2>2, <3>2, ReadTypesLine DEF EndOfHeaders, ReadTypes,
       clientVars, NextLine
  <2> QED BY <2>1, <2>2
<1>5. CASE Content
  BY <1>5, ReadTypesContent DEF Content, ReadTypes, m_read_idx
<1>6. CASE LineInContent
  <2>1. /\ pc = "parse" /\ Terminated \in Seq(Cells) /\ Len(Terminated) = m_read_idx
        /\ LineStart + 2 \in Nat /\ LineStart + 2 <= m_read_idx
        /\ parse_content(Terminated, LineStart + 2)
    BY <1>6, LineFound DEF LineInContent, ReadTypes, ReadBufOK
  <2> QED BY <2>1, ReadTypesContent
<1> QED
  BY <1>1, <1>2, <1>3, <1>4, <1>5, <1>6 DEF process_read

LEMMA ReadTypesEnds ==
  ASSUME ReadTypes, WriteFails \/ Close \/ Accept \/ \E n \in Nat : WriteLast(n)
  PROVE  ReadTypes'
<1>1. CASE WriteFails
  BY <1>1 DEF WriteFails, ReadTypes, unmap, clientVars, bufferVars, parseVars, m_read_idx
<1>2. CASE Close
  BY <1>2, EmptyText DEF Close, ReadTypes, readVars, bufferVars, parseVars, m_read_idx
<1>3. ASSUME InitRead PROVE /\ m_read_buf' = <<>> /\ m_read_idx' = 0 /\ m_checked_index' = 0
                             /\ m_start_line' = 0 /\ m_check_state' = "REQUESTLINE"
                             /\ m_linger' = FALSE /\ m_content_length' = 0
  BY <1>3 DEF InitRead, InitParser, m_read_idx
<1>4. CASE Accept
  BY <1>3, <1>4, BufferAssumption, EmptyText DEF Accept, ReadTypes
<1>5. ASSUME NEW n \in Nat, WriteLast(n) PROVE ReadTypes'
  <2>1. CASE m_linger
    <3>1. /\ InitRead /\ pc' = "in" /\ pending' = FALSE /\ m_file_address' = NoMap
          /\ UNCHANGED <<asked, unsent, rx, line_status, m_post_cgi, m_read_ret>>
      BY <1>5, <2>1 DEF WriteLast, unmap
    <3>2. pending' \in BOOLEAN /\ ~pending' /\ m_linger' \in BOOLEAN
      BY <1>3, <3>1
    <3> QED BY <1>3, <3>1, <3>2, BufferAssumption, EmptyText DEF ReadTypes
  <2>2. CASE ~m_linger
    BY <1>5, <2>2 DEF WriteLast, ReadTypes, unmap, bufferVars, parseVars, m_read_idx
  <2> QED BY <2>1, <2>2
<1> QED
  BY <1>1, <1>2, <1>4, <1>5

\* The steps that leave the reading half alone.
LEMMA OtherSteps ==
  ASSUME ReadTypes,
         \/ WriteFile \/ WriteSpec \/ WriteJson \/ CopyJson \/ SendJson \/ WriteRefused
         \/ \E n \in Nat : WriteSome(n)
         \/ parse_data_frame
         \/ UNCHANGED vars
  PROVE  /\ UNCHANGED <<clientVars, readVars>>
         /\ pc' \in {"dead", "json", "copy", "write"} \/ pc' = pc
BY DEF WriteFile, WriteSpec, WriteJson, CopyJson, SendJson, WriteRefused, WriteSome,
       parse_data_frame, Publishing, Begin, vars

LEMMA ReadTypesInit ==
  ASSUME Init
  PROVE  ReadTypes
<1>1. pending \in BOOLEAN /\ ~pending /\ m_linger \in BOOLEAN
  BY DEF Init
<1>2. /\ pc = "in" /\ m_read_ret = "NO_REQUEST" /\ m_check_state = "REQUESTLINE"
      /\ line_status = "OK" /\ asked = NoRequest /\ m_file_address \in {NoMap, Garbage}
      /\ m_read_buf = <<>> /\ rx = <<>> /\ unsent = <<>>
      /\ m_start_line = 0 /\ m_checked_index = 0
      /\ m_content_length = 0 /\ m_post_cgi \in {0, 1}
  BY DEF Init
<1>3. m_read_idx = 0
  BY <1>2, EmptyText DEF m_read_idx
<1> QED BY <1>1, <1>2, <1>3, BufferAssumption, EmptyText DEF ReadTypes, Verdicts

LEMMA ReadTypesStep ==
  ASSUME ReadTypes, [Next]_vars
  PROVE  ReadTypes'
<1>1. 1..(iov0.len + Readable) \subseteq Nat
  OBVIOUS
<1>2. CASE Writing
  BY <1>1, <1>2, OtherSteps, ReadTypesKept, ReadTypesEnds DEF Writing
<1>3. CASE Reading
  BY <1>3, ReadTypesRecv, ReadTypesParse DEF Reading
<1> QED
  BY <1>2, <1>3, OtherSteps, ReadTypesKept, ReadTypesEnds, ReadTypesClient DEF Next

\* The types of the reading half hold in every state.
LEMMA ReadTypesInvariant == Spec => []ReadTypes
<1>1. Init => ReadTypes
  BY ReadTypesInit
<1> QED
  BY <1>1, ReadTypesStep, PTL DEF Spec

-----------------------------------------------------------------------------
(* The next line.                                                          *)

\* The buffer holds the line w from cell a on, as far as it goes, and the
\* parser has not looked beyond its words.
Facing(a, w) ==
  /\ a <= m_checked_index /\ m_checked_index <= a + Len(w)
  /\ \A i \in 1..Len(w) : a + i <= m_read_idx => m_read_buf[a + i] = w[i]
  /\ a + Len(w) + 1 <= m_read_idx => m_read_buf[a + Len(w) + 1] = CR
  /\ a + Len(w) + 2 <= m_read_idx => m_read_buf[a + Len(w) + 2] = LF

\* The first line end from m_checked_index on is the CR after the words of w.
LEMMA EndOfLine ==
  ASSUME ReadBufOK, NEW a \in Nat, NEW w \in Seq(Words), Facing(a, w)
  PROVE  /\ Ends = {} => m_read_idx <= a + Len(w)
         /\ Ends # {} => /\ LineEnd = a + Len(w)
                         /\ LineEnd < m_read_idx
                         /\ Cell(LineEnd) = CR
<1>1. m_read_idx \in Nat /\ Len(w) \in Nat /\ m_checked_index \in Nat
  BY DEF ReadBufOK, m_read_idx
<1>2. ASSUME NEW i \in Ends PROVE i >= a + Len(w)
  <2>1. SUFFICES ASSUME i < a + Len(w) PROVE FALSE
    BY <1>1 DEF Ends
  <2>2. /\ i \in Nat /\ i < m_read_idx /\ (i + 1) - a \in 1..Len(w)
        /\ a + ((i + 1) - a) = i + 1 /\ a + ((i + 1) - a) <= m_read_idx
        /\ Cell(i) \in {CR, LF}
    BY <1>1, <2>1 DEF Ends, Facing
  <2>3. m_read_buf[i + 1] = w[(i + 1) - a] /\ w[(i + 1) - a] \in Words
    BY <2>2 DEF Facing
  <2> QED BY <2>2, <2>3, CellsAreApart DEF Cell
<1>3. ASSUME a + Len(w) < m_read_idx
      PROVE  a + Len(w) \in Ends /\ Cell(a + Len(w)) = CR
  <2>1. m_read_buf[a + Len(w) + 1] = CR /\ (a + Len(w)) + 1 = a + Len(w) + 1
    BY <1>1, <1>3 DEF Facing
  <2> QED BY <1>1, <1>3, <2>1 DEF Ends, Cell, Facing
<1>4. CASE Ends = {}
  BY <1>1, <1>3, <1>4
<1>5. CASE Ends # {}
  <2>1. LineEnd \in Ends /\ \A i \in Ends : LineEnd <= i
    BY <1>5, FirstEnd
  <2>2. LineEnd \in Nat /\ LineEnd < m_read_idx /\ a + Len(w) <= LineEnd
    BY <1>1, <1>2, <2>1 DEF Ends
  <2>3. LineEnd = a + Len(w) /\ Cell(a + Len(w)) = CR
    BY <1>1, <1>3, <2>1, <2>2
  <2> QED BY <1>5, <2>2, <2>3
<1> QED BY <1>4, <1>5

\* The minimum of a set is the member that no other is below.
LEMMA LeastIs ==
  ASSUME NEW S \in SUBSET Nat, NEW m \in S, \A y \in S : m <= y
  PROVE  Min(S) = m
<1>1. \A x \in S : (\A y \in S : x <= y) => x = m
  OBVIOUS
<1> QED BY <1>1 DEF Min

\* A piece of a text.
LEMMA Piece ==
  ASSUME NEW S, NEW t \in Seq(S), NEW a \in Nat, NEW n \in Nat, a + n <= Len(t)
  PROVE  /\ SubSeq(t, a + 1, a + n) \in Seq(S)
         /\ Len(SubSeq(t, a + 1, a + n)) = n
         /\ \A i \in 1..n : SubSeq(t, a + 1, a + n)[i] = t[a + i]
<1>1. Len(t) \in Nat
  OBVIOUS
<1>2. \A i \in (a + 1)..(a + n) : t[i] \in S
  BY <1>1
<1>3. /\ SubSeq(t, a + 1, a + n) \in Seq(S)
      /\ Len(SubSeq(t, a + 1, a + n)) =
           IF a + 1 <= a + n THEN (a + n) - (a + 1) + 1 ELSE 0
      /\ \A i \in 1..((a + n) - (a + 1) + 1) :
           SubSeq(t, a + 1, a + n)[i] = t[(a + 1) + i - 1]
  BY <1>2, SubSeqProperties
<1>4. (a + n) - (a + 1) + 1 = n
  OBVIOUS
<1>5. ASSUME NEW i \in 1..n PROVE (a + 1) + i - 1 = a + i
  OBVIOUS
<1>6. Len(SubSeq(t, a + 1, a + n)) = n
  BY <1>3, <1>4
<1>7. \A i \in 1..n : SubSeq(t, a + 1, a + n)[i] = t[a + i]
  BY <1>3, <1>4, <1>5
<1> QED BY <1>3, <1>6, <1>7

\* Words up to a NUL are the text.
LEMMA TextIs ==
  ASSUME NEW b \in Seq(Cells), NEW a \in Nat, NEW w \in Seq(Cells),
         a + Len(w) <= Len(b),
         \A i \in 1..Len(w) : b[a + i] = w[i] /\ w[i] # NUL,
         a + Len(w) < Len(b) => b[a + Len(w) + 1] = NUL
  PROVE  Text(b, a) = w
<1> DEFINE nuls == {k \in (a + 1)..Len(b) : b[k] = NUL}
           last == IF nuls = {} THEN Len(b) ELSE Min(nuls) - 1
<1>1. Len(b) \in Nat /\ Len(w) \in Nat
  OBVIOUS
<1>2. ASSUME NEW k \in nuls PROVE k > a + Len(w)
  <2>1. SUFFICES ASSUME k <= a + Len(w) PROVE FALSE
    BY <1>1
  <2>2. k - a \in 1..Len(w) /\ a + (k - a) = k
    BY <1>1, <2>1
  <2> QED BY <2>2
<1>3. last = a + Len(w)
  <2>1. CASE a + Len(w) < Len(b)
    <3>1. a + Len(w) + 1 \in nuls
      BY <1>1, <2>1
    <3>2. nuls \in SUBSET Nat
      BY <1>1
    <3>3. a + Len(w) + 1 \in Nat /\ \A k \in nuls : a + Len(w) + 1 <= k
      BY <1>1, <1>2, <3>2
    <3> HIDE DEF nuls
    <3>4. Min(nuls) = a + Len(w) + 1
      BY <3>1, <3>2, <3>3, LeastIs
    <3> QED BY <1>1, <3>1, <3>4
  <2>2. CASE a + Len(w) = Len(b)
    <3>1. nuls = {}
      BY <1>1, <1>2, <2>2
    <3> QED BY <3>1, <2>2
  <2> QED BY <1>1, <2>1, <2>2
<1>4. Text(b, a) = SubSeq(b, a + 1, last)
  BY DEF Text
<1>5. Text(b, a) = SubSeq(b, a + 1, a + Len(w))
  BY <1>3, <1>4
<1> DEFINE n == Len(w)
<1> HIDE DEF nuls, last, n
<1>6. /\ SubSeq(b, a + 1, a + n) \in Seq(Cells)
      /\ Len(SubSeq(b, a + 1, a + n)) = n
      /\ \A i \in 1..n : SubSeq(b, a + 1, a + n)[i] = b[a + i]
  <2>1. n \in Nat /\ a + n <= Len(b)
    BY <1>1 DEF n
  <2> QED BY <2>1, Piece
<1> QED
  BY <1>5, <1>6, SeqEqual DEF n

\* A line that is complete is read as w.
LEMMA LineRead ==
  ASSUME ReadBufOK, NEW a \in Nat, NEW w \in Seq(Words), Facing(a, w), LineOk,
         m_start_line = a
  PROVE  Line = w /\ LineStart + 2 = a + Len(w) + 2
<1>1. /\ LineEnd = a + Len(w) /\ Cell(LineEnd) = CR
      /\ LineStart = a + Len(w)
  BY EndOfLine, LineFound DEF LineStart
<1>2. /\ Terminated \in Seq(Cells) /\ Len(Terminated) = m_read_idx
      /\ \A i \in 1..m_read_idx : Terminated[i] =
              IF i \in {a + Len(w) + 1, a + Len(w) + 2} THEN NUL ELSE m_read_buf[i]
      /\ a + Len(w) + 2 <= m_read_idx
      /\ m_read_idx \in Nat /\ Len(w) \in Nat
  BY <1>1, LineFound DEF ReadBufOK, m_read_idx
<1>3. \A i \in 1..Len(w) : Terminated[a + i] = w[i] /\ w[i] # NUL
  <2> SUFFICES ASSUME NEW i \in 1..Len(w)
               PROVE  Terminated[a + i] = w[i] /\ w[i] # NUL
    OBVIOUS
  <2>1. a + i \in 1..m_read_idx /\ a + i \notin {a + Len(w) + 1, a + Len(w) + 2}
    BY <1>2
  <2>2. m_read_buf[a + i] = w[i]
    BY <2>1 DEF Facing
  <2> QED BY <1>2, <2>1, <2>2, CellsAreApart
<1>4. Terminated[a + Len(w) + 1] = NUL
  BY <1>2
<1>5. w \in Seq(Cells)
  BY SeqMonotonic DEF Cells
<1>6. a + Len(w) < Len(Terminated)
  BY <1>2
<1>7. Line = Text(Terminated, a)
  BY DEF Line
<1> DEFINE b == Terminated
<1>8. b \in Seq(Cells) /\ a + Len(w) <= Len(b) /\ b[a + Len(w) + 1] = NUL
  BY <1>2, <1>4, <1>6
<1>9. \A i \in 1..Len(w) : b[a + i] = w[i] /\ w[i] # NUL
  BY <1>3
<1> HIDE DEF b
<1>10. Text(b, a) = w
  BY <1>5, <1>8, <1>9, TextIs
<1> QED BY <1>1, <1>2, <1>7, <1>10 DEF b

\* One that is not is open: it is never taken for a bad line.
LEMMA LineMissing ==
  ASSUME ReadBufOK, m_checked_index <= m_read_idx,
         NEW a \in Nat, NEW w \in Seq(Words), Facing(a, w), ~LineOk
  PROVE  /\ LineOpen
         /\ LineCut <= a + Len(w)
         /\ m_read_idx < a + Len(w) + 2
<1>1. m_read_idx \in Nat /\ Len(w) \in Nat
  BY DEF ReadBufOK, m_read_idx
<1>2. CASE Ends = {}
  BY <1>1, <1>2, EndOfLine DEF LineOpen, LineCut
<1>3. CASE Ends # {}
  <2>1. LineEnd = a + Len(w) /\ LineEnd < m_read_idx /\ Cell(LineEnd) = CR
    BY <1>3, EndOfLine
  <2>2. CASE LineEnd + 1 = m_read_idx
    BY <1>1, <1>3, <2>1, <2>2 DEF LineOpen, LineCut
  <2>3. CASE LineEnd + 1 # m_read_idx
    <3>1. m_read_buf[a + Len(w) + 2] = LF /\ (LineEnd + 1) + 1 = a + Len(w) + 2
      BY <1>1, <2>1, <2>3 DEF Facing
    <3>2. LineStart = LineEnd /\ CrLf(LineStart)
      BY <1>1, <2>1, <2>3, <3>1 DEF LineStart, CrLf, Cell
    <3> QED BY <1>3, <2>1, <2>3, <3>2, CellsAreApart DEF LineOk, LineOpen
  <2> QED BY <2>2, <2>3
<1> QED BY <1>2, <1>3

-----------------------------------------------------------------------------
(* What write() works on.                                                  *)

\* The same for the writing half.
LEMMA WriteTypesKept ==
  ASSUME WriteTypes, UNCHANGED <<iov0, bytes_have_send, rpc, frame>>
  PROVE  WriteTypes'
BY DEF WriteTypes

LEMMA WriteTypesPrepare ==
  ASSUME WriteTypes, NEW mem, NEW size, PrepareIovs(mem, size),
         UNCHANGED <<bytes_have_send, rpc, frame>>
  PROVE  WriteTypes'
BY SizesAssumption DEF PrepareIovs, WriteTypes

LEMMA WriteTypesAdvance ==
  ASSUME WriteTypes, NEW n \in Nat \ {0}, NEW left, Advance(n, bytes_have_send + n, left)
  PROVE  iov0' \in [base : 0..HeaderSize, len : 0..HeaderSize]
<1>1. /\ iov0 \in [base : 0..HeaderSize, len : 0..HeaderSize]
      /\ bytes_have_send \in Nat /\ HeaderSize \in Nat
  BY SizesAssumption DEF WriteTypes
<1>2. CASE bytes_have_send + n >= iov0.len
  BY <1>1, <1>2 DEF Advance, AdvanceTo
<1>3. CASE ~(bytes_have_send + n >= iov0.len)
  <2>1. iov0' = [base |-> bytes_have_send + n, len |-> iov0.len - n]
    BY <1>3 DEF Advance, AdvanceTo
  <2>2. bytes_have_send + n \in 0..HeaderSize /\ iov0.len - n \in 0..HeaderSize
    BY <1>1, <1>3
  <2> QED BY <2>1, <2>2
<1> QED BY <1>2, <1>3

LEMMA WriteTypesFrames ==
  ASSUME WriteTypes, parse_data_frame
  PROVE  WriteTypes'
<1>1. Len(JsonLength) \in Nat
  BY SizesAssumption
<1> QED
  BY <1>1 DEF parse_data_frame, Publishing, WriteTypes, writeVars, Frames

LEMMA WriteTypesStep ==
  ASSUME WriteTypes, [Next]_vars
  PROVE  WriteTypes'
<1>1. CASE Client \/ UNCHANGED vars
  BY <1>1, WriteTypesKept DEF Client, vars, writeVars, sharedVars
<1>2. CASE Reading \/ Close \/ WriteFails \/ WriteRefused
  BY <1>2, WriteTypesKept DEF Reading, Close, WriteFails, WriteRefused, writeVars, sharedVars
<1>3. CASE WriteFile \/ WriteSpec \/ SendJson
  BY <1>3, WriteTypesPrepare DEF WriteFile, WriteSpec, SendJson, Begin, sharedVars
<1>4. CASE WriteJson \/ CopyJson
  BY <1>4, WriteTypesKept DEF WriteJson, CopyJson, Begin, sharedVars
<1>5. ASSUME NEW n \in Nat \ {0}, WriteSome(n)
      PROVE  WriteTypes'
  BY <1>5, WriteTypesAdvance DEF WriteSome, WriteTypes, sharedVars
<1>6. ASSUME NEW n \in Nat \ {0}, WriteLast(n)
      PROVE  WriteTypes'
  <2>1. bytes_have_send' \in Nat
    BY <1>6 DEF WriteLast, InitWrite, WriteTypes
  <2>2. iov0' \in [base : 0..HeaderSize, len : 0..HeaderSize]
    BY <1>6, WriteTypesAdvance DEF WriteLast
  <2>3. UNCHANGED <<rpc, frame>>
    BY <1>6 DEF WriteLast, sharedVars
  <2> QED BY <2>1, <2>2, <2>3 DEF WriteTypes
<1>7. CASE Accept
  BY <1>7 DEF Accept, InitWrite, WriteTypes, sharedVars
<1>8. 1..(iov0.len + Readable) \subseteq Nat \ {0}
  OBVIOUS
<1> QED
  BY <1>1, <1>2, <1>3, <1>4, <1>5, <1>6, <1>7, <1>8, WriteTypesFrames DEF Next, Writing

\* The types of the writing half hold in every state.
LEMMA WriteTypesInvariant == Spec => []WriteTypes
<1>1. Len(JsonLength) \in Nat /\ Len(JsonLength) # 0
  BY SizesAssumption, EmptySeq
<1>2. HeaderSize \in Nat
  BY SizesAssumption
<1>3. Init => WriteTypes
  <2> SUFFICES ASSUME Init PROVE WriteTypes
    OBVIOUS
  <2>1. iov0 = [base |-> 0, len |-> 0] /\ bytes_have_send = 0 /\ rpc = "spec" /\ frame = 1
    BY DEF Init
  <2>2. 1 \in Frames
    BY <1>1 DEF Frames
  <2> QED BY <1>2, <2>1, <2>2 DEF WriteTypes
<1> QED
  BY <1>3, WriteTypesStep, PTL DEF Spec

\* TypeOK: whatever a client sends and whatever length it announces, as long as
\* it is not negative (RequestsAssumption), the indices of the parser stay in
\* order and inside the buffer, the one parse_content writes its NUL at as well,
\* and a full buffer is never handed to it (http_conn.cpp 132-155, 308-347).
THEOREM TypeCorrect == Spec => []TypeOK
<1>1. ReadTypes /\ WriteTypes => TypeOK
  <2> SUFFICES ASSUME ReadTypes, WriteTypes PROVE TypeOK
    OBVIOUS
  <2>1. iov0.base \in 0..HeaderSize /\ iov0.len \in 0..HeaderSize
    BY DEF WriteTypes
  <2>2. pc = "parse" /\ m_read_idx >= m_content_length + m_checked_index =>
          m_start_line + m_content_length \in 0..(READ_BUFFER_SIZE - 1)
    <3>1. /\ m_read_idx \in Nat /\ READ_BUFFER_SIZE \in Nat /\ m_content_length \in Nat
          /\ m_start_line \in Nat /\ m_checked_index \in Nat
          /\ m_start_line <= m_checked_index
          /\ pc = "parse" => m_read_idx < READ_BUFFER_SIZE
      BY BufferAssumption DEF ReadTypes, m_read_idx
    <3> QED BY <3>1
  <2> QED BY <2>1, <2>2 DEF ReadTypes, WriteTypes, TypeOK
<1> QED
  BY <1>1, ReadTypesInvariant, WriteTypesInvariant, PTL

-----------------------------------------------------------------------------
(* Where the cells of the request are.                                     *)

\* Every request announces the length its body has.
Announced == \A r \in Requests : WellAnnounced(r)

\* From cell a on, what has been read is still as the client sent it.
Ahead(r, a) == \A i \in (a + 1)..m_read_idx : m_read_buf[i] = Stream(r)[i]

\* What the parser knows of r when it has had k of its lines.
Known(r, k) ==
  /\ k > 0 => GoodLine(r.line) /\ m_method = r.line[1] /\ m_url = r.line[2]
  /\ m_linger = (\E i \in 1..(k - 1) : r.headers[i] = <<"Connection:", "keep-alive">>)
  /\ m_content_length = IF \E i \in 1..(k - 1) : r.headers[i][1] = "Content-Length:"
                        THEN Len(r.body) ELSE 0

\* The parser has had k lines of r and is in the next one.
AtLine(r, k) ==
  /\ m_check_state = IF k = 0 THEN "REQUESTLINE" ELSE "HEADER"
  /\ Known(r, k)
  /\ m_start_line = Cut(r)[k]
  /\ Cut(r)[k] <= m_checked_index
  /\ m_checked_index <= Cut(r)[k] + Len(Lines(r)[k + 1])
  /\ Ahead(r, Cut(r)[k])
  /\ pc = "in" => m_read_idx < Cut(r)[k + 1]

\* The parser waits for the body of r.  Once read() has stopped inside the
\* body nothing is known of where the parser takes it to begin.
InBody(r) ==
  /\ m_check_state = "CONTENT"
  /\ Known(r, LineCount(r) - 1)
  /\ m_content_length # 0
  /\ Len(HeadOf(r)) <= m_checked_index
  /\ m_checked_index = Len(HeadOf(r)) =>
       m_start_line = Len(HeadOf(r)) /\ Ahead(r, Len(HeadOf(r)))
  /\ bodyCut \/ m_checked_index = Len(HeadOf(r))
  /\ pc = "in" \/ line_status = "OPEN" => bodyCut \/ m_read_idx < Len(Stream(r))

\* Read as far as into the body.
PartOfBody(r) == m_read_idx \in (Len(HeadOf(r)) + 1)..(Len(Stream(r)) - 1)

\* The parser is at one of the lines of the request, or waits for its body.
Parsing ==
  \A r \in Requests :
    pending /\ asked = r /\ pc \in {"in", "parse"} =>
      /\ InBody(r) \/ \E k \in 0..(LineCount(r) - 1) : AtLine(r, k)
      /\ PartOfBody(r) => bodyCut

\* A request is in the buffer, in the socket and with the client, in this
\* order, each cell in one place.
Placed(r) ==
  /\ m_read_idx + Len(rx) + Len(unsent) = Len(Stream(r))
  /\ \A i \in 1..Len(rx) : rx[i] = Stream(r)[m_read_idx + i]
  /\ \A i \in 1..Len(unsent) : unsent[i] = Stream(r)[m_read_idx + Len(rx) + i]

\* No byte of a request is lost or left over from another one; between two
\* requests the object is as init() leaves it.
Flow ==
  /\ \A r \in Requests : pending /\ asked = r => Placed(r)
  /\ pending => pc \notin {"over", "closed"}
  /\ ~pending => rx = <<>> /\ unsent = <<>> /\ pc \in {"in", "over", "closed"}
  /\ ~pending /\ pc = "in" =>
       /\ m_read_buf = <<>> /\ m_checked_index = 0 /\ m_start_line = 0
       /\ m_check_state = "REQUESTLINE" /\ ~m_linger /\ m_content_length = 0
  /\ pc \in {"out", "json", "copy", "write"} => m_read_idx = Len(Stream(asked))
  /\ pc = "deaf" => m_read_idx = READ_BUFFER_SIZE

\* Only a verdict that can be answered leads on to a response.
Answerable ==
  pc \in {"out", "json", "copy", "write"} =>
    m_read_ret \in {"FILE_REQUEST", "FILE_SPEC", "FILE_JSON"} /\ GoodLine(asked.line)

\* The invariant of the reading half.
ReadInv == ReadTypes /\ Flow /\ Parsing /\ RightVerdict /\ Answerable

LEMMA Lengths ==
  ASSUME ReadTypes
  PROVE  /\ m_read_idx \in Nat /\ Len(rx) \in Nat /\ Len(unsent) \in Nat
         /\ m_read_buf \in Seq(Cells) /\ rx \in Seq(Cells) /\ unsent \in Seq(Cells)
         /\ READ_BUFFER_SIZE \in Nat /\ m_read_idx <= READ_BUFFER_SIZE
         /\ m_checked_index \in Nat /\ m_checked_index <= m_read_idx
         /\ ReadBufOK
BY BufferAssumption DEF ReadTypes, m_read_idx, ReadBufOK

\* Three pieces of a text, and the same three cut otherwise.
LEMMA PiecesMoved ==
  ASSUME NEW x \in Seq(Cells), NEW y \in Seq(Cells), NEW n \in 0..Len(y),
         NEW a \in Nat, NEW t \in Seq(Cells),
         \A i \in 1..Len(x) : x[i] = t[a + i],
         \A i \in 1..Len(y) : y[i] = t[a + Len(x) + i]
  PROVE  /\ x \o SubSeq(y, 1, n) \in Seq(Cells)
         /\ Len(x \o SubSeq(y, 1, n)) = Len(x) + n
         /\ \A i \in 1..(Len(x) + n) : (x \o SubSeq(y, 1, n))[i] = t[a + i]
         /\ SubSeq(y, n + 1, Len(y)) \in Seq(Cells)
         /\ Len(SubSeq(y, n + 1, Len(y))) = Len(y) - n
         /\ \A i \in 1..(Len(y) - n) :
              SubSeq(y, n + 1, Len(y))[i] = t[a + (Len(x) + n) + i]
<1>1. Len(x) \in Nat /\ Len(y) \in Nat /\ n \in Nat /\ n <= Len(y)
  OBVIOUS
<1> DEFINE u == SubSeq(y, 1, n)
           v == SubSeq(y, n + 1, Len(y))
<1>2. u \in Seq(Cells) /\ Len(u) = n /\ \A i \in 1..n : u[i] = y[i]
  BY <1>1
<1>3. v \in Seq(Cells) /\ Len(v) = Len(y) - n /\ \A i \in 1..(Len(y) - n) : v[i] = y[n + i]
  BY <1>1
<1> HIDE DEF u, v
<1> DEFINE c == x \o u
<1>4. /\ c \in Seq(Cells) /\ Len(c) = Len(x) + n
      /\ \A i \in 1..(Len(x) + n) : c[i] = IF i <= Len(x) THEN x[i] ELSE u[i - Len(x)]
  BY <1>2, ConcatProperties
<1> HIDE DEF c
<1>5. \A i \in 1..(Len(x) + n) : c[i] = t[a + i]
  <2> SUFFICES ASSUME NEW i \in 1..(Len(x) + n) PROVE c[i] = t[a + i]
    OBVIOUS
  <2>1. CASE i <= Len(x)
    <3>1. i \in 1..Len(x)
      BY <1>1, <2>1
    <3>2. c[i] = x[i]
      BY <1>4, <2>1
    <3> QED BY <3>1, <3>2
  <2>2. CASE i > Len(x)
    <3> DEFINE k == i - Len(x)
    <3>1. k \in 1..n /\ k \in 1..Len(y) /\ a + Len(x) + k = a + i
      BY <1>1, <2>2
    <3>2. c[i] = u[k]
      BY <1>1, <1>4, <2>2
    <3> HIDE DEF k
    <3>3. c[i] = y[k] /\ y[k] = t[a + Len(x) + k]
      BY <1>2, <3>1, <3>2
    <3> QED BY <3>1, <3>3
  <2> QED BY <1>1, <2>1, <2>2
<1>6. \A i \in 1..(Len(y) - n) : v[i] = t[a + (Len(x) + n) + i]
  <2> SUFFICES ASSUME NEW i \in 1..(Len(y) - n) PROVE v[i] = t[a + (Len(x) + n) + i]
    OBVIOUS
  <2>1. n + i \in 1..Len(y) /\ a + Len(x) + (n + i) = a + (Len(x) + n) + i
    BY <1>1
  <2> QED BY <1>3, <2>1
<1> QED BY <1>3, <1>4, <1>5, <1>6 DEF u, v, c

-----------------------------------------------------------------------------
(* The steps of the client and of read().                                  *)

\* Where the parser is depends on the object and pc only.
LEMMA LinesKept ==
  ASSUME NEW r, UNCHANGED readVars, UNCHANGED <<pc, bodyCut>>
  PROVE  /\ InBody(r) => InBody(r)'
         /\ PartOfBody(r)' => PartOfBody(r)
         /\ \A k \in 0..(LineCount(r) - 1) : AtLine(r, k) => AtLine(r, k)'
<1>1. /\ UNCHANGED <<m_read_buf, m_checked_index, m_start_line, m_check_state>>
      /\ UNCHANGED <<line_status, m_method, m_url, m_linger, m_content_length>>
  BY DEF readVars, bufferVars, parseVars
<1>2. m_read_idx' = m_read_idx
  BY <1>1 DEF m_read_idx
<1>3. ASSUME NEW k, Known(r, k) PROVE Known(r, k)'
  BY <1>1, <1>3 DEF Known
<1>4. ASSUME NEW a, Ahead(r, a) PROVE Ahead(r, a)'
  BY <1>1, <1>2, <1>4 DEF Ahead
<1>5. InBody(r) => InBody(r)'
  BY <1>1, <1>2, <1>3, <1>4 DEF InBody
<1>6. ASSUME NEW k, AtLine(r, k) PROVE AtLine(r, k)'
  BY <1>1, <1>2, <1>3, <1>4, <1>6 DEF AtLine
<1>7. PartOfBody(r)' => PartOfBody(r)
  BY <1>2 DEF PartOfBody
<1> QED BY <1>5, <1>6, <1>7

\* One lemma per step that the invariant has to survive.
LEMMA ParsingKept ==
  ASSUME Parsing, UNCHANGED <<asked, pending, bodyCut, readVars>>,
         pc' = pc \/ pc' \notin {"in", "parse"}
  PROVE  Parsing'
<1>1. CASE pc' = pc
  BY <1>1, LinesKept DEF Parsing
<1>2. CASE pc' \notin {"in", "parse"}
  BY <1>2 DEF Parsing
<1> QED BY <1>1, <1>2

LEMMA ReadInvKept ==
  ASSUME ReadInv, ReadTypes', UNCHANGED <<clientVars, readVars>>,
         \/ pc' = pc
         \/ /\ pc \in {"out", "json", "copy", "write"}
            /\ pc' \in {"json", "copy", "write", "dead"}
  PROVE  ReadInv'
<1>1. Parsing'
  <2>1. UNCHANGED <<asked, pending, bodyCut, readVars>>
    BY DEF clientVars
  <2>2. pc' = pc \/ pc' \notin {"in", "parse"}
    OBVIOUS
  <2>3. Parsing
    BY DEF ReadInv
  <2> QED BY <2>1, <2>2, <2>3, ParsingKept
<1>2. Flow'
  BY DEF ReadInv, Flow, Placed, m_read_idx, clientVars, readVars, bufferVars, parseVars
<1>3. RightVerdict' /\ Answerable'
  BY DEF ReadInv, RightVerdict, RightUrls, Answerable, clientVars, readVars, bufferVars,
     parseVars
<1> QED BY <1>1, <1>2, <1>3 DEF ReadInv

LEMMA ReadInvAsk ==
  ASSUME ReadInv, ReadTypes', NEW r \in Requests, Ask(r)
  PROVE  ReadInv'
<1>1. /\ pc = "in" /\ ~pending /\ rx = <<>>
      /\ m_read_buf = <<>> /\ m_checked_index = 0 /\ m_start_line = 0
      /\ m_check_state = "REQUESTLINE" /\ ~m_linger /\ m_content_length = 0
  BY DEF ReadInv, Flow, Ask
<1>2. /\ pending' /\ asked' = r /\ unsent' = Stream(r) /\ rx' = <<>> /\ pc' = "in"
      /\ m_read_buf' = <<>> /\ m_checked_index' = 0 /\ m_start_line' = 0
      /\ m_check_state' = "REQUESTLINE" /\ ~m_linger' /\ m_content_length' = 0
  BY <1>1 DEF Ask, readVars, bufferVars, parseVars
<1>3. m_read_idx' = 0
  BY <1>2, EmptyText DEF m_read_idx
<1>4. Stream(r) \in Seq(Cells) /\ Len(Stream(r)) \in Nat /\ Len(HeadOf(r)) \in Nat
  BY StreamShape
<1>5. Flow'
  <2>1. Placed(r)'
    BY <1>2, <1>3, <1>4, EmptyText DEF Placed
  <2> QED BY <1>2, <2>1 DEF Flow
<1>6. Parsing'
  <2>1. LineCount(r) \in Nat /\ LineCount(r) >= 2 /\ 0 \in 0..(LineCount(r) - 1)
    BY LinesShape
  <2>2. /\ Cut(r)[0] = 0 /\ Len(Lines(r)[1]) \in Nat /\ Cut(r)[1] = Len(Lines(r)[1]) + 2
    <3>1. /\ Cut(r)[0] = 0 /\ Lines(r)[0 + 1] \in Seq(Words)
          /\ Cut(r)[0 + 1] = Cut(r)[0] + Len(Lines(r)[0 + 1]) + 2
      BY <2>1, LineShape
    <3> QED BY <3>1
  <2>3. Known(r, 0)'
    <3>1. m_linger' = FALSE
      BY <1>2 DEF ReadTypes
    <3>2. 1..(0 - 1) = {} /\ ~(0 > 0)
      OBVIOUS
    <3> QED BY <1>2, <3>1, <3>2 DEF Known
  <2>4. Ahead(r, 0)'
    BY <1>3 DEF Ahead
  <2>5. AtLine(r, 0)'
    BY <1>2, <1>3, <2>2, <2>3, <2>4 DEF AtLine
  <2>6. ~PartOfBody(r)'
    BY <1>3, <1>4 DEF PartOfBody
  <2> QED BY <1>2, <2>1, <2>5, <2>6 DEF Parsing
<1>7. RightVerdict' /\ Answerable'
  BY <1>2 DEF RightVerdict, Answerable
<1> QED BY <1>5, <1>6, <1>7 DEF ReadInv

LEMMA ReadInvDeliver ==
  ASSUME ReadInv, ReadTypes', NEW n \in 1..Len(unsent), Deliver(n)
  PROVE  ReadInv'
<1>1. pending /\ asked \in Requests
  BY EmptyText DEF ReadInv, Flow, ReadTypes
<1>2. PICK r \in Requests : r = asked
  BY <1>1
<1>3. Placed(r)
  BY <1>1, <1>2 DEF ReadInv, Flow
<1>4. Stream(r) \in Seq(Cells)
  BY StreamShape
<1>5. n \in 0..Len(unsent) /\ n \in Nat
  BY Lengths DEF ReadInv
<1>6. /\ rx' = rx \o SubSeq(unsent, 1, n)
      /\ unsent' = SubSeq(unsent, n + 1, Len(unsent))
      /\ UNCHANGED <<client, asks, asked, pending, bodyCut, pc, readVars>>
  BY DEF Deliver
<1>7. m_read_idx' = m_read_idx
  BY <1>6 DEF readVars, bufferVars, m_read_idx
<1>8. /\ Len(rx') = Len(rx) + n /\ Len(unsent') = Len(unsent) - n
      /\ \A i \in 1..(Len(rx) + n) : rx'[i] = Stream(r)[m_read_idx + i]
      /\ \A i \in 1..(Len(unsent) - n) :
           unsent'[i] = Stream(r)[m_read_idx + (Len(rx) + n) + i]
  <2>1. /\ m_read_idx \in Nat /\ rx \in Seq(Cells) /\ unsent \in Seq(Cells)
        /\ \A i \in 1..Len(rx) : rx[i] = Stream(r)[m_read_idx + i]
        /\ \A i \in 1..Len(unsent) : unsent[i] = Stream(r)[m_read_idx + Len(rx) + i]
    BY <1>3, Lengths DEF ReadInv, Placed
  <2>2. /\ Len(rx \o SubSeq(unsent, 1, n)) = Len(rx) + n
        /\ \A i \in 1..(Len(rx) + n) :
             (rx \o SubSeq(unsent, 1, n))[i] = Stream(r)[m_read_idx + i]
        /\ Len(SubSeq(unsent, n + 1, Len(unsent))) = Len(unsent) - n
        /\ \A i \in 1..(Len(unsent) - n) :
             SubSeq(unsent, n + 1, Len(unsent))[i] =
               Stream(r)[m_read_idx + (Len(rx) + n) + i]
    BY <1>4, <1>5, <2>1, PiecesMoved
  <2> QED BY <1>6, <2>2
<1>9. Flow'
  <2>1. Placed(r)'
    <3>1. m_read_idx + (Len(rx) + n) + (Len(unsent) - n) = Len(Stream(r))
      BY <1>3, <1>5, Lengths DEF Placed, ReadInv
    <3> QED BY <1>7, <1>8, <3>1 DEF Placed
  <2>2. asked' = r /\ pending' /\ pc' = pc
    BY <1>1, <1>2, <1>6
  <2> QED BY <1>1, <1>2, <1>6, <1>7, <2>1, <2>2 DEF Flow, ReadInv
<1>10. Parsing'
  BY <1>6, ParsingKept DEF ReadInv
<1>11. RightVerdict' /\ Answerable'
  BY <1>6 DEF ReadInv, RightVerdict, RightUrls, Answerable, readVars, bufferVars, parseVars
<1> QED BY <1>9, <1>10, <1>11 DEF ReadInv

LEMMA ReadInvRecv ==
  ASSUME ReadInv, ReadTypes', Recv
  PROVE  ReadInv'
<1>1. pending /\ asked \in Requests /\ pc = "in"
  BY EmptyText DEF ReadInv, Flow, ReadTypes, Recv, TakeAll
<1>2. PICK r \in Requests : r = asked
  BY <1>1
<1>3. Placed(r)
  BY <1>1, <1>2 DEF ReadInv, Flow
<1>4. /\ Stream(r) \in Seq(Cells) /\ Len(HeadOf(r)) \in Nat /\ Len(r.body) \in Nat
      /\ Len(Stream(r)) = Len(HeadOf(r)) + Len(r.body)
  BY StreamShape
<1>5. /\ UNCHANGED <<asked, pending, unsent, m_checked_index, m_start_line, parseVars>>
      /\ bodyCut' = (bodyCut \/ Len(unsent) \in 1..(Len(asked.body) - 1))
      /\ line_status' = "OK"
  BY DEF Recv, TakeAll
<1>6. /\ m_read_idx \in Nat /\ Len(rx) \in Nat /\ Len(unsent) \in Nat
      /\ m_read_buf \in Seq(Cells) /\ rx \in Seq(Cells)
  BY Lengths DEF ReadInv
<1>7. CASE Len(rx) < Room
  <2>1. m_read_buf' = m_read_buf \o rx /\ rx' = <<>> /\ pc' = "parse"
    BY <1>7 DEF Recv, TakeAll
  <2>2. /\ m_read_idx' = m_read_idx + Len(rx)
        /\ \A i \in 1..(m_read_idx + Len(rx)) :
             m_read_buf'[i] = IF i <= m_read_idx THEN m_read_buf[i] ELSE rx[i - m_read_idx]
    BY <1>6, <2>1, ConcatProperties DEF m_read_idx
  <2>3. Flow'
    <3>1. Placed(r)'
      BY <1>3, <1>5, <1>6, <2>1, <2>2, EmptyText DEF Placed
    <3>2. asked' = r /\ pending'
      BY <1>1, <1>2, <1>5
    <3> QED BY <2>1, <3>1, <3>2 DEF Flow
  <2>4. ASSUME NEW a \in Nat, Ahead(r, a)
        PROVE  Ahead(r, a)'
    <3>1. SUFFICES ASSUME NEW i \in (a + 1)..(m_read_idx + Len(rx))
                   PROVE  m_read_buf'[i] = Stream(r)[i]
      BY <2>2 DEF Ahead
    <3>2. CASE i <= m_read_idx
      BY <1>6, <2>2, <2>4, <3>2 DEF Ahead
    <3>3. CASE i > m_read_idx
      <4> DEFINE k == i - m_read_idx
      <4>1. k \in 1..Len(rx) /\ m_read_idx + k = i
        BY <1>6, <3>3
      <4>2. m_read_buf'[i] = rx[k]
        BY <1>6, <2>2, <3>3
      <4> HIDE DEF k
      <4>3. rx[k] = Stream(r)[m_read_idx + k]
        BY <1>3, <4>1 DEF Placed
      <4> QED BY <4>1, <4>2, <4>3
    <3> QED BY <1>6, <3>2, <3>3
  <2>5. ASSUME NEW k \in Nat, Known(r, k)
        PROVE  Known(r, k)'
    BY <1>5, <2>5 DEF Known, parseVars
  <2>6. PartOfBody(r)' => bodyCut'
    <3>1. m_read_idx + Len(rx) + Len(unsent) = Len(HeadOf(r)) + Len(r.body)
      BY <1>3, <1>4 DEF Placed
    <3>2. bodyCut' = (bodyCut \/ Len(unsent) \in 1..(Len(r.body) - 1))
      BY <1>2, <1>5
    <3>3. SUFFICES ASSUME m_read_idx + Len(rx) \in (Len(HeadOf(r)) + 1)..(Len(Stream(r)) - 1)
                   PROVE  Len(unsent) \in 1..(Len(r.body) - 1)
      BY <2>2, <3>2 DEF PartOfBody
    <3> QED BY <1>4, <1>6, <3>1, <3>3
  <2>7. ASSUME NEW k \in 0..(LineCount(r) - 1), AtLine(r, k)
        PROVE  AtLine(r, k)'
    <3>1. k \in Nat /\ Cut(r)[k] \in Nat
      BY LineShape
    <3> QED BY <1>5, <2>1, <2>4, <2>5, <2>7, <3>1 DEF AtLine, parseVars
  <2>8. ASSUME InBody(r)
        PROVE  InBody(r)'
    <3>1. LineCount(r) - 1 \in Nat
      BY LinesShape
    <3> QED BY <1>4, <1>5, <2>1, <2>4, <2>5, <2>8, <3>1 DEF InBody, parseVars
  <2>9. Parsing'
    <3>1. InBody(r) \/ \E k \in 0..(LineCount(r) - 1) : AtLine(r, k)
      BY <1>1, <1>2 DEF ReadInv, Parsing
    <3>2. InBody(r)' \/ \E k \in 0..(LineCount(r) - 1) : AtLine(r, k)'
      BY <2>7, <2>8, <3>1
    <3>3. asked' = r
      BY <1>2, <1>5
    <3> QED BY <2>6, <3>2, <3>3 DEF Parsing
  <2> QED BY <2>1, <2>3, <2>9 DEF ReadInv, RightVerdict, Answerable
<1>8. CASE ~(Len(rx) < Room)
  <2>1. /\ m_read_buf' = m_read_buf \o SubSeq(rx, 1, Room)
        /\ rx' = SubSeq(rx, Room + 1, Len(rx)) /\ pc' = "deaf"
    BY <1>8 DEF Recv, TakeAll
  <2>2. Room \in 0..Len(rx) /\ READ_BUFFER_SIZE \in Nat
    BY <1>6, <1>8, Lengths DEF Room, ReadInv
  <2>3. /\ SubSeq(rx, 1, Room) \in Seq(Cells) /\ Len(SubSeq(rx, 1, Room)) = Room
        /\ Len(SubSeq(rx, Room + 1, Len(rx))) = Len(rx) - Room
        /\ \A i \in 1..(Len(rx) - Room) : SubSeq(rx, Room + 1, Len(rx))[i] = rx[Room + i]
    BY <1>6, <2>2
  <2>4. m_read_idx' = m_read_idx + Room /\ m_read_idx' = READ_BUFFER_SIZE
    <3>1. Len(m_read_buf') = Len(m_read_buf) + Room
      BY <1>6, <2>1, <2>3, ConcatProperties
    <3>2. m_read_idx' = m_read_idx + Room
      BY <3>1 DEF m_read_idx
    <3> QED BY <1>6, <2>2, <3>2 DEF Room
  <2>5. Placed(r)'
    <3>1. m_read_idx + Room + (Len(rx) - Room) + Len(unsent) = Len(Stream(r))
      BY <1>3, <1>6, <2>2 DEF Placed
    <3>2. ASSUME NEW i \in 1..(Len(rx) - Room)
          PROVE  rx'[i] = Stream(r)[(m_read_idx + Room) + i]
      <4> DEFINE k == Room + i
      <4>1. k \in 1..Len(rx) /\ m_read_idx + k = (m_read_idx + Room) + i
        BY <1>6, <2>2
      <4>2. rx'[i] = rx[k]
        BY <2>1, <2>3
      <4> HIDE DEF k
      <4> QED BY <1>3, <4>1, <4>2 DEF Placed
    <3>3. (m_read_idx + Room) + (Len(rx) - Room) = m_read_idx + Len(rx)
      BY <1>6, <2>2
    <3>4. /\ Len(rx') = Len(rx) - Room /\ unsent' = unsent
          /\ m_read_idx' + Len(rx') = m_read_idx + Len(rx)
      BY <1>5, <2>1, <2>3, <2>4, <3>3
    <3>5. \A i \in 1..Len(unsent) : unsent'[i] = Stream(r)[m_read_idx' + Len(rx') + i]
      BY <1>3, <3>4 DEF Placed
    <3> QED BY <2>4, <3>1, <3>2, <3>4, <3>5 DEF Placed
  <2>6. asked' = r /\ pending'
    BY <1>1, <1>2, <1>5
  <2>7. Flow'
    BY <2>1, <2>4, <2>5, <2>6 DEF Flow
  <2>8. Parsing' /\ RightVerdict' /\ Answerable'
    BY <2>1 DEF Parsing, RightVerdict, Answerable
  <2> QED
    BY <2>7, <2>8 DEF ReadInv
<1> QED BY <1>7, <1>8

-----------------------------------------------------------------------------
(* The steps of the parser.                                                *)

\* A step of the parser moves no cell.
LEMMA FlowParse ==
  ASSUME ReadInv, pc = "parse", UNCHANGED clientVars, m_read_idx' = m_read_idx,
         \/ pc' \in {"in", "parse", "dead"}
         \/ pc' = "out" /\ m_read_idx = Len(Stream(asked))
  PROVE  Flow'
<1>1. pending
  BY DEF ReadInv, Flow
<1> QED
  BY <1>1 DEF ReadInv, Flow, Placed, clientVars

\* At line k + 1 the buffer holds the cells of that line, as far as it goes.
LEMMA FacingLine ==
  ASSUME ReadInv, NEW r \in Requests, NEW k \in 0..(LineCount(r) - 1), AtLine(r, k)
  PROVE  Facing(Cut(r)[k], Lines(r)[k + 1])
<1> DEFINE a == Cut(r)[k]
           w == Lines(r)[k + 1]
<1>1. a \in Nat /\ w \in Seq(Words) /\ LineAt(Stream(r), w, a)
  BY LineShape
<1>2. /\ a <= m_checked_index /\ m_checked_index <= a + Len(w)
      /\ Ahead(r, a)
  BY DEF AtLine
<1>3. m_read_idx \in Nat /\ Len(w) \in Nat
  BY <1>1, Lengths DEF ReadInv
<1> HIDE DEF a, w
<1>4. ASSUME NEW i \in 1..(Len(w) + 2), a + i <= m_read_idx
      PROVE  m_read_buf[a + i] = Stream(r)[a + i]
  <2>1. a + i \in (a + 1)..m_read_idx
    BY <1>1, <1>3, <1>4
  <2> QED BY <1>2, <2>1 DEF Ahead
<1>5. ASSUME NEW i \in 1..Len(w), a + i <= m_read_idx
      PROVE  m_read_buf[a + i] = w[i]
  <2>1. i \in 1..(Len(w) + 2)
    BY <1>3
  <2>2. Stream(r)[a + i] = w[i]
    BY <1>1 DEF LineAt
  <2> QED BY <1>4, <1>5, <2>1, <2>2
<1>6. a + Len(w) + 1 <= m_read_idx => m_read_buf[a + Len(w) + 1] = CR
  <2>1. Len(w) + 1 \in 1..(Len(w) + 2) /\ a + (Len(w) + 1) = a + Len(w) + 1
    BY <1>1, <1>3
  <2> QED BY <1>1, <1>4, <2>1 DEF LineAt
<1>7. a + Len(w) + 2 <= m_read_idx => m_read_buf[a + Len(w) + 2] = LF
  <2>1. Len(w) + 2 \in 1..(Len(w) + 2) /\ a + (Len(w) + 2) = a + Len(w) + 2
    BY <1>1, <1>3
  <2> QED BY <1>1, <1>4, <2>1 DEF LineAt
<1>8. Facing(a, w)
  BY <1>2, <1>5, <1>6, <1>7 DEF Facing
<1> QED BY <1>8 DEF a, w

\* parse_line has found the next line of the request, and nothing but its end
\* has been written over.
LEMMA LineTaken ==
  ASSUME ReadInv, NEW r \in Requests, NEW k \in 0..(LineCount(r) - 1), AtLine(r, k),
         NextLine
  PROVE  /\ Line = Lines(r)[k + 1]
         /\ m_start_line' = Cut(r)[k + 1]
         /\ m_checked_index' = Cut(r)[k + 1]
         /\ Cut(r)[k + 1] \in Nat
         /\ Cut(r)[k + 1] <= m_read_idx
         /\ m_read_idx' = m_read_idx
         /\ Ahead(r, Cut(r)[k + 1])'
<1> DEFINE a == Cut(r)[k]
           w == Lines(r)[k + 1]
           c == Cut(r)[k + 1]
<1>1. /\ a \in Nat /\ w \in Seq(Words) /\ c = a + Len(w) + 2
      /\ Facing(a, w) /\ m_start_line = a /\ Ahead(r, a)
  BY LineShape, FacingLine DEF AtLine
<1>2. ReadBufOK /\ m_read_idx \in Nat /\ Len(w) \in Nat
  BY <1>1, Lengths DEF ReadInv
<1> HIDE DEF a, w, c
<1>3. /\ LineOk /\ m_read_buf' = Terminated
      /\ m_checked_index' = LineStart + 2 /\ m_start_line' = LineStart + 2
  BY DEF NextLine
<1>4. Line = w /\ LineStart + 2 = c
  BY <1>1, <1>2, <1>3, LineRead
<1>5. /\ LineStart \in Nat /\ LineStart + 2 <= m_read_idx
      /\ Len(Terminated) = m_read_idx
      /\ \A i \in 1..m_read_idx : Terminated[i] =
           IF i \in {LineStart + 1, LineStart + 2} THEN NUL ELSE m_read_buf[i]
  BY <1>2, <1>3, LineFound
<1>6. m_read_idx' = m_read_idx
  BY <1>3, <1>5 DEF m_read_idx
<1>7. Ahead(r, c)'
  <2>1. SUFFICES ASSUME NEW i \in (c + 1)..m_read_idx
                 PROVE  Terminated[i] = Stream(r)[i]
    BY <1>3, <1>6 DEF Ahead
  <2>2. /\ i \in 1..m_read_idx /\ i \in (a + 1)..m_read_idx
        /\ i \notin {LineStart + 1, LineStart + 2}
    BY <1>1, <1>2, <1>4, <1>5
  <2> QED BY <1>1, <1>5, <2>2 DEF Ahead
<1> QED
  BY <1>1, <1>2, <1>3, <1>4, <1>5, <1>6, <1>7 DEF a, w, c

\* The line that AtLine speaks of is the request line, a header or the empty
\* line, by the state of the parser.
LEMMA WhichLine ==
  ASSUME NEW r \in Requests, NEW k \in 0..(LineCount(r) - 1), AtLine(r, k)
  PROVE  /\ m_check_state = "REQUESTLINE" => k = 0 /\ Lines(r)[k + 1] = r.line
         /\ m_check_state = "HEADER" => k # 0
         /\ m_check_state # "CONTENT"
         /\ k # 0 /\ Lines(r)[k + 1] # <<>> =>
              /\ k \in 1..Len(r.headers) /\ k + 1 \in 0..(LineCount(r) - 1)
              /\ Lines(r)[k + 1] = r.headers[k]
         /\ k # 0 /\ Lines(r)[k + 1] = <<>> => k = LineCount(r) - 1
<1>1. /\ Len(r.headers) \in Nat
      /\ Lines(r)[1] = r.line
      /\ \A i \in 1..Len(r.headers) : /\ Lines(r)[i + 1] = r.headers[i]
                                      /\ Lines(r)[i + 1] # <<>>
      /\ Lines(r)[LineCount(r)] = <<>>
  <2>1. r.headers \in Seq(Seq(Words) \ {<<>>})
    BY RequestShape
  <2>2. Len(r.headers) \in Nat
    BY <2>1
  <2> QED BY <2>2, LinesShape
<1>2. LineCount(r) = Len(r.headers) + 2
  BY DEF LineCount
<1>3. k = 0 \/ k \in 1..Len(r.headers) \/ k = LineCount(r) - 1
  BY <1>1, <1>2
<1>4. (LineCount(r) - 1) + 1 = LineCount(r)
  BY <1>1, <1>2
<1>5. CASE k = 0
  BY <1>1, <1>5 DEF AtLine
<1>6. CASE k \in 1..Len(r.headers)
  BY <1>1, <1>2, <1>6 DEF AtLine
<1>7. CASE k = LineCount(r) - 1
  BY <1>1, <1>2, <1>4, <1>7 DEF AtLine
<1> QED BY <1>3, <1>5, <1>6, <1>7

\* What the parser knows when it has seen the empty line.
LEMMA KnownOfHeaders ==
  ASSUME Announced, NEW r \in Requests, Known(r, LineCount(r) - 1)
  PROVE  /\ GoodLine(r.line)
         /\ m_method = r.line[1] /\ m_url = r.line[2]
         /\ m_linger = WantsLinger(r)
         /\ m_content_length = Len(r.body)
<1>1. r.headers \in Seq(Seq(Words) \ {<<>>}) /\ r.body \in Seq(Words \cup {CR, LF})
  BY RequestShape
<1>2. /\ LineCount(r) - 1 > 0 /\ (LineCount(r) - 1) - 1 = Len(r.headers)
      /\ DOMAIN r.headers = 1..Len(r.headers)
  BY <1>1 DEF LineCount
<1>3. GoodLine(r.line) /\ m_method = r.line[1] /\ m_url = r.line[2]
  BY <1>2 DEF Known
<1>4. m_linger = WantsLinger(r)
  BY <1>2 DEF Known, WantsLinger
<1>5. m_content_length = Len(r.body)
  <2>1. CASE \E i \in 1..Len(r.headers) : r.headers[i][1] = "Content-Length:"
    BY <1>2, <2>1 DEF Known
  <2>2. CASE ~ \E i \in 1..Len(r.headers) : r.headers[i][1] = "Content-Length:"
    <3>1. r.body = <<>>
      BY <1>2, <1>3, <2>2 DEF Announced, WellAnnounced
    <3>2. m_content_length = 0
      BY <1>2, <2>2 DEF Known
    <3> QED BY <3>1, <3>2
  <2> QED BY <2>1, <2>2
<1> QED BY <1>3, <1>4, <1>5

\* What follows from do_request when the whole of the request is in the buffer.
LEMMA Decided ==
  ASSUME Announced, ReadInv, ReadTypes', pc = "parse", NEW r \in Requests, asked = r,
         Known(r, LineCount(r) - 1), do_request, m_check_state # "REQUESTLINE",
         UNCHANGED <<clientVars, m_method, m_linger, m_post_cgi>>,
         r.body # <<>> => m_string' = r.body,
         m_read_idx = Len(Stream(r)), m_read_idx' = m_read_idx
  PROVE  ReadInv'
<1>1. /\ GoodLine(r.line) /\ m_method = r.line[1] /\ m_url = r.line[2]
      /\ m_linger = WantsLinger(r)
  BY KnownOfHeaders
<1>2. PICK url : /\ Page(url)
                 /\ \/ m_post_cgi = 1 /\ m_url \in Forms /\ url \in FormPages
                    \/ ~(m_post_cgi = 1 /\ m_url \in Forms) /\ url = m_url
  BY DEF do_request
<1>3. /\ m_read_ret' = Resource(url) /\ m_url' = url /\ (pc' = "out" \/ pc' = "dead")
      /\ (pc' = "out" => m_read_ret' \in {"FILE_REQUEST", "FILE_SPEC", "FILE_JSON"})
  BY <1>2 DEF Page, Decide
<1>4. Flow'
  BY <1>3, FlowParse
<1>5. asked' = r /\ m_method' = r.line[1] /\ m_linger' = WantsLinger(r)
  BY <1>1 DEF clientVars
<1>6. m_method = "POST" => m_post_cgi = 1
  BY DEF ReadInv, ReadTypes
<1>7. RightVerdict'
  <2>1. url \in RightUrls(r)'
    BY <1>1, <1>2 DEF RightUrls
  <2> QED BY <1>1, <1>3, <1>5, <1>6, <2>1 DEF RightVerdict
<1>8. Answerable' /\ Parsing'
  BY <1>1, <1>3, <1>5 DEF Answerable, Parsing
<1> QED BY <1>4, <1>7, <1>8 DEF ReadInv

\* The request that is being parsed.
LEMMA InWork ==
  ASSUME ReadInv, pc = "parse"
  PROVE  /\ pending /\ asked \in Requests
         /\ Placed(asked)
         /\ InBody(asked) \/ \E k \in 0..(LineCount(asked) - 1) : AtLine(asked, k)
         /\ PartOfBody(asked) => bodyCut
<1>1. pending /\ asked \in Requests
  BY DEF ReadInv, Flow, ReadTypes
<1> QED
  BY <1>1 DEF ReadInv, Flow, Parsing

\* The object has read no more than was sent.
LEMMA ReadAtMost ==
  ASSUME ReadInv, NEW r \in Requests, Placed(r)
  PROVE  /\ m_read_idx \in Nat /\ m_read_idx <= Len(Stream(r))
         /\ Len(HeadOf(r)) \in Nat /\ Len(r.body) \in Nat
         /\ Len(Stream(r)) = Len(HeadOf(r)) + Len(r.body)
BY Lengths, StreamShape DEF ReadInv, Placed

\* A step to the next line.
LEMMA ParsingOn ==
  ASSUME NEW r \in Requests, asked' = r,
         InBody(r)' \/ \E k \in 0..(LineCount(r) - 1) : AtLine(r, k)',
         PartOfBody(r) => bodyCut, UNCHANGED bodyCut, m_read_idx' = m_read_idx
  PROVE  Parsing'
BY DEF Parsing, PartOfBody

LEMMA ReadInvNoMoreLines ==
  ASSUME ReadInv, ReadTypes', NoMoreLines
  PROVE  ReadInv'
<1>1. /\ pc = "parse" /\ ~InContent /\ ~LineOk /\ pc' = "in"
      /\ m_checked_index' = IF LineOpen THEN LineCut ELSE LineEnd
      /\ UNCHANGED <<clientVars, m_read_buf, m_start_line, parseVars, line_status>>
  BY DEF NoMoreLines
<1>2. PICK r \in Requests : r = asked
  BY <1>1, InWork
<1>3. /\ pending /\ Placed(r) /\ (PartOfBody(r) => bodyCut)
      /\ InBody(r) \/ \E k \in 0..(LineCount(r) - 1) : AtLine(r, k)
  BY <1>1, <1>2, InWork
<1>4. asked' = r /\ pending' /\ m_read_idx' = m_read_idx /\ UNCHANGED bodyCut
  BY <1>1, <1>2, <1>3 DEF clientVars, m_read_idx
<1>5. /\ ReadBufOK /\ m_checked_index \in Nat /\ m_checked_index <= m_read_idx
      /\ m_checked_index' \in m_checked_index..m_read_idx
  BY <1>1, Lengths, CutInBuffer DEF ReadInv
<1>6. ASSUME NEW k \in 0..(LineCount(r) - 1), AtLine(r, k)
      PROVE  AtLine(r, k)'
  <2> DEFINE a == Cut(r)[k]
             w == Lines(r)[k + 1]
             c == Cut(r)[k + 1]
  <2>1. a \in Nat /\ w \in Seq(Words) /\ c = a + Len(w) + 2 /\ Facing(a, w)
    BY <1>6, LineShape, FacingLine
  <2> HIDE DEF a, w, c
  <2>2. LineOpen /\ LineCut <= a + Len(w) /\ m_read_idx < a + Len(w) + 2
    BY <1>1, <1>5, <2>1, LineMissing
  <2>3. a <= m_checked_index' /\ m_checked_index' <= a + Len(w) /\ m_read_idx' < c
    BY <1>1, <1>4, <1>5, <2>1, <2>2 DEF Facing
  <2>4. Ahead(r, a)'
    <3>1. Ahead(r, a)
      BY <1>6 DEF AtLine, a
    <3> QED BY <1>1, <1>4, <3>1 DEF Ahead
  <2>5. Known(r, k)'
    BY <1>1, <1>6 DEF AtLine, Known, parseVars
  <2> QED BY <1>1, <1>6, <2>3, <2>4, <2>5 DEF AtLine, a, w, c, parseVars
<1>7. ASSUME InBody(r)
      PROVE  InBody(r)'
  <2>1. line_status = "OPEN"
    BY <1>1, <1>7 DEF InBody, InContent, ReadInv, ReadTypes
  <2>2. /\ Len(HeadOf(r)) <= m_checked_index
        /\ ~bodyCut => m_checked_index = Len(HeadOf(r)) /\ m_read_idx < Len(Stream(r))
    <3>1. Len(HeadOf(r)) <= m_checked_index
      BY <1>7 DEF InBody
    <3>2. ~bodyCut => m_checked_index = Len(HeadOf(r))
      BY <1>7 DEF InBody
    <3>3. ~bodyCut => m_read_idx < Len(Stream(r))
      BY <1>7, <2>1 DEF InBody
    <3> QED BY <3>1, <3>2, <3>3
  <2>3. m_read_idx \in Nat /\ Len(HeadOf(r)) \in Nat /\ Len(Stream(r)) \in Nat
    BY <1>3, StreamShape, ReadAtMost
  <2>4. ~bodyCut => m_checked_index' = Len(HeadOf(r)) /\ m_read_idx < Len(Stream(r))
    <3>1. SUFFICES ASSUME ~bodyCut
                   PROVE  m_checked_index' = Len(HeadOf(r)) /\ m_read_idx < Len(Stream(r))
      OBVIOUS
    <3>2. ~(m_read_idx \in (Len(HeadOf(r)) + 1)..(Len(Stream(r)) - 1))
      BY <1>3, <3>1 DEF PartOfBody
    <3> QED BY <1>5, <2>2, <2>3, <3>1, <3>2
  <2>5. m_checked_index' = Len(HeadOf(r)) => m_checked_index = Len(HeadOf(r))
    BY <1>5, <2>2, <2>3
  <2>6. Len(HeadOf(r)) <= m_checked_index'
    BY <1>5, <2>2, <2>3
  <2>7. Known(r, LineCount(r) - 1)'
    BY <1>1, <1>7 DEF InBody, Known, parseVars
  <2>8. m_checked_index' = Len(HeadOf(r)) =>
          m_start_line' = Len(HeadOf(r)) /\ Ahead(r, Len(HeadOf(r)))'
    BY <1>1, <1>4, <1>7, <2>5 DEF InBody, Ahead
  <2> QED
    BY <1>1, <1>4, <1>7, <2>4, <2>6, <2>7, <2>8 DEF InBody, parseVars
<1>8. Parsing'
  BY <1>3, <1>4, <1>6, <1>7, ParsingOn
<1>9. Flow'
  BY <1>1, <1>4, FlowParse
<1> QED BY <1>1, <1>8, <1>9 DEF ReadInv, RightVerdict, Answerable

LEMMA ReadInvRequestLine ==
  ASSUME ReadInv, ReadTypes', RequestLine
  PROVE  ReadInv'
<1>1. /\ pc = "parse" /\ NextLine /\ m_check_state = "REQUESTLINE"
      /\ UNCHANGED <<clientVars, m_linger, m_content_length, m_string>>
  BY DEF RequestLine, NextLine
<1>2. PICK r \in Requests : r = asked
  BY <1>1, InWork
<1>3. /\ pending /\ Placed(r) /\ (PartOfBody(r) => bodyCut) /\ AtLine(r, 0)
      /\ 0 \in 0..(LineCount(r) - 1) /\ Lines(r)[0 + 1] = r.line
  <2>1. PICK k \in 0..(LineCount(r) - 1) : AtLine(r, k)
    BY <1>1, <1>2, InWork DEF InBody
  <2> QED BY <1>1, <1>2, <2>1, InWork, WhichLine
<1>4. asked' = r /\ pending' /\ UNCHANGED bodyCut
  BY <1>1, <1>2, <1>3 DEF clientVars
<1>5. /\ Line = r.line /\ m_start_line' = Cut(r)[1] /\ m_checked_index' = Cut(r)[1]
      /\ Cut(r)[1] \in Nat /\ Ahead(r, Cut(r)[1])' /\ m_read_idx' = m_read_idx
  <2>1. 0 + 1 = 1
    OBVIOUS
  <2> QED BY <1>1, <1>3, <2>1, LineTaken
<1>6. CASE GoodLine(r.line)
  <2>1. /\ m_method' = r.line[1] /\ m_url' = r.line[2] /\ m_check_state' = "HEADER"
        /\ pc' = "parse"
    BY <1>1, <1>5, <1>6 DEF RequestLine
  <2>2. Known(r, 1)'
    <3>1. 1..(0 - 1) = {} /\ 1..(1 - 1) = {}
      OBVIOUS
    <3>2. m_linger = FALSE /\ m_content_length = 0
      BY <1>3, <3>1 DEF AtLine, Known
    <3>3. m_linger' = FALSE /\ m_content_length' = 0
      BY <1>1, <3>2
    <3> QED BY <1>6, <2>1, <3>1, <3>3 DEF Known
  <2>3. 1 \in 0..(LineCount(r) - 1) /\ Len(Lines(r)[1 + 1]) \in Nat
    <3>1. 1 \in 0..(LineCount(r) - 1)
      BY LinesShape
    <3> QED BY <3>1, LineShape
  <2>4. AtLine(r, 1)'
    BY <1>5, <2>1, <2>2, <2>3 DEF AtLine
  <2>5. Parsing'
    BY <1>3, <1>4, <1>5, <2>3, <2>4, ParsingOn
  <2>6. Flow'
    BY <1>1, <1>5, <2>1, FlowParse
  <2> QED BY <2>1, <2>5, <2>6 DEF ReadInv, RightVerdict, Answerable
<1>7. CASE ~GoodLine(r.line)
  <2>1. m_read_ret' = "BAD_REQUEST" /\ pc' = "dead"
    BY <1>1, <1>5, <1>7 DEF RequestLine, Decide
  <2>2. RightVerdict'
    BY <1>4, <1>7, <2>1 DEF RightVerdict
  <2>3. Flow'
    BY <1>1, <1>5, <2>1, FlowParse
  <2> QED BY <2>1, <2>2, <2>3 DEF ReadInv, Parsing, Answerable
<1> QED BY <1>6, <1>7

LEMMA ReadInvHeaderLine ==
  ASSUME Announced, ReadInv, ReadTypes', HeaderLine
  PROVE  ReadInv'
<1>1. /\ pc = "parse" /\ pc' = "parse" /\ NextLine /\ m_check_state = "HEADER" /\ Line # <<>>
      /\ m_linger' = (m_linger \/ Line = <<"Connection:", "keep-alive">>)
      /\ m_content_length' = IF Line[1] = "Content-Length:" THEN atol(Line[2])
                                                            ELSE m_content_length
      /\ UNCHANGED <<clientVars, m_check_state, m_method, m_url, m_string>>
  BY DEF HeaderLine, NextLine
<1>2. PICK r \in Requests : r = asked
  BY <1>1, InWork
<1>3. PICK k \in 0..(LineCount(r) - 1) : AtLine(r, k)
  BY <1>1, <1>2, InWork DEF InBody
<1>4. /\ Line = Lines(r)[k + 1] /\ m_start_line' = Cut(r)[k + 1]
      /\ m_checked_index' = Cut(r)[k + 1] /\ Cut(r)[k + 1] \in Nat
      /\ Ahead(r, Cut(r)[k + 1])' /\ m_read_idx' = m_read_idx
  BY <1>1, <1>3, LineTaken
<1>5. k # 0 /\ k \in 1..Len(r.headers) /\ k + 1 \in 0..(LineCount(r) - 1)
      /\ Line = r.headers[k]
  BY <1>1, <1>3, <1>4, WhichLine
<1>6. /\ pending /\ (PartOfBody(r) => bodyCut)
      /\ asked' = r /\ UNCHANGED bodyCut
  BY <1>1, <1>2, InWork DEF clientVars
<1>7. Known(r, k + 1)'
  <2>1. /\ GoodLine(r.line) /\ m_method = r.line[1] /\ m_url = r.line[2]
        /\ m_linger = (\E i \in 1..(k - 1) : r.headers[i] = <<"Connection:", "keep-alive">>)
        /\ m_content_length = IF \E i \in 1..(k - 1) : r.headers[i][1] = "Content-Length:"
                              THEN Len(r.body) ELSE 0
    BY <1>3, <1>5 DEF AtLine, Known
  <2>2. (k + 1) - 1 = k /\ 1..k = (1..(k - 1)) \cup {k} /\ k + 1 > 0
    BY <1>5
  <2>3. m_linger' = (\E i \in 1..k : r.headers[i] = <<"Connection:", "keep-alive">>)
    BY <1>1, <1>5, <2>1, <2>2, Zenon
  <2>4. m_content_length' = IF \E i \in 1..k : r.headers[i][1] = "Content-Length:"
                            THEN Len(r.body) ELSE 0
    <3>1. CASE r.headers[k][1] = "Content-Length:"
      <4>1. r.headers \in Seq(Seq(Words) \ {<<>>}) /\ k \in DOMAIN r.headers
        BY <1>5, RequestShape
      <4>2. atol(r.headers[k][2]) = Len(r.body)
        BY <2>1, <3>1, <4>1 DEF Announced, WellAnnounced
      <4>3. \E i \in 1..k : r.headers[i][1] = "Content-Length:"
        BY <2>2, <3>1
      <4> QED BY <1>1, <1>5, <3>1, <4>2, <4>3
    <3>2. CASE r.headers[k][1] # "Content-Length:"
      <4>1. (\E i \in 1..k : r.headers[i][1] = "Content-Length:") <=>
            (\E i \in 1..(k - 1) : r.headers[i][1] = "Content-Length:")
        BY <2>2, <3>2
      <4> QED BY <1>1, <1>5, <2>1, <3>2, <4>1
    <3> QED BY <3>1, <3>2
  <2> QED BY <1>1, <2>1, <2>2, <2>3, <2>4 DEF Known
<1>8. AtLine(r, k + 1)'
  <2>1. m_check_state' = "HEADER" /\ k + 1 # 0
    BY <1>1, <1>5
  <2>2. Len(Lines(r)[(k + 1) + 1]) \in Nat
    BY <1>5, LineShape
  <2> DEFINE c == Cut(r)[k + 1]
             l == Len(Lines(r)[(k + 1) + 1])
  <2>3. c <= m_checked_index' /\ m_checked_index' <= c + l
    <3> HIDE DEF l
    <3>1. l \in Nat
      BY <2>2 DEF l
    <3> QED BY <1>4, <3>1
  <2> QED BY <1>1, <1>4, <1>7, <2>1, <2>3 DEF AtLine
<1>9. Parsing'
  BY <1>4, <1>5, <1>6, <1>8, ParsingOn
<1>10. Flow'
  BY <1>1, <1>4, FlowParse
<1> QED BY <1>1, <1>9, <1>10 DEF ReadInv, RightVerdict, Answerable

LEMMA ReadInvEndOfHeaders ==
  ASSUME Announced, ReadInv, ReadTypes', EndOfHeaders
  PROVE  ReadInv'
<1>1. /\ pc = "parse" /\ NextLine /\ m_check_state = "HEADER" /\ Line = <<>>
      /\ line_status' = "OK"
      /\ UNCHANGED <<clientVars, m_method, m_linger, m_content_length, m_string, m_post_cgi>>
  BY DEF EndOfHeaders, NextLine
<1>2. PICK r \in Requests : r = asked
  BY <1>1, InWork
<1>3. PICK k \in 0..(LineCount(r) - 1) : AtLine(r, k)
  BY <1>1, <1>2, InWork DEF InBody
<1>4. /\ Line = Lines(r)[k + 1] /\ m_start_line' = Cut(r)[k + 1]
      /\ m_checked_index' = Cut(r)[k + 1] /\ Cut(r)[k + 1] \in Nat
      /\ Cut(r)[k + 1] <= m_read_idx
      /\ Ahead(r, Cut(r)[k + 1])' /\ m_read_idx' = m_read_idx
  BY <1>1, <1>3, LineTaken
<1>5. k = LineCount(r) - 1
  BY <1>1, <1>3, <1>4, WhichLine
<1>6. Cut(r)[k + 1] = Len(HeadOf(r))
  <2>1. k + 1 = LineCount(r)
    BY <1>5, LinesShape
  <2> QED BY <2>1, HeadLaid
<1>7. /\ pending /\ Placed(r) /\ (PartOfBody(r) => bodyCut)
      /\ asked' = r /\ UNCHANGED bodyCut
  BY <1>1, <1>2, InWork DEF clientVars
<1>8. Known(r, LineCount(r) - 1)
  BY <1>3, <1>5 DEF AtLine
<1>9. CASE m_content_length # 0
  <2>1. m_check_state' = "CONTENT" /\ pc' = "parse" /\ m_url' = m_url
    BY <1>1, <1>9 DEF EndOfHeaders
  <2>2. Known(r, LineCount(r) - 1)'
    BY <1>1, <1>8, <2>1 DEF Known
  <2>3. Len(HeadOf(r)) \in Nat
    BY StreamShape
  <2>4. InBody(r)'
    BY <1>1, <1>4, <1>6, <1>9, <2>1, <2>2, <2>3 DEF InBody
  <2>5. Parsing'
    BY <1>4, <1>7, <2>4, ParsingOn
  <2>6. Flow'
    BY <1>1, <1>4, <2>1, FlowParse
  <2> QED BY <2>1, <2>5, <2>6 DEF ReadInv, RightVerdict, Answerable
<1>10. CASE m_content_length = 0
  <2>1. do_request
    BY <1>10 DEF EndOfHeaders
  <2>2. r.body = <<>>
    <3>1. Len(r.body) = 0
      BY <1>8, <1>10, KnownOfHeaders
    <3> QED BY <3>1, RequestShape, EmptySeq
  <2>3. m_read_idx = Len(Stream(r))
    BY <1>4, <1>6, <1>7, <2>2, ReadAtMost
  <2> QED BY <1>1, <1>2, <1>4, <1>8, <2>1, <2>2, <2>3, Decided
<1> QED BY <1>9, <1>10

LEMMA ReadInvContent ==
  ASSUME Announced, ReadInv, ReadTypes', Content
  PROVE  ReadInv'
<1>1. /\ pc = "parse" /\ InContent /\ m_check_state = "CONTENT" /\ line_status = "OK"
      /\ parse_content(m_read_buf, m_checked_index)
      /\ m_start_line' = m_checked_index /\ m_checked_index' = m_checked_index
      /\ UNCHANGED <<clientVars, m_check_state, m_method, m_linger>>
      /\ UNCHANGED <<m_content_length, m_post_cgi>>
  BY DEF Content, parse_content, InContent
<1>2. PICK r \in Requests : r = asked
  BY <1>1, InWork
<1>3. InBody(r)
  BY <1>1, <1>2, InWork, WhichLine
<1>4. /\ pending /\ Placed(r) /\ (PartOfBody(r) => bodyCut)
      /\ asked' = r /\ UNCHANGED bodyCut
  BY <1>1, <1>2, InWork DEF clientVars
<1> DEFINE start == Len(HeadOf(r))
<1>5. /\ m_content_length = Len(r.body) /\ Known(r, LineCount(r) - 1)
      /\ m_content_length # 0 /\ start <= m_checked_index
      /\ (m_checked_index = start => m_start_line = start /\ Ahead(r, start))
  BY <1>3, KnownOfHeaders DEF InBody
<1>6. /\ m_read_idx \in Nat /\ m_read_idx <= Len(Stream(r))
      /\ start \in Nat /\ Len(r.body) \in Nat
      /\ Len(Stream(r)) = start + Len(r.body)
      /\ m_checked_index \in Nat /\ m_read_buf \in Seq(Cells)
  BY <1>4, ReadAtMost, Lengths DEF ReadInv
<1>7. CASE m_read_idx >= m_content_length + m_checked_index
  <2>1. /\ m_read_buf' = [m_read_buf EXCEPT ![m_start_line + m_content_length + 1] = NUL]
        /\ m_string' = Text(m_read_buf', m_start_line)
        /\ do_request
    BY <1>1, <1>7 DEF parse_content
  <2>2. m_checked_index = start /\ m_read_idx = start + Len(r.body)
    BY <1>5, <1>6, <1>7
  <2>3. m_start_line = start /\ Ahead(r, start)
    BY <1>5, <2>2
  <2>4. m_read_buf' = m_read_buf
    <3>1. start + Len(r.body) + 1 \notin 1..Len(m_read_buf)
      BY <1>6, <2>2 DEF m_read_idx
    <3> QED BY <1>5, <1>6, <2>1, <2>3, <3>1
  <2>5. m_string' = r.body
    <3> DEFINE w == r.body
    <3>1. w \in Seq(Cells)
      <4>1. r.body \in Seq(Words \cup {CR, LF})
        BY RequestShape
      <4> QED BY <4>1, SeqMonotonic DEF Cells
    <3>2. /\ start + Len(w) = Len(m_read_buf)
          /\ m_string' = Text(m_read_buf, start)
      BY <2>1, <2>2, <2>3, <2>4 DEF m_read_idx
    <3>3. ASSUME NEW i \in 1..Len(w)
          PROVE  m_read_buf[start + i] = w[i] /\ w[i] # NUL
      <4>1. start + i \in (start + 1)..m_read_idx
        BY <1>6, <2>2
      <4>2. Stream(r)[start + i] = r.body[i] /\ r.body[i] # NUL
        BY StreamShape
      <4>3. m_read_buf[start + i] = Stream(r)[start + i]
        BY <2>3, <4>1 DEF Ahead
      <4> QED BY <4>2, <4>3
    <3>4. start + Len(w) <= Len(m_read_buf) /\ ~(start + Len(w) < Len(m_read_buf))
      BY <1>6, <3>2
    <3> HIDE DEF w, start
    <3>5. start \in Nat
      BY <1>6 DEF start
    <3>6. Text(m_read_buf, start) = w
      BY <1>6, <3>1, <3>3, <3>4, <3>5, TextIs
    <3> QED BY <3>2, <3>6 DEF w
  <2>6. m_read_idx' = m_read_idx /\ m_read_idx = Len(Stream(r))
    BY <1>6, <2>2, <2>4 DEF m_read_idx
  <2> QED BY <1>1, <1>2, <1>5, <2>1, <2>5, <2>6, Decided
<1>8. CASE ~(m_read_idx >= m_content_length + m_checked_index)
  <2>1. /\ m_read_buf' = m_read_buf /\ line_status' = "OPEN" /\ pc' = "parse"
        /\ m_url' = m_url
    BY <1>1, <1>8 DEF parse_content
  <2>2. m_read_idx' = m_read_idx
    BY <2>1 DEF m_read_idx
  <2>3. ~bodyCut => m_checked_index = start /\ m_read_idx < Len(Stream(r))
    <3>1. ~bodyCut => m_checked_index = start
      BY <1>3 DEF InBody
    <3>2. m_checked_index = start => m_read_idx < Len(Stream(r))
      BY <1>5, <1>6, <1>8
    <3> QED BY <3>1, <3>2
  <2>4. Known(r, LineCount(r) - 1)'
    BY <1>1, <1>5, <2>1 DEF Known
  <2>5. m_checked_index' = start => m_start_line' = start /\ Ahead(r, start)'
    BY <1>1, <1>5, <2>1, <2>2 DEF Ahead
  <2>6. /\ m_check_state' = "CONTENT" /\ m_content_length' # 0
        /\ m_checked_index' = m_checked_index
    BY <1>1, <1>5
  <2>7. InBody(r)'
    BY <1>4, <1>5, <2>1, <2>2, <2>3, <2>4, <2>5, <2>6 DEF InBody
  <2>8. Parsing'
    BY <1>4, <2>2, <2>7, ParsingOn
  <2>9. Flow'
    BY <1>1, <2>1, <2>2, FlowParse
  <2> QED BY <2>1, <2>8, <2>9 DEF ReadInv, RightVerdict, Answerable
<1> QED BY <1>7, <1>8

\* Looking for a line in the body only happens to a request whose body was cut.
LEMMA ReadInvLineInContent ==
  ASSUME Announced, ReadInv, ReadTypes', LineInContent
  PROVE  ReadInv'
<1>1. /\ pc = "parse" /\ ~InContent /\ LineOk /\ m_check_state = "CONTENT"
      /\ parse_content(Terminated, LineStart + 2)
      /\ m_start_line' = LineStart + 2 /\ m_checked_index' = LineStart + 2
      /\ UNCHANGED <<clientVars, m_check_state, m_method, m_linger>>
      /\ UNCHANGED <<m_content_length, m_post_cgi>>
  BY DEF LineInContent, parse_content
<1>2. PICK r \in Requests : r = asked
  BY <1>1, InWork
<1>3. InBody(r) /\ line_status = "OPEN"
  BY <1>1, <1>2, InWork, WhichLine DEF InContent, ReadInv, ReadTypes
<1>4. /\ pending /\ Placed(r) /\ (PartOfBody(r) => bodyCut)
      /\ asked' = r /\ UNCHANGED bodyCut
  BY <1>1, <1>2, InWork DEF clientVars
<1> DEFINE start == Len(HeadOf(r))
<1>5. /\ m_content_length = Len(r.body) /\ Known(r, LineCount(r) - 1)
      /\ m_content_length # 0 /\ start <= m_checked_index
  BY <1>3, KnownOfHeaders DEF InBody
<1>6. /\ m_read_idx \in Nat /\ m_read_idx <= Len(Stream(r))
      /\ start \in Nat /\ Len(r.body) \in Nat
      /\ Len(Stream(r)) = start + Len(r.body)
      /\ m_checked_index \in Nat /\ ReadBufOK
  BY <1>4, ReadAtMost, Lengths DEF ReadInv
<1>7. /\ LineStart \in Nat /\ m_checked_index < LineStart + 2 /\ LineStart + 2 <= m_read_idx
      /\ Len(Terminated) = m_read_idx
  BY <1>1, <1>6, LineFound
<1>8. start < LineStart + 2 /\ ~(m_read_idx >= m_content_length + (LineStart + 2))
  <2> DEFINE c == LineStart + 2
  <2>1. c \in Nat /\ m_checked_index < c
    BY <1>7
  <2> HIDE DEF c, start
  <2>2. start < c /\ ~(m_read_idx >= m_content_length + c)
    BY <1>5, <1>6, <2>1
  <2> QED BY <2>2 DEF c
<1>9. /\ m_read_buf' = Terminated /\ line_status' = "OPEN" /\ pc' = "parse"
      /\ m_url' = m_url
  BY <1>1, <1>8 DEF parse_content
<1>10. m_read_idx' = m_read_idx
  BY <1>7, <1>9 DEF m_read_idx
<1>11. bodyCut
  <2>1. SUFFICES ASSUME ~bodyCut PROVE FALSE
    OBVIOUS
  <2>2. m_read_idx < Len(Stream(r))
    BY <1>3, <2>1 DEF InBody
  <2>3. m_read_idx \in (start + 1)..(Len(Stream(r)) - 1)
    BY <1>6, <1>7, <1>8, <2>2
  <2> QED BY <1>4, <2>1, <2>3 DEF PartOfBody
<1>12. Known(r, LineCount(r) - 1)'
  BY <1>1, <1>5, <1>9 DEF Known
<1>13. /\ m_check_state' = "CONTENT" /\ m_content_length' # 0
       /\ start <= m_checked_index' /\ m_checked_index' # start
  BY <1>1, <1>5, <1>6, <1>7, <1>8
<1>14. InBody(r)'
  BY <1>4, <1>11, <1>12, <1>13 DEF InBody
<1>15. Parsing'
  BY <1>4, <1>10, <1>14, ParsingOn
<1>16. Flow'
  BY <1>1, <1>9, <1>10, FlowParse
<1> QED BY <1>9, <1>15, <1>16 DEF ReadInv, RightVerdict, Answerable

-----------------------------------------------------------------------------
(* The steps that end a response or a connection.                          *)

LEMMA ReadInvEnds ==
  ASSUME ReadInv, ReadTypes',
         WriteFails \/ Close \/ Accept \/ \E n \in Nat : WriteLast(n)
  PROVE  ReadInv'
<1>1. CASE WriteFails
  <2>1. /\ pc = "write" /\ pc' \in {"dead", "lost"}
        /\ UNCHANGED <<clientVars, bufferVars, parseVars, m_string, m_post_cgi, m_read_ret>>
    BY <1>1 DEF WriteFails
  <2>2. Flow'
    BY <2>1 DEF ReadInv, Flow, Placed, m_read_idx, clientVars, bufferVars
  <2>3. RightVerdict'
    BY <2>1 DEF ReadInv, RightVerdict, RightUrls, clientVars, parseVars
  <2> QED BY <2>1, <2>2, <2>3 DEF ReadInv, Parsing, Answerable
<1>2. CASE Close
  <2>1. ~pending' /\ pc' = "closed" /\ unsent' = <<>> /\ rx' = <<>>
    BY <1>2 DEF Close
  <2> QED BY <2>1 DEF ReadInv, Flow, Parsing, RightVerdict, Answerable
<1>3. ASSUME InitRead PROVE /\ m_read_buf' = <<>> /\ m_checked_index' = 0
                             /\ m_start_line' = 0 /\ m_check_state' = "REQUESTLINE"
                             /\ ~m_linger' /\ m_content_length' = 0
  BY <1>3 DEF InitRead, InitParser
<1>4. CASE Accept
  <2>1. InitRead /\ pc' = "in" /\ UNCHANGED <<pending, unsent, rx>> /\ pc = "closed"
    BY <1>4 DEF Accept
  <2>2. ~pending /\ unsent = <<>> /\ rx = <<>>
    BY <2>1 DEF ReadInv, Flow
  <2> QED
    BY <1>3, <2>1, <2>2 DEF ReadInv, Flow, Parsing, RightVerdict, Answerable
<1>5. ASSUME NEW n \in Nat, WriteLast(n) PROVE ReadInv'
  <2>1. /\ pc = "write" /\ ~pending' /\ UNCHANGED <<unsent, rx>>
        /\ IF m_linger THEN InitRead /\ pc' = "in" ELSE pc' = "over"
    BY <1>5 DEF WriteLast
  <2>2. rx = <<>> /\ unsent = <<>>
    <3>1. PICK r \in Requests : r = asked /\ pending
      BY <2>1 DEF ReadInv, ReadTypes, Flow
    <3>2. Placed(r) /\ m_read_idx = Len(Stream(r))
      BY <2>1, <3>1 DEF ReadInv, Flow
    <3>3. Len(rx) = 0 /\ Len(unsent) = 0
      BY <3>2, Lengths DEF ReadInv, Placed
    <3> QED BY <3>3, Lengths, EmptySeq DEF ReadInv
  <2> QED
    BY <1>3, <2>1, <2>2 DEF ReadInv, Flow, Parsing, RightVerdict, Answerable
<1> QED BY <1>1, <1>2, <1>4, <1>5

\* Every step keeps the invariant of the reading half.
LEMMA ReadInvStep ==
  ASSUME Announced, ReadInv, [Next]_vars
  PROVE  ReadInv'
<1>1. ReadTypes'
  BY ReadTypesStep DEF ReadInv
<1>2. 1..(iov0.len + Readable) \subseteq Nat
  OBVIOUS
<1>3. CASE Client
  BY <1>1, <1>3, ReadInvAsk, ReadInvDeliver DEF Client
<1>4. CASE Reading
  BY <1>1, <1>4, ReadInvRecv, ReadInvNoMoreLines, ReadInvRequestLine, ReadInvHeaderLine,
     ReadInvEndOfHeaders, ReadInvContent, ReadInvLineInContent DEF Reading, process_read
<1>5. CASE \/ WriteFile \/ WriteSpec \/ WriteJson \/ CopyJson \/ SendJson \/ WriteRefused
           \/ \E n \in Nat : WriteSome(n)
           \/ parse_data_frame
           \/ UNCHANGED vars
  <2>1. UNCHANGED <<clientVars, readVars>>
    BY <1>5, OtherSteps DEF ReadInv
  <2>2. \/ pc' = pc
        \/ /\ pc \in {"out", "json", "copy", "write"}
           /\ pc' \in {"json", "copy", "write", "dead"}
    BY <1>5 DEF WriteFile, WriteSpec, WriteJson, CopyJson, SendJson, WriteRefused, WriteSome,
       parse_data_frame, Publishing, Begin, vars
  <2> QED BY <1>1, <2>1, <2>2, ReadInvKept
<1>6. CASE WriteFails \/ Close \/ Accept \/ \E n \in Nat : WriteLast(n)
  BY <1>1, <1>6, ReadInvEnds
<1> QED
  BY <1>2, <1>3, <1>4, <1>5, <1>6 DEF Next, Writing

\* So it holds in every state.
LEMMA ReadInvInvariant ==
  ASSUME Announced
  PROVE  Spec => []ReadInv
<1>1. Init => ReadInv
  <2> SUFFICES ASSUME Init PROVE ReadInv
    OBVIOUS
  <2>1. ReadTypes
    BY ReadTypesInit
  <2>2. /\ ~pending /\ pc = "in" /\ rx = <<>> /\ unsent = <<>>
        /\ m_read_buf = <<>> /\ m_checked_index = 0 /\ m_start_line = 0
        /\ m_check_state = "REQUESTLINE" /\ ~m_linger /\ m_content_length = 0
    BY DEF Init
  <2> QED
    BY <2>1, <2>2 DEF ReadInv, Flow, Parsing, RightVerdict, Answerable
<1> QED
  BY <1>1, ReadInvStep, PTL DEF Spec

\* RightVerdict: for requests that announce the length of their body, however TCP
\* cuts them, and whatever the object served before, the verdict, the URL, the
\* method, keep-alive and the body are those of this request, but for a GET of a
\* form when m_post_cgi was left at 1 (http_conn.cpp 158-347, 362-452).
THEOREM VerdictsAreRight ==
  ASSUME \A r \in Requests : WellAnnounced(r)
  PROVE  Spec => []RightVerdict
<1>1. Announced
  BY DEF Announced
<1> QED
  BY <1>1, ReadInvInvariant, PTL DEF ReadInv

\* WholeRequestDecided: for requests that announce the length of their body, one
\* that has arrived is not left waiting unless read() has stopped inside its body,
\* and only a request that fills the buffer makes the connection deaf
\* (http_conn.cpp 133-155, 208-211).
THEOREM WholeRequestsAreDecided ==
  ASSUME \A r \in Requests : WellAnnounced(r)
  PROVE  Spec => []WholeRequestDecided
<1>2. Announced
  BY DEF Announced
<1>1. ReadInv => WholeRequestDecided
  <2> SUFFICES ASSUME ReadInv PROVE WholeRequestDecided
    OBVIOUS
  <2>1. ASSUME Arrived, pc = "in" PROVE bodyCut
    <3>1. PICK r \in Requests : r = asked
      BY <2>1 DEF Arrived, ReadInv, ReadTypes
    <3>2. /\ Placed(r) /\ pending /\ Len(rx) = 0 /\ Len(unsent) = 0
      BY <2>1, <3>1, EmptyText DEF Arrived, ReadInv, Flow
    <3>3. m_read_idx = Len(Stream(r)) /\ m_read_idx \in Nat
      BY <3>2, Lengths DEF Placed, ReadInv
    <3>4. CASE InBody(r)
      BY <2>1, <3>3, <3>4 DEF InBody
    <3>5. ASSUME NEW k \in 0..(LineCount(r) - 1), AtLine(r, k)
          PROVE  FALSE
      <4> DEFINE c == Cut(r)[k + 1]
      <4>1. m_read_idx < c /\ c <= Len(HeadOf(r)) /\ c \in Nat
        <5>1. m_read_idx < c
          BY <2>1, <3>5 DEF AtLine
        <5>2. c <= Len(HeadOf(r))
          BY LineShape
        <5>3. c \in Nat
          <6>1. Cut(r)[k] \in Nat /\ Lines(r)[k + 1] \in Seq(Words)
                /\ c = Cut(r)[k] + Len(Lines(r)[k + 1]) + 2
            BY LineShape
          <6> QED BY <6>1
        <5> QED BY <5>1, <5>2, <5>3
      <4> HIDE DEF c
      <4> QED BY <3>2, <3>3, <4>1, ReadAtMost
    <3> QED
      BY <2>1, <3>1, <3>2, <3>4, <3>5 DEF ReadInv, Parsing
  <2>2. ASSUME pc = "deaf" PROVE Len(Stream(asked)) >= READ_BUFFER_SIZE
    <3>1. PICK r \in Requests : r = asked
      BY <2>2 DEF ReadInv, Flow, ReadTypes
    <3>2. Placed(r) /\ m_read_idx = READ_BUFFER_SIZE
      BY <2>2, <3>1 DEF ReadInv, Flow
    <3> QED BY <3>1, <3>2, ReadAtMost
  <2> QED BY <2>1, <2>2 DEF WholeRequestDecided
<1> QED
  BY <1>1, <1>2, ReadInvInvariant, PTL

-----------------------------------------------------------------------------
(* The response.                                                           *)

\* The frames behind the JSON text and its length.
Sharing ==
  /\ Json_share_buf \in [text : Frames, len : Frames]
  /\ rpc # "json2" => Json_share_buf.text = Json_share_buf.len
  /\ rpc = "json2" => Json_share_buf.text = frame

\* Between a verdict and the end of the response the mapped file is the one
\* asked for; outside of it nothing is mapped and nothing half sent.
Mapping ==
  /\ pc \in {"in", "parse", "out", "json", "copy"} => bytes_have_send = 0
  /\ pc \in {"in", "over", "dead", "lost"} /\ got # <<>> => m_file_address = NoMap
  /\ pc \in {"in", "over"} /\ got # <<>> => ~pending
  /\ pc \in {"parse", "out", "deaf"} => got = <<>>
  /\ pc \in {"out", "write"} /\ m_read_ret = "FILE_REQUEST" => m_file_address.url = m_url
  /\ pc \in {"json", "copy", "write"} /\ ~spoilt => ~HalfWritten /\ ~StaleMap

\* A JSON response between the header and the iovecs.
Preparing ==
  pc \in {"json", "copy"} =>
    /\ m_read_ret = "FILE_JSON" /\ got = <<>> /\ cuts = 0 /\ m_write_idx = HeaderSize
    /\ ~spoilt => announced = JsonLength[Json_share_buf.len]
    /\ pc = "copy" /\ ~spoilt =>
         copied = [i \in 1..announced |-> <<"j", i, Json_share_buf.text>>]

\* What the second iovec is to point at.
Source == IF m_read_ret = "FILE_SPEC" THEN "spec"
          ELSE IF m_read_ret = "FILE_JSON" THEN "json" ELSE "file"

\* The client has the first cells of the response, and the iovecs hold the
\* rest: as process_write set them up, or after at most one writev that ended
\* inside the header; or only the file's, from where the last writev stopped.
\* Of a file that is not mapped nothing can be sent.
Partly(url) ==
  /\ announced = Len(Body(url)) /\ m_write_idx = HeaderSize
  /\ Source = "json" => copied = Body(url)
  /\ Len(got) \in Nat
  /\ got = SubSeq(Response(url), 1, Len(got))
  /\ bytes_have_send = Len(got)
  /\ bytes_to_send \in Nat /\ Len(got) + bytes_to_send = HeaderSize + announced
  /\ Len(got) = 0 => cuts = 0
  /\ Len(got) # 0 => bytes_to_send # 0
  /\ Source = "file" /\ ~m_file_address.ok => Len(got) <= HeaderSize
  /\ IF Len(got) < HeaderSize \/ Len(got) = 0
     THEN /\ iov0 = [base |-> Len(got), len |-> HeaderSize - Len(got)]
          /\ iov1 = [mem |-> Source, base |-> 0, len |-> announced]
          /\ Len(got) # 0 => cuts = 1
     ELSE /\ iov0.len = 0
          /\ iov1 = [mem |-> "file", base |-> Len(got) - HeaderSize, len |-> bytes_to_send]

\* What the client has of the response for url when write() has ended.
Ended(url) ==
  /\ got = SubSeq(Response(url), 1, Len(got))
  /\ pc \in {"in", "over"} => Len(got) = HeaderSize + announced
  /\ pc = "dead" => IF url \in {SpecUrl, JsonUrl} THEN Len(got) >= HeaderSize
                                                   ELSE Len(got) = HeaderSize

\* The response of the request in work, or of the one write() has ended with.
Answering ==
  ~spoilt =>
    /\ \A url \in Urls : pc = "write" /\ m_url = url => Partly(url)
    /\ pc \in {"in", "over", "dead", "lost", "closed"} /\ got # <<>> =>
         \E url \in RightUrls(asked) : Ended(url)

\* The invariant of the writing half.
WriteInv == Sharing /\ Mapping /\ Preparing /\ Answering

\* What the verdict says of the URL asked for.
LEMMA VerdictSays ==
  ASSUME ReadInv, pc \in {"out", "json", "copy", "write"}
  PROVE  /\ pending /\ asked \in Requests
         /\ m_url \in RightUrls(asked) /\ m_url \in Urls
         /\ m_read_ret = "FILE_SPEC" => m_url = SpecUrl
         /\ m_read_ret = "FILE_JSON" => m_url = JsonUrl
         /\ m_read_ret = "FILE_REQUEST" =>
              /\ m_url \notin {SpecUrl, JsonUrl}
              /\ m_url \in DOMAIN Files
              /\ Files[m_url].size \in Nat
         /\ m_read_ret \in {"FILE_REQUEST", "FILE_SPEC", "FILE_JSON"}
<1>1. pending /\ asked \in Requests /\ GoodLine(asked.line)
      /\ m_read_ret \in {"FILE_REQUEST", "FILE_SPEC", "FILE_JSON"}
  BY DEF ReadInv, Flow, ReadTypes, Answerable
<1>2. m_read_ret = Resource(m_url) /\ m_url \in RightUrls(asked)
  BY <1>1 DEF ReadInv, RightVerdict
<1>3. m_url \in Urls
  BY <1>1, <1>2, FilesAssumption DEF RightUrls, GoodLine, Urls
<1>4. /\ m_read_ret = "FILE_SPEC" => m_url = SpecUrl
      /\ m_read_ret = "FILE_JSON" => m_url = JsonUrl
      /\ m_read_ret = "FILE_REQUEST" => m_url \notin {SpecUrl, JsonUrl}
  BY <1>2 DEF Resource
<1>5. m_read_ret = "FILE_REQUEST" => m_url \in DOMAIN Files /\ Files[m_url].size \in Nat
  BY <1>3, <1>4, SizesAssumption DEF Urls
<1> QED BY <1>1, <1>2, <1>3, <1>4, <1>5

\* The response, cell by cell.
LEMMA ResponseOf ==
  ASSUME NEW url, NEW n \in Nat, NEW T, Body(url) \in [1..n -> T]
  PROVE  /\ Len(Body(url)) = n
         /\ \E S : Response(url) \in Seq(S)
         /\ Len(Response(url)) = HeaderSize + n
         /\ \A i \in 1..HeaderSize : Response(url)[i] = <<"h", i>>
         /\ \A i \in 1..n : Response(url)[HeaderSize + i] = Body(url)[i]
<1> DEFINE h == [i \in 1..HeaderSize |-> <<"h", i>>]
           S == {h[i] : i \in 1..HeaderSize} \cup T
           b == Body(url)
<1>1. HeaderSize \in Nat
  BY SizesAssumption
<1>2. h \in [1..HeaderSize -> S] /\ b \in [1..n -> S]
  OBVIOUS
<1>3. \A i \in 1..HeaderSize : h[i] = <<"h", i>>
  OBVIOUS
<1> HIDE DEF h, S
<1>4. h \in Seq(S) /\ Len(h) = HeaderSize /\ b \in Seq(S) /\ Len(b) = n
  BY <1>1, <1>2
<1>5. Response(url) = h \o b
  BY DEF Response, h
<1> HIDE DEF b
<1> DEFINE t == h \o b
<1>6. /\ t \in Seq(S) /\ Len(t) = HeaderSize + n
      /\ \A i \in 1..(HeaderSize + n) :
           t[i] = IF i <= HeaderSize THEN h[i] ELSE b[i - HeaderSize]
  BY <1>4, ConcatProperties
<1> HIDE DEF t
<1>7. \A i \in 1..HeaderSize : t[i] = <<"h", i>>
  BY <1>1, <1>3, <1>6
<1>8. ASSUME NEW i \in 1..n PROVE t[HeaderSize + i] = b[i]
  <2> DEFINE k == HeaderSize + i
  <2>1. k \in 1..(HeaderSize + n) /\ ~(k <= HeaderSize) /\ k - HeaderSize = i
    BY <1>1
  <2> HIDE DEF k
  <2>2. t[k] = b[i]
    BY <1>6, <2>1
  <2> QED BY <2>2 DEF k
<1> QED BY <1>4, <1>5, <1>6, <1>7, <1>8 DEF t, b

LEMMA ResponseShape ==
  ASSUME Sharing, ReadInv, pc \in {"out", "json", "copy", "write"},
         NEW url \in Urls, m_url = url
  PROVE  /\ Len(Body(url)) \in Nat
         /\ \E S : Response(url) \in Seq(S)
         /\ Len(Response(url)) = HeaderSize + Len(Body(url))
         /\ \A i \in 1..HeaderSize : Response(url)[i] = <<"h", i>>
         /\ \A i \in 1..Len(Body(url)) : Response(url)[HeaderSize + i] = Body(url)[i]
         /\ m_read_ret = "FILE_SPEC" =>
              /\ Len(Body(url)) = SpecLength
              /\ \A i \in 1..Len(Body(url)) : Body(url)[i] = <<"s", i, spec_share_buf[i]>>
         /\ m_read_ret = "FILE_JSON" =>
              /\ Len(Body(url)) = JsonLength[Json_share_buf.text]
              /\ Body(url) = [i \in 1..Len(Body(url)) |-> <<"j", i, Json_share_buf.text>>]
         /\ m_read_ret = "FILE_REQUEST" =>
              /\ Len(Body(url)) = Files[m_url].size
              /\ \A i \in 1..Len(Body(url)) : Body(url)[i] = <<"f", m_url, i>>
<1>1. /\ m_read_ret = "FILE_SPEC" => url = SpecUrl
      /\ m_read_ret = "FILE_JSON" => url = JsonUrl
      /\ m_read_ret = "FILE_REQUEST" =>
           url \notin {SpecUrl, JsonUrl} /\ Files[url].size \in Nat
      /\ m_read_ret \in {"FILE_REQUEST", "FILE_SPEC", "FILE_JSON"}
  BY VerdictSays
<1>2. SpecUrl # JsonUrl
  BY DEF SpecUrl, JsonUrl
<1>3. HeaderSize \in Nat /\ SpecLength \in Nat /\ JsonLength[Json_share_buf.text] \in Nat
  <2>1. HeaderSize \in Nat /\ SPEC_SIZE \in Nat /\ BYTE \in Nat \ {0}
    BY SizesAssumption
  <2>2. Json_share_buf.text \in 1..Len(JsonLength) /\ JsonLength \in Seq(Nat)
    BY SizesAssumption DEF Sharing, Frames
  <2> QED BY <2>1, <2>2 DEF SpecLength
<1>4. CASE m_read_ret = "FILE_SPEC"
  <2>1. Body(url) = [i \in 1..SpecLength |-> <<"s", i, spec_share_buf[i]>>]
    BY <1>1, <1>2, <1>4 DEF Body
  <2> DEFINE T == {Body(url)[i] : i \in 1..SpecLength}
  <2>2. Body(url) \in [1..SpecLength -> T]
    BY <2>1
  <2> HIDE DEF T
  <2>3. Len(Body(url)) = SpecLength
    BY <1>3, <2>2, ResponseOf
  <2> QED BY <1>3, <1>4, <2>1, <2>2, <2>3, ResponseOf
<1>5. CASE m_read_ret = "FILE_JSON"
  <2>1. Body(url) = [i \in 1..JsonLength[Json_share_buf.text] |->
                     <<"j", i, Json_share_buf.text>>]
    BY <1>1, <1>2, <1>5 DEF Body
  <2> DEFINE n == JsonLength[Json_share_buf.text]
             T == {Body(url)[i] : i \in 1..n}
  <2>2. Body(url) \in [1..n -> T] /\ n \in Nat
    BY <1>3, <2>1
  <2> HIDE DEF T
  <2>3. Len(Body(url)) = n
    BY <2>2, ResponseOf
  <2> QED BY <1>5, <2>1, <2>2, <2>3, ResponseOf
<1>6. CASE m_read_ret = "FILE_REQUEST"
  <2>1. Body(url) = [i \in 1..Files[url].size |-> <<"f", url, i>>]
    BY <1>1, <1>6 DEF Body
  <2> DEFINE n == Files[m_url].size
             T == {Body(url)[i] : i \in 1..n}
  <2>2. Body(url) \in [1..n -> T] /\ n \in Nat
    BY <1>1, <1>6, <2>1
  <2> HIDE DEF T, n
  <2>3. /\ Len(Body(url)) = n
        /\ \E S : Response(url) \in Seq(S)
        /\ Len(Response(url)) = HeaderSize + n
        /\ \A i \in 1..HeaderSize : Response(url)[i] = <<"h", i>>
        /\ \A i \in 1..n : Response(url)[HeaderSize + i] = Body(url)[i]
    BY <2>2, ResponseOf
  <2>4. n = Files[m_url].size /\ \A i \in 1..n : Body(url)[i] = <<"f", m_url, i>>
    BY <1>1, <2>1 DEF n
  <2> QED BY <1>6, <2>2, <2>3, <2>4
<1> QED BY <1>1, <1>4, <1>5, <1>6

-----------------------------------------------------------------------------
(* The sizes writev accepts.                                               *)

\* The first k cells of a text, with the next n of them added.
LEMMA PrefixGrows ==
  ASSUME NEW S, NEW t \in Seq(S), NEW k \in Nat, NEW n \in Nat, k + n <= Len(t),
         NEW T, NEW u \in [1..n -> T], \A i \in 1..n : u[i] = t[k + i]
  PROVE  /\ SubSeq(t, 1, k) \o u = SubSeq(t, 1, k + n)
         /\ Len(SubSeq(t, 1, k) \o u) = k + n
<1> DEFINE g == SubSeq(t, 1, k)
           v == SubSeq(t, 1, k + n)
<1>1. Len(t) \in Nat /\ k <= Len(t)
  OBVIOUS
<1>2. g \in Seq(S) /\ Len(g) = k /\ \A i \in 1..k : g[i] = t[i]
  BY <1>1, SubSeqProperties
<1>3. v \in Seq(S) /\ Len(v) = k + n /\ \A i \in 1..(k + n) : v[i] = t[i]
  <2> DEFINE m == k + n
  <2>1. m \in Nat /\ m <= Len(t)
    BY <1>1
  <2> HIDE DEF m
  <2>2. \A i \in 1..m : t[i] \in S
    BY <1>1, <2>1
  <2>3. SubSeq(t, 1, m) \in Seq(S) /\ Len(SubSeq(t, 1, m)) = m
    BY <2>1, <2>2, SubSeqProperties
  <2>4. \A i \in 1..m : SubSeq(t, 1, m)[i] = t[i]
    BY <1>1, <2>1
  <2> QED BY <2>3, <2>4 DEF m
<1> HIDE DEF g, v
<1>4. ASSUME NEW i \in 1..n PROVE t[k + i] \in S
  <2>1. k + i \in 1..Len(t)
    BY <1>1
  <2> QED BY <2>1
<1>5. u \in [1..n -> S]
  BY <1>4
<1>6. u \in Seq(S) /\ Len(u) = n
  BY <1>5
<1> DEFINE c == g \o u
<1>7. /\ c \in Seq(S) /\ Len(c) = k + n
      /\ \A i \in 1..(k + n) : c[i] = IF i <= k THEN g[i] ELSE u[i - k]
  <2>1. /\ g \o u \in Seq(S) /\ Len(g \o u) = Len(g) + Len(u)
        /\ \A i \in 1..(Len(g) + Len(u)) :
             (g \o u)[i] = IF i <= Len(g) THEN g[i] ELSE u[i - Len(g)]
    BY <1>2, <1>6, ConcatProperties, Zenon
  <2> QED BY <1>2, <1>6, <2>1
<1> HIDE DEF c
<1>8. ASSUME NEW i \in 1..(k + n) PROVE c[i] = v[i]
  <2>1. CASE i <= k
    <3>1. i \in 1..k
      BY <2>1
    <3> QED BY <1>2, <1>3, <1>7, <2>1, <3>1
  <2>2. CASE i > k
    <3> DEFINE m == i - k
    <3>1. m \in 1..n /\ k + m = i /\ ~(i <= k)
      BY <2>2
    <3>2. c[i] = u[m]
      BY <1>7, <3>1
    <3> HIDE DEF m
    <3>3. u[m] = t[k + m]
      BY <3>1
    <3> QED BY <1>3, <3>1, <3>2, <3>3
  <2> QED BY <2>1, <2>2
<1>9. c = v
  BY <1>3, <1>7, <1>8, SeqEqual
<1> QED BY <1>7, <1>9 DEF g, v, c

LEMMA MinOfTwo ==
  ASSUME NEW a \in Nat, NEW b \in Nat
  PROVE  Min({a, b}) = IF a <= b THEN a ELSE b
<1>1. {a, b} \in SUBSET Nat
  OBVIOUS
<1>2. CASE a <= b
  <2>1. \A y \in {a, b} : a <= y
    BY <1>2
  <2> QED BY <1>1, <1>2, <2>1, LeastIs
<1>3. CASE ~(a <= b)
  <2>1. \A y \in {a, b} : b <= y
    BY <1>3
  <2> QED BY <1>1, <1>3, <2>1, LeastIs
<1> QED BY <1>2, <1>3

\* What one writev can take, and what of the response it is.
LEMMA CellsSent ==
  ASSUME WriteInv, ReadInv, pc = "write", ~spoilt, NEW url \in Urls, m_url = url,
         NEW n \in Nat, n <= iov0.len + Readable
  PROVE  /\ n <= bytes_to_send
         /\ Sent(n) = [i \in 1..n |-> Sent(n)[i]]
         /\ \A i \in 1..n : Sent(n)[i] = Response(url)[Len(got) + i]
<1>1. /\ Sharing /\ Mapping /\ Partly(url) /\ ~StaleMap
  BY DEF WriteInv, Answering, Mapping
<1> DEFINE k == Len(got)
           from == Min({n, iov0.len})
           body == Body(url)
           resp == Response(url)
<1>2. HeaderSize \in Nat
  BY SizesAssumption
<1>3. /\ Len(body) \in Nat
      /\ \A i \in 1..HeaderSize : resp[i] = <<"h", i>>
      /\ \A i \in 1..Len(body) : resp[HeaderSize + i] = body[i]
      /\ m_read_ret = "FILE_SPEC" =>
           \A i \in 1..Len(body) : body[i] = <<"s", i, spec_share_buf[i]>>
      /\ m_read_ret = "FILE_JSON" =>
           body = [i \in 1..Len(body) |-> <<"j", i, Json_share_buf.text>>]
      /\ m_read_ret = "FILE_REQUEST" =>
           /\ Len(body) = Files[m_url].size
           /\ \A i \in 1..Len(body) : body[i] = <<"f", m_url, i>>
  BY <1>1, ResponseShape
<1>4. /\ k \in Nat /\ bytes_to_send \in Nat /\ announced = Len(body)
      /\ k + bytes_to_send = HeaderSize + announced
  BY <1>1 DEF Partly
<1>5. m_read_ret \in {"FILE_REQUEST", "FILE_SPEC", "FILE_JSON"}
  BY VerdictSays
<1>6. m_read_ret = "FILE_REQUEST" => m_file_address.url = m_url
  BY <1>1 DEF Mapping
<1>7. m_read_ret # "FILE_REQUEST" => ~m_file_address.ok
  <2>1. ~NoMap.ok
    BY DEF NoMap
  <2>2. m_read_ret # "FILE_REQUEST" => m_file_address = NoMap
    BY <1>1 DEF StaleMap
  <2> QED BY <2>1, <2>2
<1>8. Sent(n) = [i \in 1..n |-> IF i <= from
                     THEN <<"h", iov0.base + i>>
                     ELSE Memory(iov1.mem, iov1.base + i - from)]
  BY DEF Sent
<1>9. Sent(n) = [i \in 1..n |-> Sent(n)[i]]
  BY <1>8
<1>10. CASE k < HeaderSize \/ k = 0
  <2>1. /\ iov0.base = k /\ iov0.len = HeaderSize - k
        /\ iov1.mem = Source /\ iov1.base = 0 /\ iov1.len = announced
    BY <1>1, <1>10 DEF Partly
  <2>2. Readable = 0 \/ Readable = announced
    BY <2>1 DEF Readable
  <2>3. n <= bytes_to_send /\ HeaderSize - k \in Nat
    BY <1>2, <1>3, <1>4, <1>10, <2>1, <2>2
  <2>4. from = IF n <= HeaderSize - k THEN n ELSE HeaderSize - k
    BY <2>1, <2>3, MinOfTwo
  <2> HIDE DEF k, from, body, resp
  <2>5. ASSUME NEW i \in 1..n
        PROVE  Sent(n)[i] = resp[k + i]
    <3>1. CASE i <= HeaderSize - k
      <4>1. i <= from /\ k + i \in 1..HeaderSize
        BY <1>2, <1>4, <2>3, <2>4, <3>1
      <4>2. Sent(n)[i] = <<"h", k + i>>
        BY <1>8, <2>1, <4>1
      <4> QED BY <1>3, <4>1, <4>2
    <3>2. CASE i > HeaderSize - k
      <4> DEFINE j == i - (HeaderSize - k)
      <4>1. from = HeaderSize - k /\ ~(i <= from) /\ 0 + i - from = j
        BY <1>2, <1>4, <2>3, <2>4, <3>2
      <4>2. j \in 1..Len(body) /\ HeaderSize + j = k + i /\ Readable # 0
        BY <1>2, <1>3, <1>4, <2>1, <2>2, <2>3, <3>2
      <4>3. Sent(n)[i] = Memory(Source, j)
        BY <1>8, <2>1, <4>1
      <4> HIDE DEF j
      <4>4. Memory(Source, j) = body[j]
        <5>1. CASE m_read_ret = "FILE_SPEC"
          BY <1>3, <4>2, <5>1 DEF Memory, Source
        <5>2. CASE m_read_ret = "FILE_JSON"
          <6>1. Source = "json" /\ copied = body
            BY <1>1, <5>2 DEF Source, Partly, body
          <6>2. j <= Len(copied)
            BY <4>2, <6>1
          <6> QED BY <6>1, <6>2 DEF Memory
        <5>3. CASE m_read_ret = "FILE_REQUEST"
          <6>1. Source = "file"
            BY <5>3 DEF Source
          <6>2. m_file_address.ok
            BY <2>1, <4>2, <6>1 DEF Readable
          <6>3. FileSize = Len(body)
            BY <1>3, <1>6, <5>3, <6>2 DEF FileSize
          <6> QED BY <1>3, <1>6, <4>2, <5>3, <6>1, <6>3 DEF Memory
        <5> QED BY <1>5, <5>1, <5>2, <5>3
      <4> QED BY <1>3, <4>2, <4>3, <4>4
    <3> QED BY <1>2, <1>4, <2>3, <3>1, <3>2
  <2> QED BY <1>9, <2>3, <2>5 DEF k, resp
<1>11. CASE ~(k < HeaderSize \/ k = 0)
  <2>1. /\ iov0.len = 0
        /\ iov1.mem = "file" /\ iov1.base = k - HeaderSize /\ iov1.len = bytes_to_send
    BY <1>1, <1>11 DEF Partly
  <2>2. Readable = 0 \/ Readable = bytes_to_send
    BY <2>1 DEF Readable
  <2>3. n <= bytes_to_send
    BY <1>4, <2>1, <2>2
  <2>4. from = 0
    BY <2>1, MinOfTwo
  <2> HIDE DEF k, from, body, resp
  <2>5. ASSUME NEW i \in 1..n
        PROVE  Sent(n)[i] = resp[k + i]
    <3> DEFINE j == k - HeaderSize + i
    <3>1. /\ j \in 1..Len(body) /\ HeaderSize + j = k + i /\ j - 0 = j
          /\ ~(i <= 0) /\ Readable # 0
      BY <1>2, <1>3, <1>4, <1>11, <2>1, <2>2, <2>3
    <3>2. Sent(n)[i] = Memory("file", j)
      BY <1>8, <2>1, <2>4, <3>1
    <3>3. m_file_address.ok /\ m_read_ret = "FILE_REQUEST"
      BY <1>7, <2>1, <3>1 DEF Readable
    <3> HIDE DEF j
    <3>4. FileSize = Len(body)
      BY <1>3, <1>6, <3>3 DEF FileSize
    <3>5. Memory("file", j) = body[j]
      BY <1>3, <1>6, <3>1, <3>3, <3>4 DEF Memory
    <3> QED BY <1>3, <3>1, <3>2, <3>5
  <2> QED BY <1>9, <2>3, <2>5 DEF k, resp
<1> QED BY <1>10, <1>11

\* The response for url does not change while the receiver does nothing.
LEMMA ResponseKept ==
  ASSUME NEW url, UNCHANGED sharedVars
  PROVE  Body(url)' = Body(url) /\ Response(url)' = Response(url)
BY DEF Body, Response, sharedVars

\* What the client has after a writev is again the beginning of the response.
LEMMA WrittenOn ==
  ASSUME WriteInv, ReadInv, pc = "write", ~spoilt, NEW url \in Urls, m_url = url,
         NEW n \in Nat, n <= iov0.len + Readable, got' = got \o Sent(n)
  PROVE  /\ got' = SubSeq(Response(url), 1, Len(got) + n)
         /\ Len(got') = Len(got) + n
         /\ n <= bytes_to_send
<1> DEFINE k == Len(got)
           u == Sent(n)
           t == Response(url)
<1>1. /\ n <= bytes_to_send
      /\ u = [i \in 1..n |-> u[i]]
      /\ \A i \in 1..n : u[i] = t[k + i]
  BY CellsSent
<1>2. Sharing /\ Partly(url)
  BY DEF WriteInv, Answering
<1>3. Len(t) = HeaderSize + Len(Body(url)) /\ Len(Body(url)) \in Nat
  BY <1>2, ResponseShape
<1>4. PICK S : t \in Seq(S)
  BY <1>2, ResponseShape
<1>5. /\ k \in Nat /\ k + bytes_to_send = HeaderSize + announced
      /\ announced = Len(Body(url)) /\ bytes_to_send \in Nat
      /\ got = SubSeq(t, 1, k)
  BY <1>2 DEF Partly
<1>6. k + n <= Len(t)
  BY <1>1, <1>3, <1>5
<1> DEFINE T == {u[i] : i \in 1..n}
<1> HIDE DEF k, u, t
<1>9. u \in [1..n -> T]
  BY <1>1
<1> HIDE DEF T
<1>10. k \in Nat /\ \A i \in 1..n : u[i] = t[k + i]
  BY <1>1, <1>5
<1>7. /\ SubSeq(t, 1, k) \o u = SubSeq(t, 1, k + n)
      /\ Len(SubSeq(t, 1, k) \o u) = k + n
  BY <1>4, <1>6, <1>9, <1>10, PrefixGrows
<1>8. got' = SubSeq(t, 1, k) \o u
  BY <1>5 DEF u
<1> QED
  BY <1>1, <1>7, <1>8 DEF k, t

\* A writev that leaves something: the iovecs hold what is left.
LEMMA PartlyWritten ==
  ASSUME WriteInv, ReadInv, WriteTypes, HeaderCuts \in {0, 1}, ~spoilt,
         NEW url \in Urls, m_url = url, NEW n \in Nat \ {0}, WriteSome(n)
  PROVE  Partly(url)'
<1>1. /\ pc = "write" /\ n <= iov0.len + Readable /\ bytes_to_send > n
      /\ (n < iov0.len => cuts < HeaderCuts)
      /\ cuts' = IF n < iov0.len THEN cuts + 1 ELSE cuts
      /\ got' = got \o Sent(n)
      /\ bytes_have_send' = bytes_have_send + n
      /\ bytes_to_send' = bytes_to_send - n
      /\ Advance(n, bytes_have_send + n, bytes_to_send - n)
      /\ UNCHANGED <<m_write_idx, announced, copied, m_read_ret, m_file_address, sharedVars>>
  <2>1. n \in 1..(iov0.len + Readable)
    BY DEF WriteSome
  <2>2. n <= iov0.len + Readable
    BY <2>1
  <2> QED BY <2>2 DEF WriteSome, readVars
<1> DEFINE k == Len(got)
<1>2. /\ got' = SubSeq(Response(url), 1, k + n) /\ Len(got') = k + n
  BY <1>1, WrittenOn
<1>3. Body(url)' = Body(url) /\ Response(url)' = Response(url)
  BY <1>1, ResponseKept
<1>4. Partly(url)
  BY <1>1 DEF WriteInv, Answering
<1>5. /\ k \in Nat /\ bytes_to_send \in Nat /\ k + bytes_to_send = HeaderSize + announced
      /\ m_write_idx = HeaderSize /\ HeaderSize \in Nat /\ bytes_have_send = k
      /\ announced = Len(Body(url)) /\ announced \in Nat
  BY <1>1, <1>4, SizesAssumption, ResponseShape DEF Partly, WriteInv
<1>6. /\ announced' = Len(Body(url)') /\ m_write_idx' = HeaderSize
      /\ (Source' = "json" => copied' = Body(url)')
      /\ Len(got') \in Nat
      /\ got' = SubSeq(Response(url)', 1, Len(got'))
      /\ bytes_have_send' = Len(got')
      /\ bytes_to_send' \in Nat /\ Len(got') + bytes_to_send' = HeaderSize + announced'
      /\ Len(got') # 0 /\ bytes_to_send' # 0
      /\ (Source' = "file" /\ ~m_file_address'.ok => Len(got') <= HeaderSize)
  <2>1. Source' = Source
    BY <1>1 DEF Source
  <2>2. Source' = "json" => copied' = Body(url)'
    BY <1>1, <1>3, <1>4, <2>1 DEF Partly
  <2>3. announced' = announced /\ m_write_idx' = m_write_idx
    BY <1>1
  <2>4. announced' = Len(Body(url)')
    BY <1>3, <1>5, <2>3
  <2>5. got' = SubSeq(Response(url)', 1, Len(got'))
    BY <1>2, <1>3
  <2>6. /\ Len(got') \in Nat /\ bytes_have_send' = Len(got') /\ Len(got') # 0
        /\ bytes_to_send' \in Nat /\ bytes_to_send' # 0
    BY <1>1, <1>2, <1>5
  <2>7. Len(got') + bytes_to_send' = HeaderSize + announced'
    <3>1. /\ Len(got') = k + n /\ bytes_to_send' = bytes_to_send - n
          /\ announced' = announced
      BY <1>1, <1>2, <2>3
    <3>2. k \in Nat /\ bytes_to_send \in Nat /\ k + bytes_to_send = HeaderSize + announced
      BY <1>5
    <3> HIDE DEF k
    <3> QED BY <3>1, <3>2
  <2>8. m_write_idx' = HeaderSize
    BY <1>5, <2>3
  <2>9. Source' = "file" /\ ~m_file_address'.ok => Len(got') <= HeaderSize
    <3>1. SUFFICES ASSUME Source = "file", ~m_file_address.ok PROVE k + n <= HeaderSize
      BY <1>1, <1>2, <2>1
    <3>2. iov1.mem = "file"
      BY <1>4, <3>1 DEF Partly
    <3>3. Readable = 0
      BY <3>1, <3>2 DEF Readable
    <3>4. CASE k < HeaderSize \/ k = 0
      <4>1. iov0.len = HeaderSize - k
        BY <1>4, <3>4 DEF Partly
      <4> QED BY <1>1, <1>5, <3>3, <4>1
    <3>5. CASE ~(k < HeaderSize \/ k = 0)
      <4>1. iov0.len = 0
        BY <1>4, <3>5 DEF Partly
      <4> QED BY <1>1, <3>3, <4>1
    <3> QED BY <3>4, <3>5
  <2> QED BY <2>2, <2>4, <2>5, <2>6, <2>7, <2>8, <2>9, Zenon
<1>7. CASE n < iov0.len
  <2>1. k = 0 /\ cuts = 0 /\ cuts' = 1
    <3>1. cuts # 1
      BY <1>1, <1>7
    <3>2. k < HeaderSize \/ k = 0
      BY <1>4, <1>7 DEF Partly
    <3>3. k = 0
      BY <1>4, <3>1, <3>2 DEF Partly
    <3>4. cuts = 0
      BY <1>4, <3>3 DEF Partly
    <3> QED BY <1>1, <1>7, <3>3, <3>4
  <2>2. /\ iov0 = [base |-> 0, len |-> HeaderSize]
        /\ iov1 = [mem |-> Source, base |-> 0, len |-> announced]
    <3>1. /\ iov0 = [base |-> k, len |-> HeaderSize - k]
          /\ iov1 = [mem |-> Source, base |-> 0, len |-> announced]
      BY <1>4, <2>1 DEF Partly
    <3>2. HeaderSize - k = HeaderSize
      BY <1>5, <2>1
    <3> QED BY <2>1, <3>1, <3>2
  <2>3. n < HeaderSize
    BY <1>7, <2>2
  <2>4. ~(bytes_have_send + n >= iov0.len)
    BY <1>5, <2>1, <2>2, <2>3
  <2>5. /\ iov0' = [base |-> k + n, len |-> HeaderSize - (k + n)]
        /\ iov1' = [mem |-> Source, base |-> 0, len |-> announced]
    <3>1. iov0' = [base |-> bytes_have_send + n, len |-> iov0.len - n] /\ UNCHANGED iov1
      BY <1>1, <2>4 DEF Advance, AdvanceTo
    <3>2. bytes_have_send + n = k + n /\ iov0.len - n = HeaderSize - (k + n)
      BY <1>5, <2>1, <2>2
    <3> QED BY <2>2, <3>1, <3>2
  <2>6. /\ Len(got') < HeaderSize \/ Len(got') = 0
        /\ iov0' = [base |-> Len(got'), len |-> HeaderSize - Len(got')]
        /\ iov1' = [mem |-> Source', base |-> 0, len |-> announced']
        /\ cuts' = 1
    <3>1. Source' = Source /\ announced' = announced
      BY <1>1 DEF Source
    <3>2. Len(got') < HeaderSize
      BY <1>2, <1>5, <2>1, <2>3
    <3> QED BY <1>2, <2>1, <2>5, <3>1, <3>2
  <2> QED BY <1>6, <2>6 DEF Partly
<1>8. CASE ~(n < iov0.len)
  <2>1. /\ iov0.len \in Nat /\ iov0.len <= n /\ HeaderSize <= k + n
        /\ bytes_have_send + n >= iov0.len
    <3>1. CASE k < HeaderSize \/ k = 0
      <4>1. iov0.len = HeaderSize - k
        BY <1>4, <3>1 DEF Partly
      <4> QED BY <1>5, <1>8, <3>1, <4>1
    <3>2. CASE ~(k < HeaderSize \/ k = 0)
      <4>1. iov0.len = 0
        BY <1>4, <3>2 DEF Partly
      <4> QED BY <1>5, <1>8, <3>2, <4>1
    <3> QED BY <3>1, <3>2
  <2>2. /\ iov0' = [iov0 EXCEPT !.len = 0]
        /\ iov1' = [mem |-> "file", base |-> (bytes_have_send + n) - m_write_idx,
                    len |-> bytes_to_send - n]
    <3>1. AdvanceTo((bytes_have_send + n) - m_write_idx, n, bytes_have_send + n,
                    bytes_to_send - n)
      BY <1>1 DEF Advance
    <3>2. bytes_have_send + n >= iov0.len
      BY <2>1
    <3> QED BY <3>1, <3>2 DEF AdvanceTo
  <2>3. iov0'.len = 0
    BY <2>2 DEF WriteTypes
  <2>4. iov1' = [mem |-> "file", base |-> Len(got') - HeaderSize, len |-> bytes_to_send']
    BY <1>1, <1>2, <1>5, <2>2
  <2>5. ~(Len(got') < HeaderSize \/ Len(got') = 0)
    BY <1>2, <1>5, <1>6, <2>1
  <2> QED BY <1>6, <2>3, <2>4, <2>5 DEF Partly
<1> QED BY <1>7, <1>8

-----------------------------------------------------------------------------
(* The steps of the writing half.                                          *)

\* The last writev: nothing of the response is missing.
LEMMA AllWritten ==
  ASSUME WriteInv, ReadInv, ~spoilt,
         NEW url \in Urls, m_url = url, NEW n \in Nat \ {0}, WriteLast(n)
  PROVE  /\ got' = SubSeq(Response(url)', 1, Len(got'))
         /\ Len(got') = HeaderSize + announced'
<1>1. /\ pc = "write" /\ n <= iov0.len + Readable /\ bytes_to_send <= n
      /\ got' = got \o Sent(n)
      /\ UNCHANGED <<announced, sharedVars>>
  <2>1. n \in 1..(iov0.len + Readable)
    BY DEF WriteLast
  <2>2. n <= iov0.len + Readable
    BY <2>1
  <2> QED BY <2>2 DEF WriteLast
<1> DEFINE k == Len(got)
<1>2. got' = SubSeq(Response(url), 1, k + n) /\ Len(got') = k + n /\ n <= bytes_to_send
  BY <1>1, WrittenOn
<1>3. Response(url)' = Response(url)
  BY <1>1, ResponseKept
<1>4. Partly(url)
  BY <1>1 DEF WriteInv, Answering
<1>5. k + n = HeaderSize + announced
  <2>1. k \in Nat /\ bytes_to_send \in Nat /\ k + bytes_to_send = HeaderSize + announced
    BY <1>4 DEF Partly
  <2> QED BY <1>1, <1>2, <2>1
<1> QED BY <1>1, <1>2, <1>3, <1>5

LEMMA SharingKept ==
  ASSUME Sharing, UNCHANGED sharedVars
  PROVE  Sharing'
BY DEF Sharing, sharedVars

\* A step that has nothing to do with the response.
LEMMA WriteInvKept ==
  ASSUME WriteInv, UNCHANGED <<asked, pending, m_read_ret, m_url, m_post_cgi>>,
         UNCHANGED <<m_file_address, pc>>,
         UNCHANGED <<writeVars, sharedVars, spoilt>>
  PROVE  WriteInv'
<1>1. Sharing'
  BY SharingKept DEF WriteInv
<1>2. Mapping' /\ Preparing'
  BY DEF WriteInv, Mapping, Preparing, HalfWritten, StaleMap, writeVars, sharedVars
<1>3. Answering'
  <2>1. ASSUME NEW url PROVE Body(url)' = Body(url) /\ Response(url)' = Response(url)
    BY ResponseKept
  <2>2. /\ UNCHANGED <<m_write_idx, announced, iov0, iov1, bytes_to_send, bytes_have_send>>
        /\ UNCHANGED <<copied, got, cuts, m_url, m_file_address, pc, spoilt, Source>>
        /\ RightUrls(asked)' = RightUrls(asked)
    BY DEF writeVars, Source, RightUrls
  <2>3. ASSUME NEW url PROVE (Partly(url) => Partly(url)') /\ (Ended(url) => Ended(url)')
    BY <2>1, <2>2 DEF Partly, Ended
  <2> QED BY <2>2, <2>3 DEF WriteInv, Answering
<1> QED BY <1>1, <1>2, <1>3 DEF WriteInv

\* One lemma per step of the invariant: the receiver publishes a frame.
LEMMA WriteInvFrames ==
  ASSUME WriteInv, WriteTypes, parse_data_frame
  PROVE  WriteInv'
<1>1. /\ UNCHANGED <<clientVars, pc, readVars, writeVars>> /\ spoilt'
  BY DEF parse_data_frame, Publishing
<1>2. Sharing'
  <2>1. frame \in Frames /\ Json_share_buf \in [text : Frames, len : Frames]
    BY DEF WriteTypes, WriteInv, Sharing
  <2>2. CASE rpc = "spec"
    BY <2>2 DEF parse_data_frame, Publishing, WriteInv, Sharing
  <2>3. CASE rpc = "spec2"
    BY <2>3 DEF parse_data_frame, Publishing, WriteInv, Sharing
  <2>4. CASE rpc = "json"
    BY <2>1, <2>4 DEF parse_data_frame, Publishing, WriteInv, Sharing
  <2>5. CASE rpc = "json2"
    BY <2>1, <2>5 DEF parse_data_frame, Publishing, WriteInv, Sharing
  <2> QED BY <2>2, <2>3, <2>4, <2>5 DEF WriteTypes
<1>3. Mapping' /\ Preparing'
  BY <1>1 DEF WriteInv, Mapping, Preparing, writeVars, clientVars, readVars, parseVars
<1>4. Answering'
  BY <1>1 DEF Answering
<1> QED BY <1>2, <1>3, <1>4 DEF WriteInv

\* The steps that lead to no response, or away from it.
LEMMA WriteInvNothing ==
  ASSUME WriteInv, UNCHANGED sharedVars,
         \/ pc' \in {"deaf", "dead"} /\ got' = <<>>
         \/ /\ pc' \in {"in", "parse", "out"} /\ got' = <<>> /\ bytes_have_send' = 0
            /\ pc' = "out" /\ m_read_ret' = "FILE_REQUEST" => m_file_address'.url = m_url'
  PROVE  WriteInv'
<1>1. Sharing'
  BY SharingKept DEF WriteInv
<1>2. Mapping' /\ Preparing' /\ Answering'
  BY DEF Mapping, Preparing, Answering
<1> QED BY <1>1, <1>2 DEF WriteInv

LEMMA WriteInvClient ==
  ASSUME WriteInv, ReadInv, Client
  PROVE  WriteInv'
<1>1. ASSUME NEW r \in Requests, Ask(r), got' = <<>>,
             UNCHANGED <<bytes_have_send, sharedVars>>
      PROVE  WriteInv'
  <2>1. pc' = "in" /\ bytes_have_send' = 0
    BY <1>1 DEF Ask, WriteInv, Mapping
  <2> QED BY <1>1, <2>1, WriteInvNothing
<1>2. ASSUME NEW n \in 1..Len(unsent), Deliver(n),
             UNCHANGED <<writeVars, sharedVars, spoilt>>
      PROVE  WriteInv'
  BY <1>2, WriteInvKept DEF Deliver, readVars, parseVars
<1> QED BY <1>1, <1>2 DEF Client, writeVars

LEMMA WriteInvReading ==
  ASSUME WriteInv, ReadInv, Reading
  PROVE  WriteInv'
<1>1. UNCHANGED <<got, bytes_have_send, sharedVars>>
  BY DEF Reading, writeVars
<1>2. CASE Recv
  <2>1. pc = "in" /\ (pc' = "parse" \/ pc' = "deaf") /\ pending
    BY <1>2, EmptyText DEF Recv, TakeAll, ReadInv, Flow
  <2>2. got = <<>> /\ bytes_have_send = 0
    BY <2>1 DEF WriteInv, Mapping
  <2> QED BY <1>1, <2>1, <2>2, WriteInvNothing
<1>3. CASE process_read
  <2>1. /\ pc = "parse" /\ pc' \in {"in", "parse", "out", "dead"}
        /\ pc' = "out" => \E url : Page(url)
    BY <1>3 DEF process_read, NoMoreLines, RequestLine, HeaderLine, EndOfHeaders, Content,
       LineInContent, parse_content, NextLine, Decide, do_request, Page
  <2>2. got = <<>> /\ bytes_have_send = 0
    BY <2>1 DEF WriteInv, Mapping
  <2>3. pc' = "out" /\ m_read_ret' = "FILE_REQUEST" => m_file_address'.url = m_url'
    BY <2>1 DEF Page, Decide
  <2> QED BY <1>1, <2>1, <2>2, <2>3, WriteInvNothing
<1> QED BY <1>2, <1>3 DEF Reading

\* write() gives up: what the client has is the beginning of the response.
LEMMA WriteInvFails ==
  ASSUME WriteInv, ReadInv, WriteFails
  PROVE  WriteInv'
<1>1. /\ pc = "write" /\ pc' \in {"dead", "lost"} /\ m_file_address' = NoMap
      /\ pc' = "dead" => iov0.len = 0 /\ Readable = 0
      /\ UNCHANGED <<asked, m_post_cgi, got, announced, sharedVars, spoilt>>
  BY DEF WriteFails, unmap, clientVars, writeVars
<1>2. Sharing' /\ Mapping' /\ Preparing'
  BY <1>1, SharingKept DEF WriteInv, Mapping, Preparing
<1>3. PICK url \in Urls : m_url = url
  BY <1>1, VerdictSays
<1>4. url \in RightUrls(asked)'
  BY <1>1, <1>3, VerdictSays DEF RightUrls
<1>5. ASSUME ~spoilt, got # <<>> PROVE Ended(url)'
  <2>1. Partly(url)
    BY <1>1, <1>3, <1>5 DEF WriteInv, Answering
  <2>2. got' = SubSeq(Response(url)', 1, Len(got'))
    BY <1>1, <2>1, ResponseKept DEF Partly
  <2>3. Len(got) \in Nat \ {0} /\ HeaderSize \in Nat
    <3>1. PICK S : Response(url) \in Seq(S)
      BY <1>1, <1>3, ResponseShape DEF WriteInv
    <3>2. SubSeq(Response(url), 1, 0) = <<>>
      BY <3>1
    <3> QED BY <1>5, <2>1, <3>2, SizesAssumption DEF Partly
  <2>4. ASSUME pc' = "dead" PROVE Len(got) >= HeaderSize
    <3>1. SUFFICES ASSUME Len(got) < HeaderSize PROVE FALSE
      BY <2>3
    <3>2. iov0.len = HeaderSize - Len(got)
      BY <2>1, <3>1 DEF Partly
    <3> QED BY <1>1, <2>3, <2>4, <3>1, <3>2
  <2>5. ASSUME pc' = "dead", url \notin {SpecUrl, JsonUrl} PROVE Len(got) <= HeaderSize
    <3>1. m_read_ret = "FILE_REQUEST"
      BY <1>1, <1>3, <2>5, VerdictSays
    <3>2. Source = "file"
      BY <3>1 DEF Source
    <3>3. CASE m_file_address.ok
      <4>1. Readable = iov1.len
        BY <3>3 DEF Readable
      <4>2. CASE Len(got) < HeaderSize
        BY <2>3, <4>2
      <4>3. CASE ~(Len(got) < HeaderSize)
        <5>1. iov1.len = bytes_to_send /\ bytes_to_send # 0
          BY <2>1, <2>3, <4>3 DEF Partly
        <5> QED BY <1>1, <2>5, <4>1, <5>1
      <4> QED BY <4>2, <4>3
    <3>4. CASE ~m_file_address.ok
      BY <2>1, <3>2, <3>4 DEF Partly
    <3> QED BY <3>3, <3>4
  <2>6. pc' = "dead" => IF url \in {SpecUrl, JsonUrl} THEN Len(got') >= HeaderSize
                                                     ELSE Len(got') = HeaderSize
    BY <1>1, <2>3, <2>4, <2>5
  <2> QED BY <1>1, <2>2, <2>6 DEF Ended
<1>6. Answering'
  BY <1>1, <1>4, <1>5 DEF Answering
<1> QED BY <1>2, <1>6 DEF WriteInv

LEMMA WriteInvClose ==
  ASSUME WriteInv, ReadInv, Close
  PROVE  WriteInv'
<1>1. /\ pc \in {"in", "out", "deaf", "dead", "lost", "over"} /\ pc' = "closed"
      /\ UNCHANGED <<asked, m_post_cgi, got, sharedVars, spoilt>>
  BY DEF Close, readVars, writeVars
<1>2. Sharing' /\ Mapping' /\ Preparing'
  BY <1>1, SharingKept DEF WriteInv, Mapping, Preparing
<1>3. RightUrls(asked)' = RightUrls(asked)
  BY <1>1 DEF RightUrls
<1>4. ASSUME NEW url, Ended(url) PROVE Ended(url)'
  BY <1>1, <1>4, ResponseKept DEF Ended
<1>5. got # <<>> => pc \in {"in", "over", "dead", "lost", "closed"}
  BY <1>1 DEF WriteInv, Mapping
<1>6. Answering'
  BY <1>1, <1>3, <1>4, <1>5 DEF WriteInv, Answering
<1> QED BY <1>2, <1>6 DEF WriteInv

LEMMA WriteInvEnds ==
  ASSUME WriteInv, ReadInv, WriteFails \/ WriteRefused \/ Close \/ Accept
  PROVE  WriteInv'
<1>1. CASE WriteRefused
  <2>1. got' = <<>> /\ pc' = "dead" /\ UNCHANGED sharedVars
    BY <1>1 DEF WriteRefused, writeVars, WriteInv, Mapping
  <2> QED BY <2>1, WriteInvNothing
<1>2. CASE Accept
  BY <1>2, WriteInvNothing DEF Accept, InitWrite
<1> QED BY <1>1, <1>2, WriteInvFails, WriteInvClose

LEMMA WriteInvLast ==
  ASSUME WriteInv, ReadInv, NEW n \in Nat \ {0}, WriteLast(n)
  PROVE  WriteInv'
<1>1. /\ pc = "write" /\ pending' = FALSE /\ m_file_address' = NoMap
      /\ UNCHANGED <<asked, m_post_cgi, sharedVars, spoilt>>
      /\ IF m_linger THEN bytes_have_send' = 0 /\ pc' = "in" ELSE pc' = "over"
  BY DEF WriteLast, unmap, InitWrite
<1>2. Sharing'
  BY <1>1, SharingKept DEF WriteInv
<1>3. Mapping' /\ Preparing'
  BY <1>1 DEF Mapping, Preparing
<1>4. PICK url \in Urls : m_url = url
  BY <1>1, VerdictSays
<1>5. ~spoilt => Ended(url)'
  BY <1>1, <1>4, AllWritten DEF Ended
<1>6. url \in RightUrls(asked)'
  BY <1>1, <1>4, VerdictSays DEF RightUrls
<1>7. Answering'
  BY <1>1, <1>5, <1>6 DEF Answering
<1> QED BY <1>2, <1>3, <1>7 DEF WriteInv

LEMMA WriteInvSome ==
  ASSUME WriteInv, ReadInv, WriteTypes, HeaderCuts \in {0, 1},
         NEW n \in Nat \ {0}, WriteSome(n)
  PROVE  WriteInv'
<1>1. /\ pc = "write" /\ pc' = "write"
      /\ UNCHANGED <<asked, pending, m_read_ret, m_file_address, m_url, sharedVars, spoilt>>
  BY DEF WriteSome, clientVars, readVars, parseVars
<1>2. Sharing'
  BY <1>1, SharingKept DEF WriteInv
<1>3. Mapping' /\ Preparing'
  BY <1>1 DEF WriteInv, Mapping, Preparing, HalfWritten, StaleMap, sharedVars
<1>4. PICK url \in Urls : m_url = url
  BY <1>1, VerdictSays
<1>5. ~spoilt => Partly(url)'
  BY <1>4, PartlyWritten
<1>6. Answering'
  BY <1>1, <1>4, <1>5 DEF Answering
<1> QED BY <1>2, <1>3, <1>6 DEF WriteInv

\* The iovecs as process_write leaves them.
LEMMA Prepared ==
  ASSUME WriteInv, ReadInv, pc \in {"out", "json", "copy", "write"},
         NEW url \in Urls, m_url = url, NEW size \in Nat,
         PrepareIovs(Source, size), size = Len(Body(url)),
         Source = "json" => copied' = Body(url),
         got' = <<>>, cuts' = 0, bytes_have_send' = 0,
         m_write_idx' = HeaderSize, announced' = size,
         UNCHANGED <<m_read_ret, sharedVars>>
  PROVE  Partly(url)'
<1>1. Source' = Source /\ Body(url)' = Body(url) /\ Response(url)' = Response(url)
  BY ResponseKept DEF Source
<1>2. HeaderSize \in Nat
  BY SizesAssumption
<1>3. <<>> = SubSeq(Response(url), 1, 0)
  <2>1. PICK S : Response(url) \in Seq(S)
    BY ResponseShape DEF WriteInv
  <2> QED BY <2>1
<1>4. Len(got') = 0
  OBVIOUS
<1>5. /\ iov0' = [base |-> 0, len |-> HeaderSize]
      /\ iov1' = [mem |-> Source, base |-> 0, len |-> size]
      /\ bytes_to_send' = HeaderSize + size
  BY DEF PrepareIovs
<1>6. HeaderSize - 0 = HeaderSize /\ bytes_to_send' \in Nat
      /\ 0 + bytes_to_send' = HeaderSize + announced'
  BY <1>2, <1>5
<1>7. /\ iov0' = [base |-> Len(got'), len |-> HeaderSize - Len(got')]
      /\ iov1' = [mem |-> Source', base |-> 0, len |-> announced']
  BY <1>1, <1>4, <1>5, <1>6
<1>8. /\ announced' = Len(Body(url)') /\ (Source' = "json" => copied' = Body(url)')
      /\ got' = SubSeq(Response(url)', 1, Len(got'))
      /\ Len(got') + bytes_to_send' = HeaderSize + announced'
  BY <1>1, <1>3, <1>4, <1>6
<1>9. Len(got') <= HeaderSize
  BY <1>2, <1>4
<1> QED BY <1>4, <1>6, <1>7, <1>8, <1>9 DEF Partly

\* What Begin sets, and what ~spoilt says after it.
LEMMA BeginsUnspoilt ==
  ASSUME WriteInv, ReadInv, NEW length, Begin(length)
  PROVE  /\ pc = "out" /\ m_write_idx' = HeaderSize /\ announced' = length
         /\ ~spoilt' => /\ ~HalfWritten' /\ ~StaleMap'
                        /\ Json_share_buf.text = Json_share_buf.len
         /\ got' = <<>> /\ cuts' = 0 /\ bytes_have_send' = 0
         /\ UNCHANGED <<asked, pending, m_read_ret, m_file_address, m_url, sharedVars>>
         /\ Sharing'
<1>1. /\ pc = "out" /\ m_write_idx' = HeaderSize /\ announced' = length
      /\ got' = <<>> /\ cuts' = 0
      /\ spoilt' = (HalfWritten \/ StaleMap)
      /\ UNCHANGED <<asked, pending, m_read_ret, m_file_address, m_url, sharedVars>>
      /\ UNCHANGED bytes_have_send
  BY DEF Begin, clientVars, readVars, parseVars
<1>2. bytes_have_send' = 0
  BY <1>1 DEF WriteInv, Mapping
<1>3. ~spoilt' => ~HalfWritten /\ ~StaleMap
  BY <1>1
<1>4. ~spoilt' => ~HalfWritten' /\ ~StaleMap'
  BY <1>1, <1>3 DEF HalfWritten, StaleMap, sharedVars
<1>5. ~spoilt' => Json_share_buf.text = Json_share_buf.len
  BY <1>3 DEF HalfWritten, WriteInv, Sharing
<1>6. Sharing'
  BY <1>1, SharingKept DEF WriteInv
<1> QED BY <1>1, <1>2, <1>4, <1>5, <1>6

LEMMA WriteInvBegin ==
  ASSUME WriteInv, ReadInv, WriteFile \/ WriteSpec
  PROVE  WriteInv'
<1>1. PICK length : /\ Begin(length) /\ PrepareIovs(Source, length) /\ pc' = "write"
                    /\ \/ m_read_ret = "FILE_REQUEST" /\ length = Files[m_url].size
                       \/ m_read_ret = "FILE_SPEC" /\ length = SpecLength
  BY DEF WriteFile, WriteSpec, Source
<1>2. /\ pc = "out" /\ m_write_idx' = HeaderSize /\ announced' = length
      /\ ~spoilt' => ~HalfWritten' /\ ~StaleMap'
      /\ got' = <<>> /\ cuts' = 0 /\ bytes_have_send' = 0
      /\ UNCHANGED <<asked, pending, m_read_ret, m_file_address, m_url, sharedVars>>
      /\ Sharing'
  BY <1>1, BeginsUnspoilt
<1>3. PICK url \in Urls : m_url = url
  BY <1>2, VerdictSays
<1>4. length = Len(Body(url)) /\ length \in Nat /\ Source # "json"
  BY <1>1, <1>2, <1>3, ResponseShape DEF WriteInv, Source
<1>5. Partly(url)'
  BY <1>1, <1>2, <1>3, <1>4, Prepared
<1>6. Mapping' /\ Preparing'
  BY <1>1, <1>2 DEF Mapping, Preparing, WriteInv
<1>7. Answering'
  BY <1>1, <1>2, <1>3, <1>5 DEF Answering
<1> QED BY <1>2, <1>6, <1>7 DEF WriteInv

LEMMA WriteInvJson ==
  ASSUME WriteInv, ReadInv, WriteJson
  PROVE  WriteInv'
<1>1. m_read_ret = "FILE_JSON" /\ pc' = "json" /\ Begin(JsonLength[Json_share_buf.len])
  BY DEF WriteJson
<1>2. /\ m_write_idx' = HeaderSize /\ announced' = JsonLength[Json_share_buf.len]
      /\ ~spoilt' => ~HalfWritten' /\ ~StaleMap'
      /\ got' = <<>> /\ cuts' = 0 /\ bytes_have_send' = 0
      /\ UNCHANGED <<m_read_ret, sharedVars>>
      /\ Sharing'
  BY <1>1, BeginsUnspoilt
<1>3. announced' = JsonLength[Json_share_buf'.len]
  BY <1>2 DEF sharedVars
<1> QED BY <1>1, <1>2, <1>3 DEF WriteInv, Mapping, Preparing, Answering

\* In the two steps after WriteJson nothing changes but what they prepare.
LEMMA JsonSteps ==
  ASSUME WriteInv, ReadInv, CopyJson \/ SendJson
  PROVE  /\ pc \in {"json", "copy"} /\ pc' \in {"copy", "write"}
         /\ m_read_ret = "FILE_JSON" /\ got = <<>> /\ got' = <<>> /\ cuts = 0
         /\ cuts' = 0 /\ m_write_idx = HeaderSize /\ m_write_idx' = HeaderSize
         /\ bytes_have_send = 0 /\ bytes_have_send' = 0
         /\ ~spoilt => announced = JsonLength[Json_share_buf.len]
         /\ ~spoilt => Json_share_buf.text = Json_share_buf.len
         /\ UNCHANGED <<asked, pending, m_read_ret, m_file_address, m_url, announced>>
         /\ UNCHANGED <<sharedVars, spoilt>>
         /\ Sharing'
         /\ ~spoilt => ~HalfWritten' /\ ~StaleMap'
<1>1. /\ pc \in {"json", "copy"} /\ pc' \in {"copy", "write"}
      /\ UNCHANGED <<asked, pending, m_read_ret, m_file_address, m_url, announced>>
      /\ UNCHANGED <<sharedVars, spoilt, got, cuts, m_write_idx, bytes_have_send>>
  BY DEF CopyJson, SendJson, clientVars, readVars, parseVars
<1>2. /\ m_read_ret = "FILE_JSON" /\ got = <<>> /\ cuts = 0 /\ m_write_idx = HeaderSize
      /\ bytes_have_send = 0
      /\ ~spoilt => announced = JsonLength[Json_share_buf.len]
      /\ ~spoilt => ~HalfWritten /\ ~StaleMap
  BY <1>1 DEF WriteInv, Preparing, Mapping
<1>3. ~spoilt => Json_share_buf.text = Json_share_buf.len
  BY <1>2 DEF HalfWritten, WriteInv, Sharing
<1>4. ~spoilt => ~HalfWritten' /\ ~StaleMap'
  BY <1>1, <1>2 DEF HalfWritten, StaleMap, sharedVars
<1>5. Sharing'
  BY <1>1, SharingKept DEF WriteInv
<1> QED BY <1>1, <1>2, <1>3, <1>4, <1>5

LEMMA WriteInvCopy ==
  ASSUME WriteInv, ReadInv, CopyJson
  PROVE  WriteInv'
<1>1. /\ pc' = "copy"
      /\ copied' = [i \in 1..JsonLength[Json_share_buf.len] |->
                      <<"j", i, Json_share_buf.text>>]
  BY DEF CopyJson
<1>2. /\ m_read_ret' = "FILE_JSON" /\ got' = <<>> /\ cuts' = 0 /\ m_write_idx' = HeaderSize
      /\ bytes_have_send' = 0 /\ Sharing'
      /\ ~spoilt' => announced' = JsonLength[Json_share_buf.len]
      /\ ~spoilt' => ~HalfWritten' /\ ~StaleMap'
      /\ UNCHANGED sharedVars
  BY JsonSteps
<1>3. Json_share_buf' = Json_share_buf
  BY <1>2 DEF sharedVars
<1>4. Preparing'
  BY <1>1, <1>2, <1>3 DEF Preparing
<1> QED BY <1>1, <1>2, <1>4 DEF WriteInv, Mapping, Answering

LEMMA WriteInvSend ==
  ASSUME WriteInv, ReadInv, SendJson
  PROVE  WriteInv'
<1> DEFINE size == JsonLength[Json_share_buf.len]
<1>1. pc = "copy" /\ pc' = "write" /\ PrepareIovs("json", size) /\ UNCHANGED copied
  BY DEF SendJson
<1>2. /\ m_read_ret = "FILE_JSON" /\ m_read_ret' = "FILE_JSON" /\ got' = <<>> /\ cuts' = 0
      /\ m_write_idx' = HeaderSize /\ bytes_have_send' = 0 /\ Sharing'
      /\ ~spoilt => announced' = size /\ announced = size
      /\ ~spoilt => Json_share_buf.text = Json_share_buf.len
      /\ ~spoilt => ~HalfWritten' /\ ~StaleMap'
      /\ UNCHANGED <<sharedVars, spoilt, m_url, m_read_ret>>
  BY JsonSteps
<1>3. Source = "json"
  BY <1>2 DEF Source
<1>4. PICK url \in Urls : m_url = url
  BY <1>1, VerdictSays
<1>5. ASSUME ~spoilt PROVE Partly(url)'
  <2>1. /\ Len(Body(url)) = JsonLength[Json_share_buf.text] /\ Len(Body(url)) \in Nat
        /\ Body(url) = [i \in 1..Len(Body(url)) |-> <<"j", i, Json_share_buf.text>>]
    BY <1>1, <1>2, <1>4, ResponseShape DEF WriteInv
  <2>2. size = Len(Body(url)) /\ size \in Nat
    BY <1>2, <1>5, <2>1
  <2>3. copied = [i \in 1..announced |-> <<"j", i, Json_share_buf.text>>]
    BY <1>1, <1>5 DEF WriteInv, Preparing
  <2>4. announced = Len(Body(url))
    BY <1>2, <1>5, <2>2
  <2>5. copied = Body(url)
    BY <2>1, <2>3, <2>4
  <2>6. copied' = Body(url)
    BY <1>1, <2>5
  <2> HIDE DEF size
  <2>7. PrepareIovs(Source, size) /\ announced' = size
    BY <1>1, <1>2, <1>3, <1>5
  <2> QED BY <1>1, <1>2, <1>4, <2>2, <2>6, <2>7, Prepared
<1>6. Mapping' /\ Preparing'
  BY <1>1, <1>2 DEF Mapping, Preparing
<1>7. Answering'
  BY <1>1, <1>2, <1>4, <1>5 DEF Answering
<1> QED BY <1>2, <1>6, <1>7 DEF WriteInv

\* Every step keeps it, if writev ends at most once inside the header.
LEMMA WriteInvStep ==
  ASSUME WriteInv, ReadInv, WriteTypes, HeaderCuts \in {0, 1}, [Next]_vars
  PROVE  WriteInv'
<1>1. 1..(iov0.len + Readable) \subseteq Nat \ {0}
  OBVIOUS
<1>2. CASE UNCHANGED vars
  BY <1>2, WriteInvKept DEF vars, clientVars, readVars, parseVars
<1>3. CASE Writing
  BY <1>1, <1>3, WriteInvBegin, WriteInvJson, WriteInvCopy, WriteInvSend, WriteInvSome,
     WriteInvLast, WriteInvEnds DEF Writing
<1> QED
  BY <1>2, <1>3, WriteInvClient, WriteInvReading, WriteInvEnds, WriteInvFrames DEF Next

\* ResponseInOrder: for requests that announce the length of their body, the
\* client gets the header and the body of what it asked for, each cell once and
\* in order, whatever sizes writev accepts; all of it when write() has sent
\* everything, and how much of it when writev fails (http_conn.cpp 645-705,
\* 712-785).  The hypothesis on HeaderCuts is needed: after two writev calls that
\* end inside the header the iovecs are wrong.
THEOREM ResponsesInOrder ==
  ASSUME \A r \in Requests : WellAnnounced(r), HeaderCuts \in {0, 1}
  PROVE  Spec => []ResponseInOrder
<1>1. Init => WriteInv
  <2> SUFFICES ASSUME Init PROVE WriteInv
    OBVIOUS
  <2>1. /\ pc = "in" /\ got = <<>> /\ bytes_have_send = 0 /\ rpc = "spec"
        /\ Json_share_buf = [text |-> 1, len |-> 1]
    BY DEF Init
  <2>2. 1 \in Frames
    BY SizesAssumption, EmptySeq DEF Frames
  <2>3. Sharing
    BY <2>1, <2>2 DEF Sharing
  <2> QED BY <2>1, <2>3 DEF WriteInv, Mapping, Preparing, Answering
<1>2. ReadInv /\ WriteInv => ResponseInOrder
  <2> SUFFICES ASSUME ReadInv, WriteInv, got # <<>> PROVE ResponseInOrder
    BY DEF ResponseInOrder
  <2>1. pc \in {"in", "dead", "lost", "write", "over", "closed"}
    BY DEF ReadInv, ReadTypes, WriteInv, Mapping, Preparing
  <2>2. pc \in {"in", "over", "dead", "lost"} => m_file_address = NoMap
    BY DEF WriteInv, Mapping
  <2>3. CASE spoilt
    BY <2>2, <2>3 DEF ResponseInOrder
  <2>4. CASE ~spoilt /\ pc = "write"
    <3>1. m_url \in RightUrls(asked) /\ m_url \in Urls
      BY <2>4, VerdictSays
    <3>2. got = SubSeq(Response(m_url), 1, Len(got))
      BY <2>4, <3>1 DEF WriteInv, Answering, Partly
    <3> QED BY <2>2, <2>4, <3>1, <3>2 DEF ResponseInOrder
  <2>5. CASE ~spoilt /\ pc # "write"
    <3>1. PICK url \in RightUrls(asked) : Ended(url)
      BY <2>1, <2>5 DEF WriteInv, Answering
    <3> QED BY <2>2, <3>1 DEF ResponseInOrder, Ended
  <2> QED BY <2>3, <2>4, <2>5
<1>3. Announced
  BY DEF Announced
<1> QED
  BY <1>1, <1>2, <1>3, WriteInvStep, ReadInvInvariant, WriteTypesInvariant, PTL DEF Spec
=============================================================================
