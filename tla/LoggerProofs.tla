---------------------------- MODULE LoggerProofs ----------------------------
(***************************************************************************)
(* What Logger guarantees for any number of threads, loggers, appenders,   *)
(* lines and rotations: lines stay whole, and a renamed file is let go;    *)
(* and what the parser makes of every pattern.                             *)
(***************************************************************************)
EXTENDS Logger, SequenceTheorems, WellFoundedInduction, TLAPS

(* Numbers and folds: induction, from the least element of a set.          *)

\* A set of numbers has a smallest one.
LEMMA Smallest ==
  ASSUME NEW C \in SUBSET Nat, C # {}
  PROVE  \E n \in C : \A m \in C : n <= m
<1> DEFINE R == OpToRel(<, Nat)
<1>1. IsWellFoundedOn(R, Nat)
  BY NatLessThanWellFounded
<1>2. R = {ss \in Nat \X Nat : ss[1] < ss[2]}
  BY DEF OpToRel
<1> HIDE DEF R
<1>3. PICK n \in C : \A m \in C : ~(<<m, n>> \in R)
  BY <1>1, WFMin
<1>4. ASSUME NEW m \in C
      PROVE  n <= m
  <2>1. <<m, n>> \notin R
    BY <1>3
  <2>2. <<m, n>> \in Nat \X Nat /\ <<m, n>>[1] = m /\ <<m, n>>[2] = n
    OBVIOUS
  <2>3. ~(m < n)
    BY <1>2, <2>1, <2>2
  <2>4. QED
    BY <2>3
<1>5. QED
  BY <1>4

\* Induction over the naturals, for a set instead of a predicate.
LEMMA Induction ==
  ASSUME NEW S, 0 \in S, \A n \in Nat : n \in S => n + 1 \in S
  PROVE  Nat \subseteq S
<1> SUFFICES ASSUME Nat \ S # {} PROVE FALSE
  OBVIOUS
<1>1. PICK n \in Nat \ S : \A m \in Nat \ S : n <= m
  BY Smallest
<1>2. n - 1 \in Nat /\ n - 1 \in S /\ (n - 1) + 1 = n
  BY <1>1
<1>3. QED
  BY <1>1, <1>2

\* The minimum of a set of numbers is the least of them ...
LEMMA MinLeast ==
  ASSUME NEW C \in SUBSET Nat, C # {}
  PROVE  Min(C) \in C /\ \A m \in C : Min(C) <= m
BY Smallest DEF Min

\* ... and the only one that is.
LEMMA MinIs ==
  ASSUME NEW C \in SUBSET Nat, NEW n \in C, \A m \in C : n <= m
  PROVE  Min(C) = n
<1>1. Min(C) \in C /\ Min(C) <= n
  BY MinLeast
<1>2. n <= Min(C)
  BY <1>1
<1>3. n \in Nat /\ Min(C) \in Nat
  BY <1>1
<1>4. QED
  BY <1>1, <1>2, <1>3

\* The loop of the parser is the function its equation describes ...
LEMMA RoundsDefined ==
  ASSUME NEW p, Len(p) \in Nat
  PROVE  Rounds(p) = [k \in 0..Len(p) |->
                        IF k = 0 THEN Start ELSE Advanced(p, Rounds(p)[k - 1])]
<1> DEFINE Loop(g, n) == g = [k \in 0..n |-> IF k = 0 THEN Start ELSE Advanced(p, g[k - 1])]
           S == {n \in Nat : \E g : Loop(g, n)}
<1>1. 0 \in S
  <2>1. Loop([k \in 0..0 |-> Start], 0)
    OBVIOUS
  <2>2. QED
    BY <2>1
<1>2. ASSUME NEW n \in Nat, n \in S
      PROVE  n + 1 \in S
  <2>1. PICK g : Loop(g, n)
    BY <1>2
  <2> DEFINE h == [k \in 0..(n + 1) |-> IF k = n + 1 THEN Advanced(p, g[n]) ELSE g[k]]
  <2>2. \A k \in 0..(n + 1) : h[k] = IF k = 0 THEN Start ELSE Advanced(p, h[k - 1])
    BY <2>1
  <2>3. Loop(h, n + 1)
    BY <2>2
  <2> HIDE DEF Loop, h
  <2>4. QED
    BY <2>3
<1>3. Nat \subseteq S
  <2> HIDE DEF S
  <2>1. QED
    BY <1>1, <1>2, Induction
<1>4. \E g : Loop(g, Len(p))
  BY <1>3
<1>5. QED
  BY <1>4, Zenon DEF Rounds

\* ... so that one round leads from one of its states to the next.
LEMMA RoundsStep ==
  ASSUME NEW p, Len(p) \in Nat
  PROVE  /\ Rounds(p)[0] = Start
         /\ \A k \in 0..(Len(p) - 1) : Rounds(p)[k + 1] = Advanced(p, Rounds(p)[k])
<1> DEFINE f == Rounds(p)
<1>1. f = [k \in 0..Len(p) |-> IF k = 0 THEN Start ELSE Advanced(p, f[k - 1])]
  BY RoundsDefined
<1> HIDE DEF f
<1>2. f[0] = Start
  BY <1>1
<1>3. ASSUME NEW k \in 0..(Len(p) - 1)
      PROVE  f[k + 1] = Advanced(p, f[k])
  <2>1. k + 1 \in 0..Len(p) /\ k + 1 # 0 /\ (k + 1) - 1 = k
    OBVIOUS
  <2>2. QED
    BY <1>1, <2>1
<1>4. QED
  BY <1>2, <1>3 DEF f

\* The function by which FlattenSeq joins sequences, which is local to it.
Joined(seqs) ==
  LET flatten[i \in 1..Len(seqs)] ==
        IF i = 1 THEN seqs[i] ELSE flatten[i - 1] \o seqs[i]
  IN flatten

\* The same for the function that joins sequences.
LEMMA JoinedDefined ==
  ASSUME NEW seqs, Len(seqs) \in Nat
  PROVE  Joined(seqs) = [i \in 1..Len(seqs) |->
                           IF i = 1 THEN seqs[i] ELSE Joined(seqs)[i - 1] \o seqs[i]]
<1> DEFINE Loop(g, n) == g = [i \in 1..n |-> IF i = 1 THEN seqs[i] ELSE g[i - 1] \o seqs[i]]
           S == {n \in Nat : \E g : Loop(g, n)}
<1>1. 0 \in S
  <2>1. Loop([i \in 1..0 |-> seqs[i]], 0)
    OBVIOUS
  <2>2. QED
    BY <2>1
<1>2. ASSUME NEW n \in Nat, n \in S
      PROVE  n + 1 \in S
  <2>1. PICK g : Loop(g, n)
    BY <1>2
  <2> DEFINE h == [i \in 1..(n + 1) |->
                     IF i # n + 1 THEN g[i]
                     ELSE IF i = 1 THEN seqs[i] ELSE g[n] \o seqs[i]]
  <2>2. ASSUME NEW i \in 1..(n + 1)
        PROVE  h[i] = IF i = 1 THEN seqs[i] ELSE h[i - 1] \o seqs[i]
    <3>1. CASE i = n + 1 /\ i # 1
      <4>1. i - 1 = n /\ n \in 1..(n + 1) /\ n # n + 1
        BY <3>1
      <4>2. QED
        BY <3>1, <4>1
    <3>2. CASE i = 1
      BY <2>1, <3>2
    <3>3. CASE i # n + 1 /\ i # 1
      <4>1. i - 1 \in 1..n /\ i \in 1..n /\ i - 1 # n + 1 /\ i - 1 \in 1..(n + 1)
        BY <3>3
      <4>2. h[i] = g[i] /\ h[i - 1] = g[i - 1]
        BY <3>3, <4>1
      <4>3. g[i] = g[i - 1] \o seqs[i]
        BY <2>1, <3>3, <4>1
      <4>4. QED
        BY <3>3, <4>2, <4>3
    <3>4. QED
      BY <3>1, <3>2, <3>3
  <2>3. Loop(h, n + 1)
    BY <2>2
  <2> HIDE DEF Loop, h
  <2>4. QED
    BY <2>3
<1>3. Nat \subseteq S
  <2> HIDE DEF S
  <2>1. QED
    BY <1>1, <1>2, Induction
<1>4. \E g : Loop(g, Len(seqs))
  BY <1>3
<1>5. QED
  BY <1>4, Zenon DEF Joined

\* It is what FlattenSeq computes.
LEMMA FlattenJoined ==
  ASSUME NEW seqs, Len(seqs) \in Nat \ {0}
  PROVE  FlattenSeq(seqs) = Joined(seqs)[Len(seqs)]
<1>1. Len(seqs) # 0
  OBVIOUS
<1>2. QED
  BY <1>1, Zenon DEF FlattenSeq, Joined

\* Each sequence is appended to what the ones before it make.
LEMMA Flattened ==
  ASSUME NEW T, NEW seqs \in Seq(Seq(T)), seqs # <<>>
  PROVE  LET f == Joined(seqs)
         IN /\ \A k \in 1..Len(seqs) : f[k] \in Seq(T)
            /\ f[1] = seqs[1]
            /\ \A k \in 1..(Len(seqs) - 1) : f[k + 1] = f[k] \o seqs[k + 1]
<1> DEFINE f == Joined(seqs)
           N == Len(seqs)
           S == {n \in Nat : n + 1 \in 1..N => f[n + 1] \in Seq(T)}
<1>1. N \in Nat \ {0}
  BY EmptySeq
<1>2. f = [i \in 1..N |-> IF i = 1 THEN seqs[i] ELSE f[i - 1] \o seqs[i]]
  BY <1>1, JoinedDefined
<1>3. \A k \in 1..N : seqs[k] \in Seq(T)
  BY ElementOfSeq
<1> HIDE DEF f, N
<1>4. f[1] = seqs[1]
  BY <1>1, <1>2
<1>5. ASSUME NEW k \in 1..(N - 1)
      PROVE  f[k + 1] = f[k] \o seqs[k + 1]
  <2>1. k + 1 \in 1..N /\ k + 1 # 1 /\ (k + 1) - 1 = k
    BY <1>1
  <2>2. QED
    BY <1>2, <2>1
<1>6. 0 \in S
  BY <1>1, <1>3, <1>4
<1>7. ASSUME NEW n \in Nat, n \in S
      PROVE  n + 1 \in S
  <2>1. SUFFICES ASSUME n + 2 \in 1..N
                 PROVE  f[n + 2] \in Seq(T)
    OBVIOUS
  <2>2. n + 1 \in 1..(N - 1) /\ n + 1 \in 1..N /\ (n + 1) + 1 = n + 2
    BY <1>1, <2>1
  <2>3. f[n + 1] \in Seq(T) /\ seqs[n + 2] \in Seq(T)
    BY <1>3, <1>7, <2>1, <2>2
  <2>4. f[n + 2] = f[n + 1] \o seqs[n + 2]
    BY <1>5, <2>2
  <2>5. QED
    BY <2>3, <2>4, ConcatProperties
<1>8. Nat \subseteq S
  <2> HIDE DEF S
  <2>1. QED
    BY <1>6, <1>7, Induction
<1>9. ASSUME NEW k \in 1..N
      PROVE  f[k] \in Seq(T)
  <2>1. k - 1 \in Nat /\ (k - 1) + 1 = k
    BY <1>1
  <2>2. k - 1 \in S
    BY <1>8, <2>1
  <2>3. QED
    BY <2>1, <2>2
<1>10. QED
  BY <1>4, <1>5, <1>9 DEF f, N

\* What a piece is, and what it is written as.
LEMMA WrittenType ==
  ASSUME NEW x \in Piece
  PROVE  /\ Written(x) \in Seq(Chars)
         /\ x.str \in Seq(Chars) /\ x.fmt \in Seq(Chars) /\ x.type \in {0, 1}
         /\ Len(x.str) \in Nat \ {0}
         /\ x = Item(x.str, x.fmt, x.type)
<1>1. x.str \in Seq(Chars) /\ x.fmt \in Seq(Chars) /\ x.type \in {0, 1} /\ x.str # <<>>
  BY DEF Piece
<1>2. x = Item(x.str, x.fmt, x.type)
  BY DEF Piece, Item
<1>3. Len(x.str) \in Nat \ {0}
  BY <1>1, EmptySeq
<1>4. <<"%">> \in Seq(Chars) /\ <<LeftBrace>> \in Seq(Chars) /\ <<RightBrace>> \in Seq(Chars)
  <2>1. \A c \in Chars : <<c>> \in Seq(Chars)
    OBVIOUS
  <2>2. "%" \in Chars /\ LeftBrace \in Chars /\ RightBrace \in Chars
    BY LogPatternAssumption
  <2>3. QED
    BY <2>1, <2>2, Zenon
<1>5. Written(x) \in Seq(Chars)
  BY <1>1, <1>4, ConcatProperties DEF Written
<1>6. QED
  BY <1>1, <1>2, <1>3, <1>5

\* Where the pieces of a pattern begin.
LEMMA PatternLaidOut ==
  ASSUME NEW pieces \in Seq(Piece)
  PROVE  LET p == Pattern(pieces)
         IN /\ p \in Seq(Chars)
            /\ \E off \in [0..Len(pieces) -> Nat] :
                 /\ off[0] = 0 /\ off[Len(pieces)] = Len(p)
                 /\ \A k \in 1..Len(pieces) :
                      /\ off[k] = off[k - 1] + Len(Written(pieces[k]))
                      /\ off[k] <= Len(p)
                      /\ \A j \in 1..Len(Written(pieces[k])) :
                           p[off[k - 1] + j] = Written(pieces[k])[j]
<1> DEFINE N == Len(pieces)
           seqs == [k \in 1..N |-> Written(pieces[k])]
           p == Pattern(pieces)
           f == Joined(seqs)
<1>1. N \in Nat /\ \A k \in 1..N : pieces[k] \in Piece
  BY LenProperties, ElementOfSeq
<1>2. \A k \in 1..N : Written(pieces[k]) \in Seq(Chars)
  BY <1>1, WrittenType
<1>3. seqs \in Seq(Seq(Chars)) /\ Len(seqs) = N /\ \A k \in 1..N : seqs[k] = Written(pieces[k])
  BY <1>1, <1>2
<1>4. p = FlattenSeq(seqs)
  BY DEF Pattern
<1> HIDE DEF N, seqs, p, f
<1>5. CASE N = 0
  <2>1. seqs = <<>>
    BY <1>3, <1>5
  <2>2. p = <<>>
    BY <1>3, <1>4, <1>5, <2>1 DEF FlattenSeq
  <2>3. p \in Seq(Chars) /\ Len(p) = 0
    BY <2>2
  <2> DEFINE off == [k \in 0..0 |-> 0]
  <2>4. off \in [0..N -> Nat] /\ off[0] = 0 /\ off[N] = Len(p)
    BY <1>5, <2>3
  <2> HIDE DEF off
  <2>5. QED
    BY <1>5, <2>3, <2>4 DEF p, N
<1>6. CASE N # 0
  <2>1. seqs # <<>> /\ Len(seqs) \in Nat \ {0}
    BY <1>1, <1>3, <1>6
  <2>2. p = f[N]
    BY <1>3, <1>4, <2>1, FlattenJoined DEF f
  <2>3. /\ \A k \in 1..N : f[k] \in Seq(Chars)
        /\ f[1] = seqs[1]
        /\ \A k \in 1..(N - 1) : f[k + 1] = f[k] \o seqs[k + 1]
    BY <1>3, <2>1, Flattened DEF f
  <2>4. \A k \in 1..N : Len(f[k]) \in Nat /\ seqs[k] \in Seq(Chars) /\ Len(seqs[k]) \in Nat
    BY <1>2, <1>3, <2>3, LenProperties
  <2> DEFINE off == [k \in 0..N |-> IF k = 0 THEN 0 ELSE Len(f[k])]
  <2>5. off \in [0..N -> Nat]
    BY <2>4
  <2>6. off[0] = 0 /\ off[N] = Len(p) /\ \A k \in 1..N : off[k] = Len(f[k])
    BY <1>1, <1>6, <2>2
  <2> HIDE DEF off
  \* A prefix stays where it is.
  <2> DEFINE S == {d \in Nat : \A k \in 1..N : k + d <= N =>
                     /\ Len(f[k]) <= Len(f[k + d])
                     /\ \A j \in 1..Len(f[k]) : f[k + d][j] = f[k][j]}
  <2>7. 0 \in S
    BY <1>1, <2>4
  <2>8. ASSUME NEW d \in Nat, d \in S
        PROVE  d + 1 \in S
    <3> SUFFICES ASSUME NEW k \in 1..N, k + (d + 1) <= N
                 PROVE  /\ Len(f[k]) <= Len(f[k + (d + 1)])
                        /\ \A j \in 1..Len(f[k]) : f[k + (d + 1)][j] = f[k][j]
      OBVIOUS
    <3>1. k + d \in 1..(N - 1) /\ k + d \in 1..N /\ (k + d) + 1 = k + (d + 1) /\ k + (d + 1) \in 1..N
      BY <1>1
    <3> DEFINE g == f[k + d]
               w == seqs[k + (d + 1)]
    <3>2. f[k + (d + 1)] = g \o w /\ g \in Seq(Chars) /\ w \in Seq(Chars)
      BY <2>3, <2>4, <3>1
    <3>3. Len(f[k]) <= Len(g) /\ \A j \in 1..Len(f[k]) : g[j] = f[k][j]
      BY <2>8, <3>1
    <3>4. Len(f[k]) \in Nat /\ Len(g) \in Nat /\ Len(w) \in Nat
      BY <2>4, <3>1
    <3> HIDE DEF g, w
    <3>5. /\ Len(g \o w) = Len(g) + Len(w)
          /\ \A i \in 1..(Len(g) + Len(w)) : (g \o w)[i] = IF i <= Len(g) THEN g[i] ELSE w[i - Len(g)]
      BY <3>2, ConcatProperties
    <3>6. QED
      BY <3>2, <3>3, <3>4, <3>5
  <2>9. Nat \subseteq S
    <3> HIDE DEF S
    <3>1. QED
      BY <2>7, <2>8, Induction
  <2>10. ASSUME NEW k \in 1..N
         PROVE  Len(f[k]) <= Len(p) /\ \A j \in 1..Len(f[k]) : p[j] = f[k][j]
    <3>1. N - k \in Nat /\ k + (N - k) <= N /\ k + (N - k) = N
      BY <1>1
    <3>2. N - k \in S
      BY <2>9, <3>1
    <3>3. QED
      BY <2>2, <3>1, <3>2
  <2> HIDE DEF S
  <2>11. ASSUME NEW k \in 1..N
         PROVE  /\ off[k] = off[k - 1] + Len(seqs[k])
                /\ \A j \in 1..Len(seqs[k]) : f[k][off[k - 1] + j] = seqs[k][j]
    <3>1. CASE k = 1
      <4>1. k - 1 = 0
        BY <3>1
      <4>2. off[k - 1] = 0 /\ f[k] = seqs[k] /\ off[k] = Len(f[k])
        BY <2>3, <2>6, <3>1, <4>1
      <4>3. QED
        BY <2>4, <4>2
    <3>2. CASE k # 1
      <4>1. k - 1 \in 1..(N - 1) /\ k - 1 \in 1..N /\ (k - 1) + 1 = k
        BY <1>1, <3>2
      <4> DEFINE g == f[k - 1]
                 w == seqs[k]
      <4>2. f[k] = g \o w /\ g \in Seq(Chars) /\ w \in Seq(Chars)
        BY <2>3, <2>4, <4>1
      <4>3. off[k - 1] = Len(g) /\ off[k] = Len(g \o w)
        BY <2>6, <4>1, <4>2
      <4>4. Len(g) \in Nat /\ Len(w) \in Nat
        BY <2>4, <4>1
      <4> HIDE DEF g, w
      <4>5. /\ Len(g \o w) = Len(g) + Len(w)
            /\ \A i \in 1..(Len(g) + Len(w)) : (g \o w)[i] = IF i <= Len(g) THEN g[i] ELSE w[i - Len(g)]
        BY <4>2, ConcatProperties
      <4>6. ASSUME NEW j \in 1..Len(w)
            PROVE  (g \o w)[Len(g) + j] = w[j]
        <5>1. Len(g) + j \in 1..(Len(g) + Len(w)) /\ ~(Len(g) + j <= Len(g))
              /\ (Len(g) + j) - Len(g) = j
          BY <4>4
        <5>2. QED
          BY <4>5, <5>1
      <4>7. off[k] = off[k - 1] + Len(w) /\ \A j \in 1..Len(w) : f[k][off[k - 1] + j] = w[j]
        BY <4>2, <4>3, <4>5, <4>6
      <4>8. QED
        BY <4>7 DEF w
    <3>3. QED
      BY <3>1, <3>2
  <2>12. ASSUME NEW k \in 1..N
         PROVE  /\ off[k] <= Len(p)
                /\ \A j \in 1..Len(seqs[k]) : p[off[k - 1] + j] = seqs[k][j]
    <3>1. off[k - 1] \in Nat /\ off[k] \in Nat /\ off[k] = Len(f[k]) /\ Len(seqs[k]) \in Nat
      <4>1. k - 1 \in 0..N /\ k \in 0..N
        BY <1>1
      <4>2. QED
        BY <2>4, <2>5, <2>6, <4>1
    <3>2. ASSUME NEW j \in 1..Len(seqs[k])
          PROVE  off[k - 1] + j \in 1..Len(f[k])
      BY <2>11, <3>1
    <3>3. QED
      BY <2>10, <2>11, <3>1, <3>2
  <2>13. p \in Seq(Chars)
    BY <1>1, <1>6, <2>2, <2>3
  <2>14. \A k \in 1..N : /\ off[k] = off[k - 1] + Len(Written(pieces[k]))
                         /\ off[k] <= Len(p)
                         /\ \A j \in 1..Len(Written(pieces[k])) :
                              p[off[k - 1] + j] = Written(pieces[k])[j]
    BY <1>3, <2>11, <2>12
  <2>15. QED
    BY <2>5, <2>6, <2>13, <2>14 DEF p, N
<1>7. QED
  BY <1>5, <1>6

\* The loop comes to state s while rounds are left for what follows.
Reached(p, s) == \E m \in 0..Len(p) : m < s.i /\ Rounds(p)[m] = s

\* A round that goes on leads from a state the loop reaches to another.
LEMMA OneRound ==
  ASSUME NEW p, Len(p) \in Nat, NEW s, s.i \in 1..Len(p), Reached(p, s),
         NEW next, next = Round(p, s), next.i \in Nat, next.i > s.i
  PROVE  Reached(p, next)
<1>1. PICK m \in 0..Len(p) : m < s.i /\ Rounds(p)[m] = s
  BY DEF Reached
<1>2. m \in 0..(Len(p) - 1) /\ m + 1 \in 0..Len(p) /\ m + 1 < next.i
  BY <1>1
<1>3. Rounds(p)[m + 1] = Advanced(p, s)
  BY <1>1, <1>2, RoundsStep
<1>4. Advanced(p, s) = next
  BY DEF Advanced
<1>5. QED
  BY <1>2, <1>3, <1>4 DEF Reached

\* A state at the end of the pattern is the last one.
LEMMA AtTheEnd ==
  ASSUME NEW p, Len(p) \in Nat, NEW s, s.i = Len(p) + 1, Reached(p, s)
  PROVE  Rounds(p)[Len(p)] = s
<1>1. PICK m \in 0..Len(p) : Rounds(p)[m] = s
  BY DEF Reached
<1>2. Advanced(p, s) = s
  BY DEF Advanced
<1> DEFINE S == {d \in Nat : m + d \in 0..Len(p) => Rounds(p)[m + d] = s}
<1>3. 0 \in S
  BY <1>1
<1>4. ASSUME NEW d \in Nat, d \in S
      PROVE  d + 1 \in S
  <2> SUFFICES ASSUME m + (d + 1) \in 0..Len(p)
               PROVE  Rounds(p)[m + (d + 1)] = s
    OBVIOUS
  <2>1. m + d \in 0..(Len(p) - 1) /\ m + d \in 0..Len(p) /\ (m + d) + 1 = m + (d + 1)
    OBVIOUS
  <2>2. Rounds(p)[m + d] = s
    BY <1>4, <2>1
  <2>3. Rounds(p)[(m + d) + 1] = Advanced(p, Rounds(p)[m + d])
    BY <2>1, RoundsStep
  <2>4. QED
    BY <1>2, <2>1, <2>2, <2>3
<1>5. Nat \subseteq S
  <2> HIDE DEF S
  <2>1. QED
    BY <1>3, <1>4, Induction
<1>6. Len(p) - m \in S /\ m + (Len(p) - m) = Len(p)
  BY <1>5
<1>7. QED
  BY <1>6

\* The state of the loop between two pieces.
Clean(a, nstr, vec) == State(a + 1, nstr, vec, FALSE)

\* A character that is no percent sign is added to the text.
LEMMA TextOf ==
  ASSUME NEW a \in Nat, NEW j \in Nat, NEW nstr, NEW vec, NEW c
  PROVE  Text(Clean(a + j, nstr, vec), c) = Clean(a + (j + 1), Append(nstr, c), vec)
<1>1. (a + j) + 1 + 1 = a + (j + 1) + 1
  OBVIOUS
<1>2. QED
  BY <1>1 DEF Text, Clean, State

\* The characters of str stand in w after the first i.
Stands(w, i, str) == \A j \in 1..Len(str) : w[i + j] = str[j]

\* A text is read character by character.
LEMMA TextRounds ==
  ASSUME NEW p \in Seq(Chars), NEW a \in Nat, NEW vec, NEW str \in Seq(Chars),
         a + Len(str) <= Len(p), Stands(p, a, str),
         "%" \notin Range(str), Reached(p, Clean(a, <<>>, vec))
  PROVE  Reached(p, Clean(a + Len(str), str, vec))
<1>1. Len(p) \in Nat /\ Len(str) \in Nat /\ DOMAIN str = 1..Len(str)
  BY LenProperties
<1> DEFINE At(j) == Clean(a + j, SubSeq(str, 1, j), vec)
           S == {j \in Nat : j <= Len(str) => Reached(p, At(j))}
<1>2. 0 \in S
  <2>1. SubSeq(str, 1, 0) = <<>> /\ a + 0 = a
    BY SubSeqEmpty
  <2>2. QED
    BY <2>1
<1>3. ASSUME NEW j \in Nat, j \in S
      PROVE  j + 1 \in S
  <2> SUFFICES ASSUME j + 1 <= Len(str)
               PROVE  Reached(p, At(j + 1))
    OBVIOUS
  <2>1. Reached(p, At(j))
    BY <1>1, <1>3
  <2>2. At(j).i = a + j + 1 /\ At(j).i \in 1..Len(p) /\ At(j).nstr = SubSeq(str, 1, j)
    BY <1>1 DEF Clean, State
  <2>3. j + 1 \in 1..Len(str) /\ a + (j + 1) = a + j + 1
    BY <1>1
  <2>4. p[a + j + 1] = str[j + 1] /\ p[a + j + 1] # "%"
    BY <1>1, <2>3 DEF Range, Stands
  <2>5. Round(p, At(j)) = Text(At(j), p[a + j + 1])
    BY <2>2, <2>4 DEF Round
  <2>6. SubSeq(str, 1, j + 1) = Append(SubSeq(str, 1, j), str[j + 1])
    BY <1>1, <2>3
  <2>7. Text(At(j), p[a + j + 1]) = At(j + 1)
    <3>1. Text(At(j), str[j + 1]) = Clean(a + (j + 1), Append(SubSeq(str, 1, j), str[j + 1]), vec)
      BY TextOf
    <3>2. QED
      BY <2>4, <2>6, <3>1
  <2>8. At(j + 1).i = a + j + 2
    BY DEF Clean, State
  <2> HIDE DEF At
  <2>9. QED
    BY <1>1, <2>1, <2>2, <2>5, <2>7, <2>8, OneRound
<1>4. Nat \subseteq S
  <2> HIDE DEF S
  <2>1. QED
    BY <1>2, <1>3, Induction
<1>5. Reached(p, At(Len(str)))
  BY <1>1, <1>4
<1>6. SubSeq(str, 1, Len(str)) = str
  BY SubSeqFull
<1>7. QED
  BY <1>5, <1>6

\* What stands in a pattern can be cut out of it.
LEMMA SubSeqWritten ==
  ASSUME NEW p \in Seq(Chars), NEW a \in Nat, NEW str \in Seq(Chars),
         a + Len(str) <= Len(p), Stands(p, a, str)
  PROVE  SubSeq(p, a + 1, a + Len(str)) = str
<1>1. Len(p) \in Nat /\ Len(str) \in Nat
  BY LenProperties
<1> DEFINE t == SubSeq(p, a + 1, a + Len(str))
<1>2. \A k \in (a + 1)..(a + Len(str)) : p[k] \in Chars
  BY <1>1, ElementOfSeq
<1>3. /\ t \in Seq(Chars)
      /\ Len(t) = IF a + 1 <= a + Len(str) THEN (a + Len(str)) - (a + 1) + 1 ELSE 0
      /\ \A j \in 1..((a + Len(str)) - (a + 1) + 1) : t[j] = p[(a + 1) + j - 1]
  <2>1. a + 1 \in Int /\ a + Len(str) \in Int
    BY <1>1
  <2>2. QED
    BY <1>2, <2>1, SubSeqProperties
<1> HIDE DEF t
<1>4. (a + Len(str)) - (a + 1) + 1 = Len(str) /\ Len(t) = Len(str)
  BY <1>1, <1>3
<1>5. ASSUME NEW j \in 1..Len(str)
      PROVE  t[j] = str[j]
  <2>1. (a + 1) + j - 1 = a + j
    OBVIOUS
  <2>2. p[a + j] = str[j]
    BY DEF Stands
  <2>3. QED
    BY <1>3, <1>4, <2>1, <2>2
<1>6. t = str
  BY <1>3, <1>4, <1>5, SeqEqual
<1>7. QED
  BY <1>6 DEF t

\* The places after i where p has a character that is not in T, or is c.
Outside(p, i, T) == {n \in (i + 1)..Len(p) : p[n] \notin T}
Places(p, i, c) == {n \in (i + 1)..Len(p) : p[n] = c}

\* The positions the scans look for.
LEMMA PlacesIs ==
  \A p, i, c, m : m \in Places(p, i, c) <=> m \in (i + 1)..Len(p) /\ p[m] = c
BY DEF Places

LEMMA StopIs ==
  \A p, i : Stop(p, i) = Min(Outside(p, i, Letters \cup {RightBrace}) \cup {Len(p) + 1})
BY Zenon DEF Stop, Outside

LEMMA ClosingIs ==
  \A p, n : Closing(p, n) = Min(IF Places(p, n, RightBrace) = {} THEN {0} ELSE Places(p, n, RightBrace))
BY Zenon DEF Closing, Places

\* The scan of a conversion takes str, which ends at n.
Ended(p, n) == n > Len(p) \/ p[n] \notin Letters \cup {RightBrace}

\* What stands in a part of p stands in p.
LEMMA StandsWithin ==
  ASSUME NEW p, NEW a \in Nat, NEW w, NEW i \in Nat, NEW str,
         Len(w) \in Nat, Len(str) \in Nat, i + Len(str) <= Len(w),
         Stands(p, a, w), Stands(w, i, str)
  PROVE  Stands(p, a + i, str)
<1> SUFFICES ASSUME NEW j \in 1..Len(str)
             PROVE  p[(a + i) + j] = str[j]
  BY DEF Stands
<1>1. i + j \in 1..Len(w) /\ a + (i + j) = (a + i) + j
  OBVIOUS
<1>2. p[a + (i + j)] = w[i + j] /\ w[i + j] = str[j]
  BY <1>1 DEF Stands
<1>3. QED
  BY <1>1, <1>2

\* Of two sequences written one after the other each stands where it should.
LEMMA ConcatAt ==
  ASSUME NEW s \in Seq(Chars), NEW t \in Seq(Chars)
  PROVE  /\ s \o t \in Seq(Chars) /\ Len(s \o t) = Len(s) + Len(t)
         /\ Stands(s \o t, 0, s) /\ Stands(s \o t, Len(s), t)
<1>1. Len(s) \in Nat /\ Len(t) \in Nat
  BY LenProperties
<1>2. /\ s \o t \in Seq(Chars) /\ Len(s \o t) = Len(s) + Len(t)
      /\ \A i \in 1..(Len(s) + Len(t)) : (s \o t)[i] = IF i <= Len(s) THEN s[i] ELSE t[i - Len(s)]
  BY ConcatProperties
<1>3. ASSUME NEW i \in 1..Len(s)
      PROVE  (s \o t)[0 + i] = s[i]
  <2>1. i \in 1..(Len(s) + Len(t)) /\ 0 + i = i /\ i <= Len(s)
    BY <1>1
  <2>2. QED
    BY <1>2, <2>1
<1>4. ASSUME NEW j \in 1..Len(t)
      PROVE  (s \o t)[Len(s) + j] = t[j]
  <2>1. Len(s) + j \in 1..(Len(s) + Len(t)) /\ ~(Len(s) + j <= Len(s)) /\ (Len(s) + j) - Len(s) = j
    BY <1>1
  <2>2. QED
    BY <1>2, <2>1
<1>5. QED
  BY <1>2, <1>3, <1>4 DEF Stands

\* What stands in a sequence still does when more is written after it.
LEMMA StillStands ==
  ASSUME NEW s \in Seq(Chars), NEW t \in Seq(Chars), NEW i \in Nat, NEW str \in Seq(Chars),
         i + Len(str) <= Len(s), Stands(s, i, str)
  PROVE  Stands(s \o t, i, str)
<1>1. Len(s) \in Nat /\ Len(str) \in Nat /\ 0 \in Nat /\ 0 + i = i
  BY LenProperties
<1>2. Stands(s \o t, 0, s)
  BY ConcatAt
<1>3. Stands(s \o t, 0 + i, str)
  BY <1>1, <1>2, StandsWithin
<1>4. QED
  BY <1>1, <1>3

\* After the % at position a + 1 comes a name, which ends before position n.
Named(p, a, str, n) ==
  /\ p \in Seq(Chars) /\ a \in Nat /\ str \in Seq(Chars)
  /\ Len(str) # 0 /\ Range(str) \subseteq Letters
  /\ a + 1 + Len(str) <= Len(p) /\ Stands(p, a + 1, str)
  /\ n = a + Len(str) + 2 /\ Ended(p, n)

\* The scan of a conversion takes its name and ends behind it.
LEMMA Scanned ==
  ASSUME NEW p, NEW a, NEW str, NEW n, Named(p, a, str, n)
  PROVE  /\ Stop(p, a + 1) = n
         /\ SubSeq(p, (a + 1) + 1, n - 1) = str
         /\ ~(a + 1 < Len(p) /\ p[(a + 1) + 1] = "%")
<1> USE DEF Named
<1>1. Len(p) \in Nat /\ Len(str) \in Nat /\ DOMAIN str = 1..Len(str)
  BY LenProperties
<1>2. \A j \in 1..Len(str) : p[a + 1 + j] \in Letters
  BY <1>1 DEF Range, Stands
<1>3. n \in Nat /\ n >= a + 3 /\ n <= Len(p) + 1
  BY <1>1
<1>4. Stop(p, a + 1) = n
  <2> DEFINE T == Letters \cup {RightBrace}
             C == Outside(p, a + 1, T) \cup {Len(p) + 1}
  <2>1. \A k \in 1..Len(str) : p[a + 1 + k] \in T
    BY <1>2
  <2>2. n > Len(p) \/ p[n] \notin T
    BY DEF Ended
  <2> HIDE DEF T
  <2>3. n \in C
    <3>1. CASE n > Len(p)
      <4>1. n = Len(p) + 1
        BY <1>1, <1>3, <3>1
      <4>2. QED
        BY <4>1
    <3>2. CASE n <= Len(p)
      <4>1. n \in ((a + 1) + 1)..Len(p) /\ p[n] \notin T
        BY <1>1, <1>3, <2>2, <3>2
      <4>2. QED
        BY <4>1 DEF Outside
    <3>3. QED
      BY <1>1, <1>3, <3>1, <3>2
  <2>4. ASSUME NEW k \in C
        PROVE  n <= k
    <3>1. CASE k \in Outside(p, a + 1, T)
      <4>1. k \in (a + 2)..Len(p) /\ p[k] \notin T
        BY <3>1 DEF Outside
      <4>2. CASE k < n
        <5>1. k - (a + 1) \in 1..Len(str) /\ a + 1 + (k - (a + 1)) = k
          BY <1>1, <1>3, <4>1, <4>2
        <5>2. QED
          BY <2>1, <4>1, <5>1
      <4>3. QED
        BY <1>1, <1>3, <4>1, <4>2
    <3>2. CASE k = Len(p) + 1
      BY <1>3, <3>2
    <3>3. QED
      BY <3>1, <3>2
  <2>5. C \in SUBSET Nat
    BY <1>1 DEF Outside
  <2>6. Stop(p, a + 1) = Min(C)
    BY StopIs DEF T
  <2> HIDE DEF C
  <2>7. QED
    BY <2>3, <2>4, <2>5, <2>6, MinIs
<1>5. SubSeq(p, (a + 1) + 1, n - 1) = str
  <2>1. a + 1 \in Nat /\ (a + 1) + Len(str) = n - 1
    BY <1>1
  <2>2. QED
    BY <2>1, SubSeqWritten
<1>6. ~(a + 1 < Len(p) /\ p[(a + 1) + 1] = "%")
  <2>1. 1 \in 1..Len(str) /\ a + 1 + 1 = (a + 1) + 1
    BY <1>1
  <2>2. p[(a + 1) + 1] \in Letters
    BY <1>2, <2>1
  <2>3. QED
    BY <2>2, LogPatternAssumption
<1>7. QED
  BY <1>4, <1>5, <1>6

\* After the brace at position n comes an argument, closed at position c.
Argument(p, n, fmt, c) ==
  /\ p \in Seq(Chars) /\ n \in Nat /\ fmt \in Seq(Chars)
  /\ RightBrace \notin Range(fmt)
  /\ c = n + Len(fmt) + 1 /\ c <= Len(p)
  /\ Stands(p, n, fmt) /\ p[c] = RightBrace

\* The argument ends at the first closing brace.
LEMMA Closed ==
  ASSUME NEW p, NEW n, NEW fmt, NEW c, Argument(p, n, fmt, c)
  PROVE  Closing(p, n) = c /\ SubSeq(p, n + 1, c - 1) = fmt
<1> USE DEF Argument
<1>1. Len(p) \in Nat /\ Len(fmt) \in Nat /\ DOMAIN fmt = 1..Len(fmt)
  BY LenProperties
<1> DEFINE closes == Places(p, n, RightBrace)
<1>2. c \in closes /\ c \in Nat /\ c # 0 /\ n <= Len(p) /\ c + 1 = n + Len(fmt) + 2
  <2>1. c \in (n + 1)..Len(p) /\ p[c] = RightBrace
    BY <1>1
  <2>2. c \in closes
    BY <2>1, PlacesIs
  <2>3. QED
    BY <1>1, <2>1, <2>2
<1>3. \A j \in 1..Len(fmt) : p[n + j] # RightBrace
  BY <1>1 DEF Range, Stands
<1>4. ASSUME NEW m \in closes
      PROVE  c <= m
  <2> m \in (n + 1)..Len(p) /\ p[m] = RightBrace
    BY PlacesIs
  <2>1. CASE m < c
    <3>1. m - n \in 1..Len(fmt) /\ n + (m - n) = m
      BY <1>1, <2>1
    <3>2. QED
      BY <1>3, <3>1
  <2>2. QED
    BY <1>1, <2>1
<1>5. Closing(p, n) = c
  <2>1. closes \in SUBSET Nat /\ closes # {}
    BY <1>2, PlacesIs
  <2>2. Closing(p, n) = Min(closes)
    BY <2>1, ClosingIs
  <2> HIDE DEF closes
  <2>3. QED
    BY <1>2, <1>4, <2>1, <2>2, MinIs
<1>6. SubSeq(p, n + 1, c - 1) = fmt
  <2>1. c - 1 = n + Len(fmt) /\ n + Len(fmt) <= Len(p)
    BY <1>1
  <2>2. SubSeq(p, n + 1, n + Len(fmt)) = fmt
    BY <2>1, SubSeqWritten
  <2>3. QED
    BY <2>1, <2>2
<1>7. QED
  BY <1>2, <1>5, <1>6

\* The braces and the percent sign as sequences.
LEMMA OneCharacter ==
  ASSUME NEW c \in Chars
  PROVE  <<c>> \in Seq(Chars) /\ Len(<<c>>) = 1 /\ <<c>>[1] = c
OBVIOUS

\* A sequence of one character.
Mark(t) == t \in Seq(Chars) /\ Len(t) = 1

\* Where the parts stand that are written one after the other.
Joints(percent, str, left, fmt, right, L, F, w1, w2, w3, w4) ==
  /\ Mark(percent) /\ Mark(left) /\ Mark(right)
  /\ str \in Seq(Chars) /\ fmt \in Seq(Chars)
  /\ L \in Nat /\ F \in Nat /\ L = Len(str) /\ F = Len(fmt)
  /\ w1 = percent \o str /\ w2 = w1 \o left /\ w3 = w2 \o fmt /\ w4 = w3 \o right

\* They stand where the lengths of the ones before say.
LEMMA Bracketed ==
  ASSUME NEW percent, NEW str, NEW left, NEW fmt, NEW right, NEW L, NEW F,
         NEW w1, NEW w2, NEW w3, NEW w4,
         Joints(percent, str, left, fmt, right, L, F, w1, w2, w3, w4)
  PROVE  /\ Len(w1) = L + 1 /\ Stands(w1, 0, percent) /\ Stands(w1, 1, str)
         /\ Len(w4) = L + F + 3 /\ Stands(w4, 0, percent) /\ Stands(w4, 1, str)
         /\ Stands(w4, L + 1, left) /\ Stands(w4, L + 2, fmt)
         /\ Stands(w4, L + F + 2, right)
<1> USE DEF Joints, Mark
<1>0. 1 + L = L + 1 /\ L + 1 + 1 = L + 2 /\ L + 2 + F = L + F + 2 /\ (L + F + 2) + 1 = L + F + 3
      /\ 0 + 1 <= L + 1 /\ 1 + L <= L + 1 /\ 0 + 1 <= L + 2 /\ 1 + L <= L + 2
      /\ 0 + 1 <= L + F + 2 /\ 1 + L <= L + F + 2
      /\ (L + 1) + 1 <= L + 2 /\ (L + 1) + 1 <= L + F + 2 /\ (L + 2) + F <= L + F + 2
      /\ L + 1 \in Nat /\ L + 2 \in Nat
  OBVIOUS
<1>1. /\ w1 \in Seq(Chars) /\ Len(w1) = L + 1
      /\ Stands(w1, 0, percent) /\ Stands(w1, 1, str)
  <2>1. /\ percent \o str \in Seq(Chars) /\ Len(percent \o str) = Len(percent) + Len(str)
        /\ Stands(percent \o str, 0, percent) /\ Stands(percent \o str, Len(percent), str)
    BY ConcatAt
  <2>2. Len(percent) + Len(str) = L + 1 /\ Len(percent) = 1
    BY <1>0
  <2>3. QED
    BY <2>1, <2>2
<1>2. w2 \in Seq(Chars) /\ Len(w2) = L + 2 /\ Stands(w2, L + 1, left)
  <2>1. /\ w1 \o left \in Seq(Chars) /\ Len(w1 \o left) = Len(w1) + Len(left)
        /\ Stands(w1 \o left, 0, w1) /\ Stands(w1 \o left, Len(w1), left)
    BY <1>1, ConcatAt
  <2>2. Len(w1) + Len(left) = L + 2 /\ Len(w1) = L + 1
    BY <1>0, <1>1
  <2>3. QED
    BY <2>1, <2>2
<1>3. Stands(w2, 0, percent) /\ Stands(w2, 1, str)
  <2>1. Stands(w2, 0, percent)
    <3>1. 0 + Len(percent) <= Len(w1) /\ 0 \in Nat
      BY <1>0, <1>1
    <3>2. Stands(w1 \o left, 0, percent)
      BY <1>1, <3>1, StillStands
    <3>3. QED
      BY <3>2
  <2>2. Stands(w2, 1, str)
    <3>1. 1 + Len(str) <= Len(w1) /\ 1 \in Nat
      BY <1>0, <1>1
    <3>2. Stands(w1 \o left, 1, str)
      BY <1>1, <3>1, StillStands
    <3>3. QED
      BY <3>2
  <2>3. QED
    BY <2>1, <2>2
<1>4. w3 \in Seq(Chars) /\ Len(w3) = L + F + 2 /\ Stands(w3, L + 2, fmt)
  <2>1. /\ w2 \o fmt \in Seq(Chars) /\ Len(w2 \o fmt) = Len(w2) + Len(fmt)
        /\ Stands(w2 \o fmt, 0, w2) /\ Stands(w2 \o fmt, Len(w2), fmt)
    BY <1>2, ConcatAt
  <2>2. Len(w2) + Len(fmt) = L + F + 2 /\ Len(w2) = L + 2
    BY <1>0, <1>2
  <2>3. QED
    BY <2>1, <2>2
<1>5. Stands(w3, 0, percent) /\ Stands(w3, 1, str) /\ Stands(w3, L + 1, left)
  <2>1. Stands(w3, 0, percent)
    <3>1. 0 + Len(percent) <= Len(w2) /\ 0 \in Nat
      BY <1>0, <1>2
    <3>2. Stands(w2 \o fmt, 0, percent)
      BY <1>2, <1>3, <3>1, StillStands
    <3>3. QED
      BY <3>2
  <2>2. Stands(w3, 1, str)
    <3>1. 1 + Len(str) <= Len(w2) /\ 1 \in Nat
      BY <1>0, <1>2
    <3>2. Stands(w2 \o fmt, 1, str)
      BY <1>2, <1>3, <3>1, StillStands
    <3>3. QED
      BY <3>2
  <2>3. Stands(w3, L + 1, left)
    <3>1. L + 1 + Len(left) <= Len(w2) /\ L + 1 \in Nat
      BY <1>0, <1>2
    <3>2. Stands(w2 \o fmt, L + 1, left)
      BY <1>2, <1>3, <3>1, StillStands
    <3>3. QED
      BY <3>2
  <2>4. QED
    BY <2>1, <2>2, <2>3
<1>6. Len(w4) = L + F + 3 /\ Stands(w4, L + F + 2, right)
  <2>1. /\ w3 \o right \in Seq(Chars) /\ Len(w3 \o right) = Len(w3) + Len(right)
        /\ Stands(w3 \o right, 0, w3) /\ Stands(w3 \o right, Len(w3), right)
    BY <1>4, ConcatAt
  <2>2. Len(w3) + Len(right) = L + F + 3 /\ Len(w3) = L + F + 2
    BY <1>0, <1>4
  <2>3. QED
    BY <2>1, <2>2
<1>7. /\ Stands(w4, 0, percent) /\ Stands(w4, 1, str) /\ Stands(w4, L + 1, left)
      /\ Stands(w4, L + 2, fmt)
  <2>1. Stands(w4, 0, percent)
    <3>1. 0 + Len(percent) <= Len(w3) /\ 0 \in Nat
      BY <1>0, <1>4
    <3>2. Stands(w3 \o right, 0, percent)
      BY <1>4, <1>5, <3>1, StillStands
    <3>3. QED
      BY <3>2
  <2>2. Stands(w4, 1, str)
    <3>1. 1 + Len(str) <= Len(w3) /\ 1 \in Nat
      BY <1>0, <1>4
    <3>2. Stands(w3 \o right, 1, str)
      BY <1>4, <1>5, <3>1, StillStands
    <3>3. QED
      BY <3>2
  <2>3. Stands(w4, L + 1, left)
    <3>1. L + 1 + Len(left) <= Len(w3) /\ L + 1 \in Nat
      BY <1>0, <1>4
    <3>2. Stands(w3 \o right, L + 1, left)
      BY <1>4, <1>5, <3>1, StillStands
    <3>3. QED
      BY <3>2
  <2>4. Stands(w4, L + 2, fmt)
    <3>1. L + 2 + Len(fmt) <= Len(w3) /\ L + 2 \in Nat
      BY <1>0, <1>4
    <3>2. Stands(w3 \o right, L + 2, fmt)
      BY <1>4, <1>5, <3>1, StillStands
    <3>3. QED
      BY <3>2
  <2>5. QED
    BY <2>1, <2>2, <2>3, <2>4
<1>8. QED
  BY <1>1, <1>6, <1>7

\* One character of what stands at a.
LEMMA StandsAt ==
  ASSUME NEW p, NEW a, NEW w, Stands(p, a, w), NEW j \in 1..Len(w)
  PROVE  p[a + j] = w[j]
BY DEF Stands

\* Where the parts of a conversion stand, as it is written.
Laid(w, str, fmt) ==
  /\ w[1] = "%" /\ Stands(w, 1, str)
  /\ fmt = <<>> => Len(w) = Len(str) + 1
  /\ fmt # <<>> =>
       /\ Len(w) = Len(str) + Len(fmt) + 3
       /\ w[Len(str) + 2] = LeftBrace /\ Stands(w, Len(str) + 2, fmt)
       /\ w[Len(str) + Len(fmt) + 3] = RightBrace

\* Every conversion is laid out so.
LEMMA WrittenConversion ==
  ASSUME NEW str \in Seq(Chars), NEW fmt \in Seq(Chars),
         NEW w, w = Written(Item(str, fmt, 1))
  PROVE  Laid(w, str, fmt)
<1>1. PICK percent, left, right :
           /\ percent \in Seq(Chars) /\ left \in Seq(Chars) /\ right \in Seq(Chars)
           /\ Len(percent) = 1 /\ Len(left) = 1 /\ Len(right) = 1
           /\ percent[1] = "%" /\ left[1] = LeftBrace /\ right[1] = RightBrace
           /\ fmt = <<>> => w = percent \o str
           /\ fmt # <<>> => w = (((percent \o str) \o left) \o fmt) \o right
  <2>1. /\ Item(str, fmt, 1).type = 1 /\ Item(str, fmt, 1).str = str
        /\ Item(str, fmt, 1).fmt = fmt
    BY DEF Item
  <2>2. /\ fmt = <<>> => w = <<"%">> \o str
        /\ fmt # <<>> => w = (((<<"%">> \o str) \o <<LeftBrace>>) \o fmt) \o <<RightBrace>>
    <3>1. 1 # 0
      OBVIOUS
    <3>2. QED
      BY <2>1, <3>1, Zenon DEF Written
  <2>3. /\ <<"%">> \in Seq(Chars) /\ Len(<<"%">>) = 1 /\ <<"%">>[1] = "%"
        /\ <<LeftBrace>> \in Seq(Chars) /\ Len(<<LeftBrace>>) = 1 /\ <<LeftBrace>>[1] = LeftBrace
        /\ <<RightBrace>> \in Seq(Chars) /\ Len(<<RightBrace>>) = 1 /\ <<RightBrace>>[1] = RightBrace
    <3>1. "%" \in Chars /\ LeftBrace \in Chars /\ RightBrace \in Chars
      BY LogPatternAssumption
    <3>2. QED
      BY <3>1, OneCharacter, Zenon
  <2>4. QED
    BY <2>2, <2>3, Zenon
<1>2. PICK w1, w2, w3, w4, L, F :
        /\ w1 = percent \o str /\ w2 = w1 \o left /\ w3 = w2 \o fmt /\ w4 = w3 \o right
        /\ L = Len(str) /\ F = Len(fmt)
  OBVIOUS
<1>3. L \in Nat /\ F \in Nat
  BY <1>2, LenProperties
<1>4. /\ Len(w1) = L + 1 /\ Stands(w1, 0, percent) /\ Stands(w1, 1, str)
      /\ Len(w4) = L + F + 3 /\ Stands(w4, 0, percent) /\ Stands(w4, 1, str)
      /\ Stands(w4, L + 1, left) /\ Stands(w4, L + 2, fmt)
      /\ Stands(w4, L + F + 2, right)
  <2>1. Joints(percent, str, left, fmt, right, L, F, w1, w2, w3, w4)
    BY <1>1, <1>2, <1>3 DEF Joints, Mark
  <2>2. QED
    BY <2>1, Bracketed
<1>5. w1[1] = "%" /\ w4[1] = "%" /\ w4[L + 2] = LeftBrace /\ w4[L + F + 3] = RightBrace
  <2>1. /\ 1 \in 1..Len(percent) /\ 1 \in 1..Len(left) /\ 1 \in 1..Len(right)
        /\ 0 + 1 = 1 /\ (L + 1) + 1 = L + 2 /\ (L + F + 2) + 1 = L + F + 3
    BY <1>1, <1>3
  <2>2. w1[0 + 1] = percent[1] /\ w4[0 + 1] = percent[1]
    BY <1>4, <2>1, StandsAt
  <2>3. w4[(L + 1) + 1] = left[1] /\ w4[(L + F + 2) + 1] = right[1]
    BY <1>4, <2>1, StandsAt
  <2>4. QED
    BY <1>1, <2>1, <2>2, <2>3
<1>6. CASE fmt = <<>>
  <2>1. w = w1
    BY <1>1, <1>2, <1>6
  <2>2. QED
    BY <1>2, <1>4, <1>5, <1>6, <2>1 DEF Laid
<1>7. CASE fmt # <<>>
  <2>1. w = w4
    BY <1>1, <1>2, <1>7, Zenon
  <2>2. QED
    BY <1>2, <1>4, <1>5, <1>7, <2>1 DEF Laid
<1>8. QED
  BY <1>6, <1>7

\* A conversion without an argument, and the item it becomes ...
LEMMA BareTaken ==
  ASSUME NEW p \in Seq(Chars), NEW a \in Nat, NEW s, s.i = a + 1, s.m_error = FALSE,
         Reached(p, s), NEW str \in Seq(Chars), str # <<>>, Range(str) \subseteq Letters,
         NEW w, Laid(w, str, <<>>), Stands(p, a, w),
         NEW b \in Nat, b = a + Len(w), b <= Len(p),
         Ended(p, b + 1), b + 1 <= Len(p) => p[b + 1] # LeftBrace
  PROVE  Reached(p, Clean(b, <<>>, Append(Flushed(s), Item(str, <<>>, 1))))
<1>1. Len(p) \in Nat /\ Len(str) \in Nat \ {0}
  BY LenProperties, EmptySeq
<1>2. Len(w) = Len(str) + 1 /\ w[1] = "%" /\ Stands(w, 1, str)
  BY DEF Laid
<1>3. /\ b + 1 = a + Len(str) + 2 /\ a + 1 + Len(str) <= Len(p)
      /\ a + 1 \in 1..Len(p) /\ b + 1 > a + 1 /\ b + 1 \in Nat
  BY <1>1, <1>2
<1>4. p[a + 1] = "%" /\ Stands(p, a + 1, str)
  <2>1. 1 \in 1..Len(w) /\ Len(w) \in Nat /\ 1 + Len(str) <= Len(w)
    BY <1>1, <1>2
  <2>2. p[a + 1] = "%"
    BY <1>2, <2>1, StandsAt
  <2>3. QED
    BY <1>1, <1>2, <2>1, <2>2, StandsWithin
<1>5. Named(p, a, str, b + 1)
  BY <1>1, <1>3, <1>4 DEF Named
<1>6. /\ Stop(p, a + 1) = b + 1 /\ SubSeq(p, (a + 1) + 1, (b + 1) - 1) = str
      /\ ~(a + 1 < Len(p) /\ p[(a + 1) + 1] = "%")
  BY <1>5, Scanned
<1>7. Round(p, s) = Conversion(s, str, <<>>, b + 1)
  BY <1>3, <1>4, <1>6 DEF Round
<1>8. PICK next : next = Clean(b, <<>>, Append(Flushed(s), Item(str, <<>>, 1)))
  OBVIOUS
<1>9. next = Round(p, s) /\ next.i = b + 1
  BY <1>7, <1>8 DEF Conversion, Clean, State
<1>10. Reached(p, next)
  BY <1>1, <1>3, <1>9, OneRound
<1>11. QED
  BY <1>8, <1>10

\* ... and one with an argument.
LEMMA BracedTaken ==
  ASSUME NEW p \in Seq(Chars), NEW a \in Nat, NEW s, s.i = a + 1, s.m_error = FALSE,
         Reached(p, s), NEW str \in Seq(Chars), str # <<>>, Range(str) \subseteq Letters,
         NEW fmt \in Seq(Chars), fmt # <<>>, RightBrace \notin Range(fmt),
         NEW w, Laid(w, str, fmt), Stands(p, a, w),
         NEW b \in Nat, b = a + Len(w), b <= Len(p)
  PROVE  Reached(p, Clean(b, <<>>, Append(Flushed(s), Item(str, fmt, 1))))
<1>1. Len(p) \in Nat /\ Len(str) \in Nat \ {0} /\ Len(fmt) \in Nat
  BY LenProperties, EmptySeq
<1>2. PICK n \in Nat : n = a + Len(str) + 2
  BY <1>1
<1>3. /\ Len(w) = Len(str) + Len(fmt) + 3 /\ w[1] = "%" /\ Stands(w, 1, str)
      /\ w[Len(str) + 2] = LeftBrace /\ Stands(w, Len(str) + 2, fmt)
      /\ w[Len(str) + Len(fmt) + 3] = RightBrace
  BY DEF Laid
<1>4. /\ b + 1 = n + Len(fmt) + 2 /\ a + 1 + Len(str) <= Len(p)
      /\ a + 1 \in 1..Len(p) /\ b + 1 > a + 1 /\ b + 1 \in Nat
      /\ n <= Len(p) /\ n + Len(fmt) + 1 <= Len(p)
  BY <1>1, <1>2, <1>3
<1>5. /\ p[a + 1] = "%" /\ Stands(p, a + 1, str)
      /\ p[n] = LeftBrace /\ Stands(p, n, fmt) /\ p[n + Len(fmt) + 1] = RightBrace
  <2>1. /\ 1 \in 1..Len(w) /\ Len(str) + 2 \in 1..Len(w) /\ Len(str) + Len(fmt) + 3 \in 1..Len(w)
        /\ Len(w) \in Nat /\ 1 + Len(str) <= Len(w) /\ (Len(str) + 2) + Len(fmt) <= Len(w)
        /\ a + (Len(str) + 2) = n /\ a + (Len(str) + Len(fmt) + 3) = n + Len(fmt) + 1
        /\ Len(str) + 2 \in Nat
    BY <1>1, <1>2, <1>3
  <2>2. /\ p[a + 1] = w[1] /\ p[a + (Len(str) + 2)] = w[Len(str) + 2]
        /\ p[a + (Len(str) + Len(fmt) + 3)] = w[Len(str) + Len(fmt) + 3]
    <3>1. p[a + 1] = w[1]
      BY <2>1, StandsAt, SMTT(30)
    <3>2. p[a + (Len(str) + 2)] = w[Len(str) + 2]
      BY <2>1, StandsAt, SMTT(30)
    <3>3. p[a + (Len(str) + Len(fmt) + 3)] = w[Len(str) + Len(fmt) + 3]
      BY <2>1, StandsAt, SMTT(30)
    <3>4. QED
      BY <3>1, <3>2, <3>3
  <2>3. Stands(p, a + 1, str)
    BY <1>1, <1>3, <2>1, StandsWithin
  <2>4. Stands(p, a + (Len(str) + 2), fmt)
    BY <1>1, <1>3, <2>1, StandsWithin
  <2>5. QED
    BY <1>3, <2>1, <2>2, <2>3, <2>4
<1>6. Ended(p, n)
  BY <1>5, LogPatternAssumption, Zenon DEF Ended, LeftBrace, RightBrace
<1>7. /\ Stop(p, a + 1) = n /\ SubSeq(p, (a + 1) + 1, n - 1) = str
      /\ ~(a + 1 < Len(p) /\ p[(a + 1) + 1] = "%")
  <2>1. Named(p, a, str, n)
    BY <1>1, <1>2, <1>4, <1>5, <1>6 DEF Named
  <2>2. QED
    BY <2>1, Scanned
<1>8. Closing(p, n) = b /\ SubSeq(p, n + 1, b - 1) = fmt
  <2>1. b = n + Len(fmt) + 1
    BY <1>1, <1>2, <1>3
  <2>2. Argument(p, n, fmt, b)
    BY <1>1, <1>5, <2>1 DEF Argument
  <2>3. QED
    BY <2>2, Closed
<1>9. Round(p, s) = Conversion(s, str, fmt, b + 1)
  <2>1. b # 0
    BY <1>4
  <2>2. QED
    BY <1>4, <1>5, <1>7, <1>8, <2>1 DEF Round
<1>10. PICK next : next = Clean(b, <<>>, Append(Flushed(s), Item(str, fmt, 1)))
  OBVIOUS
<1>11. next = Round(p, s) /\ next.i = b + 1
  BY <1>9, <1>10 DEF Conversion, Clean, State
<1>12. Reached(p, next)
  BY <1>1, <1>4, <1>11, OneRound
<1>13. QED
  BY <1>10, <1>12

\* Where the pieces of a pattern stand in it: piece k from off[k - 1] on.
LaidOut(pieces, p, off) ==
  /\ pieces \in Seq(Piece) /\ p \in Seq(Chars)
  /\ off \in [0..Len(pieces) -> Nat] /\ off[0] = 0 /\ off[Len(pieces)] = Len(p)
  /\ \A k \in 1..Len(pieces) :
       /\ off[k] = off[k - 1] + Len(Written(pieces[k]))
       /\ off[k] <= Len(p)
       /\ Stands(p, off[k - 1], Written(pieces[k]))

\* Every pattern has such a layout.
LEMMA PatternStands ==
  ASSUME NEW pieces \in Seq(Piece)
  PROVE  \E off : LaidOut(pieces, Pattern(pieces), off)
<1>1. PICK p : p = Pattern(pieces)
  OBVIOUS
<1>2. /\ p \in Seq(Chars)
      /\ \E off \in [0..Len(pieces) -> Nat] :
           /\ off[0] = 0 /\ off[Len(pieces)] = Len(p)
           /\ \A k \in 1..Len(pieces) :
                /\ off[k] = off[k - 1] + Len(Written(pieces[k]))
                /\ off[k] <= Len(p)
                /\ \A j \in 1..Len(Written(pieces[k])) :
                     p[off[k - 1] + j] = Written(pieces[k])[j]
  BY <1>1, PatternLaidOut, Zenon
<1>3. QED
  BY <1>1, <1>2, ZenonT(60) DEF LaidOut, Stands

\* One piece of them.
LEMMA PieceStands ==
  ASSUME NEW pieces, NEW p, NEW off, LaidOut(pieces, p, off), NEW k \in 0..(Len(pieces) - 1)
  PROVE  /\ pieces[k + 1] \in Piece /\ off[k] \in Nat /\ off[k + 1] \in Nat
         /\ off[k + 1] = off[k] + Len(Written(pieces[k + 1]))
         /\ off[k + 1] <= Len(p) /\ Stands(p, off[k], Written(pieces[k + 1]))
<1>1. Len(pieces) \in Nat
  BY LenProperties DEF LaidOut
<1>2. k + 1 \in 1..Len(pieces) /\ k \in 0..Len(pieces) /\ k + 1 \in 0..Len(pieces) /\ (k + 1) - 1 = k
  BY <1>1
<1>3. PICK m : m = k + 1
  OBVIOUS
<1>4. /\ off[m] = off[m - 1] + Len(Written(pieces[m]))
      /\ off[m] <= Len(p) /\ Stands(p, off[m - 1], Written(pieces[m]))
  BY <1>2, <1>3, Zenon DEF LaidOut
<1>5. pieces[m] \in Piece /\ off[k] \in Nat /\ off[m] \in Nat
  BY <1>2, <1>3, ElementOfSeq DEF LaidOut
<1>6. QED
  BY <1>2, <1>3, <1>4, <1>5

\* The loop when k pieces have been read: a text is not an item yet.
IsText(pieces, k) == k # 0 /\ pieces[k].type = 0
After(pieces, off, k) ==
  Clean(off[k], IF IsText(pieces, k) THEN pieces[k].str ELSE <<>>,
        SubSeq(pieces, 1, IF IsText(pieces, k) THEN k - 1 ELSE k))

\* One more element of a sequence.
LEMMA PiecesExtended ==
  ASSUME NEW T, NEW s \in Seq(T), NEW k \in 0..(Len(s) - 1)
  PROVE  SubSeq(s, 1, k + 1) = Append(SubSeq(s, 1, k), s[k + 1])
<1>1. Len(s) \in Nat
  BY LenProperties
<1>2. QED
  BY <1>1

\* With the text made an item, all pieces read so far are items.
LEMMA FlushedAfter ==
  ASSUME NEW pieces \in Seq(Piece), NEW off, NEW k \in 0..Len(pieces)
  PROVE  Flushed(After(pieces, off, k)) = SubSeq(pieces, 1, k)
<1>1. After(pieces, off, k).nstr = (IF IsText(pieces, k) THEN pieces[k].str ELSE <<>>)
      /\ After(pieces, off, k).vec = SubSeq(pieces, 1, IF IsText(pieces, k) THEN k - 1 ELSE k)
  BY DEF After, Clean, State
<1>2. CASE ~IsText(pieces, k)
  BY <1>1, <1>2 DEF Flushed
<1>3. CASE IsText(pieces, k)
  <2>1. k \in 1..Len(pieces) /\ k - 1 \in 0..(Len(pieces) - 1) /\ (k - 1) + 1 = k
    BY <1>3, LenProperties DEF IsText
  <2>2. pieces[k] \in Piece /\ pieces[k].type = 0
    BY <1>3, <2>1, ElementOfSeq DEF IsText
  <2>3. pieces[k].str # <<>> /\ pieces[k].fmt = <<>>
    BY <2>2 DEF Piece
  <2>4. pieces[k] = Item(pieces[k].str, <<>>, 0)
    BY <2>2, <2>3, WrittenType
  <2>5. SubSeq(pieces, 1, k) = Append(SubSeq(pieces, 1, k - 1), pieces[k])
    BY <2>1, PiecesExtended
  <2>6. QED
    BY <1>1, <1>3, <2>3, <2>4, <2>5 DEF Flushed
<1>4. QED
  BY <1>2, <1>3

\* What follows a conversion without an argument ends its name.
LEMMA FollowedByPiece ==
  ASSUME NEW pieces, NEW p, NEW off, LaidOut(pieces, p, off), Separable(pieces),
         NEW k \in 0..(Len(pieces) - 1),
         pieces[k + 1].type = 1, pieces[k + 1].fmt = <<>>,
         NEW b, b = off[k + 1], b + 1 <= Len(p)
  PROVE  p[b + 1] \notin Letters \cup {LeftBrace, RightBrace}
<1>1. Len(pieces) \in Nat /\ Len(p) \in Nat
  BY LenProperties DEF LaidOut
<1>2. k + 1 # Len(pieces)
  <2>1. off[Len(pieces)] = Len(p)
    BY DEF LaidOut
  <2>2. QED
    BY <1>1, <2>1
<1>3. PICK m : m = k + 1
  OBVIOUS
<1>4. m \in 1..(Len(pieces) - 1) /\ m \in 0..(Len(pieces) - 1)
  BY <1>1, <1>2, <1>3
<1>5. PICK y : y = pieces[m + 1]
  OBVIOUS
<1>6. y \in Piece /\ b \in Nat /\ Stands(p, b, Written(y))
  BY <1>3, <1>4, <1>5, PieceStands
<1>7. y.str \in Seq(Chars) /\ y.fmt \in Seq(Chars) /\ Len(y.str) \in Nat \ {0} /\ y.type \in {0, 1}
      /\ y = Item(y.str, y.fmt, y.type) /\ Len(y.fmt) \in Nat
  BY <1>6, WrittenType, LenProperties
<1>8. CASE y.type = 0
  <2>1. Written(y) = y.str
    BY <1>8 DEF Written
  <2>2. p[b + 1] = y.str[1]
    BY <1>6, <1>7, <2>1, StandsAt
  <2>3. y.str[1] \notin Letters \cup {LeftBrace, RightBrace}
    BY <1>3, <1>4, <1>5, <1>8 DEF Separable
  <2>4. QED
    BY <2>2, <2>3
<1>9. CASE y.type = 1
  <2>1. PICK w : w = Written(y)
    OBVIOUS
  <2>2. Laid(w, y.str, y.fmt)
    <3>1. w = Written(Item(y.str, y.fmt, 1))
      BY <1>7, <1>9, <2>1
    <3>2. QED
      BY <1>7, <3>1, WrittenConversion, Zenon
  <2>3. w[1] = "%" /\ 1 \in 1..Len(w)
    <3>1. w[1] = "%" /\ (Len(w) = Len(y.str) + 1 \/ Len(w) = Len(y.str) + Len(y.fmt) + 3)
      BY <2>2, Zenon DEF Laid
    <3>2. PICK L \in Nat, F \in Nat : L = Len(y.str) /\ F = Len(y.fmt)
      BY <1>7
    <3>3. Len(w) = L + 1 \/ Len(w) = L + F + 3
      BY <3>1, <3>2
    <3>4. QED
      BY <3>1, <3>3
  <2>4. p[b + 1] = "%"
    BY <1>6, <2>1, <2>3, StandsAt
  <2>5. QED
    BY <2>4, LogPatternAssumption, Zenon DEF LeftBrace, RightBrace
<1>10. QED
  BY <1>7, <1>8, <1>9

\* The loop reads one piece more: a text, or a conversion with or without
\* argument.
LEMMA PieceTaken ==
  ASSUME NEW pieces, NEW p, NEW off, LaidOut(pieces, p, off), Separable(pieces),
         NEW k \in 0..(Len(pieces) - 1), Reached(p, After(pieces, off, k))
  PROVE  Reached(p, After(pieces, off, k + 1))
<1>1. pieces \in Seq(Piece) /\ p \in Seq(Chars) /\ Len(pieces) \in Nat /\ Len(p) \in Nat
  BY LenProperties DEF LaidOut
<1>2. k \in 0..Len(pieces) /\ k + 1 \in 1..Len(pieces) /\ (k + 1) - 1 = k /\ k + 1 # 0
  BY <1>1
<1>3. PICK x, a, b, w, s, vec :
        /\ x = pieces[k + 1] /\ a = off[k] /\ b = off[k + 1] /\ w = Written(x)
        /\ s = After(pieces, off, k) /\ vec = SubSeq(pieces, 1, k)
  OBVIOUS
<1>4. /\ x \in Piece /\ a \in Nat /\ b \in Nat /\ b = a + Len(w) /\ b <= Len(p)
      /\ Stands(p, a, w)
  BY <1>3, PieceStands
<1>5. PICK str, fmt : str = x.str /\ fmt = x.fmt
  OBVIOUS
<1>6. /\ str \in Seq(Chars) /\ fmt \in Seq(Chars) /\ x.type \in {0, 1} /\ str # <<>>
      /\ x = Item(str, fmt, x.type)
  BY <1>4, <1>5, WrittenType, EmptySeq
<1>7. Flushed(s) = vec /\ s.i = a + 1 /\ s.m_error = FALSE
  BY <1>1, <1>2, <1>3, FlushedAfter DEF After, Clean, State
<1>8. SubSeq(pieces, 1, k + 1) = Append(vec, x)
  BY <1>1, <1>3, PiecesExtended
<1>9. CASE x.type = 0
  <2>1. ~IsText(pieces, k)
    <3>1. CASE k = 0
      BY <3>1 DEF IsText
    <3>2. CASE k # 0
      <4>1. k \in 1..(Len(pieces) - 1)
        BY <1>1, <3>2
      <4>2. pieces[k].type = 1
        BY <1>3, <1>9, <4>1 DEF Separable
      <4>3. QED
        BY <4>2 DEF IsText
    <3>3. QED
      BY <3>1, <3>2
  <2>2. s = Clean(a, <<>>, vec)
    BY <1>3, <2>1 DEF After
  <2>3. w = str
    BY <1>3, <1>5, <1>9 DEF Written
  <2>4. "%" \notin Range(str)
    BY <1>4, <1>5, <1>9 DEF Piece
  <2>5. IsText(pieces, k + 1)
    BY <1>2, <1>3, <1>9 DEF IsText
  <2>6. After(pieces, off, k + 1) = Clean(b, str, vec)
    BY <1>2, <1>3, <1>5, <2>5 DEF After
  <2>7. Reached(p, Clean(a + Len(str), str, vec))
    BY <1>1, <1>3, <1>4, <1>6, <2>2, <2>3, <2>4, TextRounds
  <2>8. QED
    BY <1>4, <2>3, <2>6, <2>7
<1>10. CASE x.type = 1
  <2>1. After(pieces, off, k + 1) = Clean(b, <<>>, Append(Flushed(s), Item(str, fmt, 1)))
    <3>1. ~IsText(pieces, k + 1)
      BY <1>3, <1>10 DEF IsText
    <3>2. QED
      BY <1>3, <1>6, <1>7, <1>8, <1>10, <3>1 DEF After
  <2>2. Laid(w, str, fmt)
    BY <1>3, <1>6, <1>10, WrittenConversion
  <2>3. Range(str) \subseteq Letters /\ RightBrace \notin Range(fmt)
    BY <1>4, <1>5, <1>10 DEF Piece
  <2>4. CASE fmt # <<>>
    BY <1>1, <1>3, <1>4, <1>6, <1>7, <2>1, <2>2, <2>3, <2>4, BracedTaken, ZenonT(60)
  <2>5. CASE fmt = <<>>
    <3>1. Ended(p, b + 1) /\ (b + 1 <= Len(p) => p[b + 1] # LeftBrace)
      <4>1. b + 1 <= Len(p) => p[b + 1] \notin Letters \cup {LeftBrace, RightBrace}
        BY <1>3, <1>5, <1>10, <2>5, FollowedByPiece
      <4>2. b + 1 > Len(p) \/ b + 1 <= Len(p)
        BY <1>1, <1>4
      <4>3. QED
        BY <4>1, <4>2 DEF Ended
    <3>2. QED
      BY <1>1, <1>3, <1>4, <1>6, <1>7, <2>1, <2>2, <2>3, <2>5, <3>1, BareTaken, ZenonT(60)
  <2>6. QED
    BY <2>4, <2>5
<1>11. QED
  BY <1>6, <1>9, <1>10

\* The loop reads all of them.
LEMMA PiecesReached ==
  ASSUME NEW pieces, NEW p, NEW off, LaidOut(pieces, p, off), Separable(pieces)
  PROVE  Reached(p, After(pieces, off, Len(pieces)))
<1>1. Len(pieces) \in Nat /\ Len(p) \in Nat /\ pieces \in Seq(Piece)
  BY LenProperties DEF LaidOut
<1> DEFINE S == {k \in Nat : k <= Len(pieces) => Reached(p, After(pieces, off, k))}
<1>2. 0 \in S
  <2>1. After(pieces, off, 0) = Start
    <3>1. off[0] = 0 /\ SubSeq(pieces, 1, 0) = <<>> /\ ~IsText(pieces, 0)
      BY <1>1 DEF LaidOut, IsText
    <3>2. 0 + 1 = 1
      OBVIOUS
    <3>3. QED
      BY <3>1, <3>2, Zenon DEF After, Clean, Start
  <2>2. Start.i = 1 /\ Rounds(p)[0] = Start
    BY <1>1, RoundsStep DEF Start, State
  <2>3. 0 \in 0..Len(p) /\ 0 < 1
    BY <1>1
  <2>4. QED
    BY <2>1, <2>2, <2>3 DEF Reached
<1>3. ASSUME NEW k \in Nat, k \in S
      PROVE  k + 1 \in S
  <2> SUFFICES ASSUME k + 1 <= Len(pieces)
               PROVE  Reached(p, After(pieces, off, k + 1))
    OBVIOUS
  <2>1. k \in 0..(Len(pieces) - 1) /\ Reached(p, After(pieces, off, k))
    BY <1>1, <1>3
  <2>2. QED
    BY <2>1, PieceTaken
<1> HIDE DEF S
<1>4. Nat \subseteq S
  BY <1>2, <1>3, Induction
<1>5. Len(pieces) \in S /\ Len(pieces) <= Len(pieces)
  BY <1>1, <1>4
<1>6. QED
  BY <1>5 DEF S

\* A pattern written from any number of pieces that can be told apart is parsed
\* into these pieces, each with its name and argument, and is refused only for a
\* conversion that is not known (log.cc 446-559).
THEOREM PatternsReadBack ==
  ASSUME NEW pieces \in Seq(Piece), Separable(pieces)
  PROVE  ParsedAsWritten(pieces)
<1>1. PICK p : p = Pattern(pieces)
  OBVIOUS
<1>2. PICK off : LaidOut(pieces, p, off)
  BY <1>1, PatternStands
<1>3. PICK N : N = Len(pieces)
  OBVIOUS
<1>4. N \in Nat /\ Len(p) \in Nat
  BY <1>2, <1>3, LenProperties DEF LaidOut
<1>5. PICK end : end = After(pieces, off, N)
  OBVIOUS
<1>6. Rounds(p)[Len(p)] = end
  <2>1. Reached(p, end)
    BY <1>2, <1>3, <1>5, PiecesReached
  <2>2. end.i = Len(p) + 1
    BY <1>2, <1>3, <1>5 DEF LaidOut, After, Clean, State
  <2>3. QED
    BY <1>4, <2>1, <2>2, AtTheEnd
<1>7. Flushed(end) = pieces
  <2>1. Flushed(end) = SubSeq(pieces, 1, N)
    BY <1>3, <1>4, <1>5, FlushedAfter
  <2>2. SubSeq(pieces, 1, Len(pieces)) = pieces
    BY SubSeqFull
  <2>3. QED
    BY <1>3, <2>1, <2>2
<1>8. end.m_error = FALSE
  BY <1>5 DEF After, Clean, State
<1>9. PICK f : f = LogFormatter(p)
  OBVIOUS
<1>10. f.m_items = pieces /\ f.m_error = \E k \in 1..N : ~Known(pieces[k])
  BY <1>3, <1>6, <1>7, <1>8, <1>9 DEF LogFormatter
<1>11. ASSUME NEW k \in 1..N
       PROVE  ~Known(pieces[k]) <=> pieces[k].type = 1 /\ pieces[k].str \notin {<<c>> : c \in Items}
  <2>1. pieces[k] \in Piece
    BY <1>3, <1>4, ElementOfSeq
  <2>2. pieces[k].type \in {0, 1}
    BY <2>1, WrittenType
  <2>3. PICK str : str = pieces[k].str
    OBVIOUS
  <2>4. str \in {<<c>> : c \in Items} <=> \E c \in Items : str = <<c>>
    BY Zenon
  <2>5. pieces[k].type = 0 <=> pieces[k].type # 1
    BY <2>2
  <2>6. QED
    BY <2>3, <2>4, <2>5, Zenon DEF Known
<1>12. QED
  BY <1>1, <1>3, <1>9, <1>10, <1>11, Zenon DEF ParsedAsWritten

\* The items so far are a sequence, and an error has left one.
SequenceOf(s) == \E T : s \in Seq(T)
Growing(s) == SequenceOf(s.vec) /\ (s.m_error => s.vec # <<>>)

\* An item more leaves a sequence, and one that is not empty.
LEMMA SequenceExtended ==
  ASSUME NEW s, SequenceOf(s), NEW e
  PROVE  /\ SequenceOf(Append(s, e)) /\ Append(s, e) # <<>>
         /\ Len(s) \in Nat
<1>1. PICK T : s \in Seq(T)
  BY DEF SequenceOf
<1>2. PICK U : U = T \cup {e}
  OBVIOUS
<1>3. s \in Seq(U) /\ e \in U /\ Len(s) \in Nat
  <2>1. \A i \in 1..Len(s) : s[i] \in U
    BY <1>1, <1>2
  <2>2. QED
    BY <1>1, <1>2, <2>1
<1>4. Append(s, e) \in Seq(U) /\ Append(s, e) # <<>>
  BY <1>3, AppendProperties
<1>5. QED
  BY <1>3, <1>4, Zenon DEF SequenceOf

\* Making the text an item ...
LEMMA FlushedGrows ==
  ASSUME NEW s, Growing(s)
  PROVE  SequenceOf(Flushed(s)) /\ (s.m_error => Flushed(s) # <<>>)
BY SequenceExtended, Zenon DEF Growing, Flushed

\* ... and a round keep that ...
LEMMA RoundGrows ==
  ASSUME NEW p, NEW s, Growing(s)
  PROVE  Growing(Round(p, s))
<1>1. ASSUME NEW c
      PROVE  Growing(Text(s, c))
  BY Zenon DEF Growing, Text, State
<1>2. ASSUME NEW str, NEW fmt, NEW next
      PROVE  Growing(Conversion(s, str, fmt, next))
  BY FlushedGrows, SequenceExtended, Zenon DEF Growing, Conversion, State
<1>3. ASSUME NEW i
      PROVE  Growing(State(i, s.nstr, Append(s.vec, PatternError), TRUE))
  BY SequenceExtended, Zenon DEF Growing, State
<1>4. QED
  BY <1>1, <1>2, <1>3 DEF Round

\* ... so that the loop ends with it.
LEMMA RoundsGrow ==
  ASSUME NEW p \in Seq(Chars)
  PROVE  Growing(Rounds(p)[Len(p)])
<1>1. Len(p) \in Nat
  BY LenProperties
<1> DEFINE S == {k \in Nat : k <= Len(p) => Growing(Rounds(p)[k])}
<1>2. 0 \in S
  <2>1. Growing(Start)
    <3>1. <<>> \in Seq(Chars)
      BY EmptySeq
    <3>2. QED
      BY <3>1 DEF Growing, SequenceOf, Start, State
  <2>2. QED
    BY <1>1, <2>1, RoundsStep
<1>3. ASSUME NEW k \in Nat, k \in S
      PROVE  k + 1 \in S
  <2> SUFFICES ASSUME k + 1 <= Len(p)
               PROVE  Growing(Rounds(p)[k + 1])
    OBVIOUS
  <2>1. k \in 0..(Len(p) - 1) /\ Growing(Rounds(p)[k])
    BY <1>1, <1>3
  <2>2. Rounds(p)[k + 1] = Advanced(p, Rounds(p)[k])
    BY <1>1, <2>1, RoundsStep
  <2>3. QED
    BY <2>1, <2>2, RoundGrows DEF Advanced
<1> HIDE DEF S
<1>4. Len(p) \in S /\ Len(p) <= Len(p)
  BY <1>1, <1>2, <1>3, Induction
<1>5. QED
  BY <1>4 DEF S

\* A pattern always leaves something: items, or no error.
LEMMA FormatterOfPattern ==
  ASSUME NEW p \in Seq(Chars)
  PROVE  /\ Len(LogFormatter(p).m_items) \in Nat
         /\ LogFormatter(p).m_error => LogFormatter(p).m_items # <<>>
<1>1. PICK end : end = Rounds(p)[Len(p)]
  OBVIOUS
<1>2. PICK items : items = Flushed(end)
  OBVIOUS
<1>3. SequenceOf(items) /\ (end.m_error => items # <<>>)
  BY <1>1, <1>2, RoundsGrow, FlushedGrows
<1>4. Len(items) \in Nat
  BY <1>3, SequenceExtended
<1>5. (\E k \in 1..Len(items) : ~Known(items[k])) => items # <<>>
  BY <1>4
<1>6. /\ LogFormatter(p).m_items = items
      /\ LogFormatter(p).m_error = (end.m_error \/ \E k \in 1..Len(items) : ~Known(items[k]))
  BY <1>1, <1>2 DEF LogFormatter
<1>7. QED
  BY <1>3, <1>4, <1>5, <1>6, Zenon

-----------------------------------------------------------------------------
(* The threads that log.                                                   *)

Given == {LogFormatter(p) : p \in Patterns \cup {Default}}
Generations == 1..(Rotations + 1)
Cells == [line : Threads, k : Nat, of : Nat, late : BOOLEAN]

InFile == {"reopen", "stamp", "lock", "write"}
InLog == {"enter", "next"} \cup InFile
Serving == InFile \cup {"crash"}
InAdd == {"add", "get", "give", "push"}

TypesInv ==
  /\ lockA \in [Appenders -> Threads \cup {Nobody}]
  /\ m_appenders \in [Loggers -> Seq(Appenders)]
  /\ m_formatter \in [Loggers -> Given \cup {NoFormatter}]
  /\ \A l \in Loggers : m_formatter[l] = NoFormatter => l \in nulled
  /\ formatter \in [Appenders -> Given \cup {NoFormatter}]
  /\ m_lastTime \in [Files -> Nat]
  /\ open \in [Files -> Nat]
  /\ bad \in [Files -> BOOLEAN]
  /\ text \in [Appenders -> [Generations -> Seq(Cells)]]
  /\ now \in Nat /\ present \in Generations /\ rotated \in [1..Rotations -> Nat]
  /\ DOMAIN pc = Threads /\ DOMAIN call = Threads
  /\ at \in [Threads -> Loggers]
  /\ todo \in [Threads -> Seq(Appenders)]
  /\ item \in [Threads -> Nat]

\* The appenders of s can write, unless they were left without a formatter.
Able == {a \in Appenders : formatter[a] # NoFormatter} \cup MayLack
Ready(s) == \A i \in 1..Len(s) : s[i] \in Able

\* Once an appender is one of these, it stays one.
Kept == Able \subseteq Able' /\ MayLack \subseteq MayLack'

ReadyInv ==
  /\ \A l \in Loggers : Ready(m_appenders[l])
  /\ \A t \in Threads : Ready(todo[t])

\* What a thread relies on where it is.
CallInv ==
  \A t \in Threads :
    /\ pc[t] \in InLog => call[t].time \in Nat /\ call[t].time <= now
    /\ pc[t] \in Serving => todo[t] # <<>>
    /\ pc[t] = "crash" => todo[t][1] \in MayLack
    /\ pc[t] \in {"reopen", "stamp"} => todo[t][1] \in Files
    /\ pc[t] \in InAdd \cup {"own"} => call[t].appender \in Files
    /\ pc[t] = "push" => call[t].appender \in Able
    /\ pc[t] \in {"set", "own"} => call[t].val \in Given \cup {NoFormatter}

\* A stream writes to a generation there has been, or has failed.
StreamInv ==
  \A a \in Files : open[a] <= present /\ (~bad[a] => open[a] >= 1)

BaseInv == TypesInv /\ ReadyInv /\ CallInv /\ StreamInv

LEMMA Constants ==
  /\ Nobody \notin Threads /\ Root \in Loggers /\ Stdout \notin Files
  /\ Interval \in Nat /\ Interval > 0 /\ Rotations \in Nat
BY LoggerAssumption

LEMMA GivenFormatters ==
  /\ NoFormatter \notin Given
  /\ \A f \in Given \cup {NoFormatter} : Len(f.m_items) \in Nat
<1>1. ASSUME NEW f \in Given
      PROVE  f # NoFormatter /\ Len(f.m_items) \in Nat
  <2>1. PICK p \in Seq(Chars) : f = LogFormatter(p)
    BY LoggerAssumption DEF Given
  <2>2. Len(f.m_items) \in Nat /\ (f.m_error => f.m_items # <<>>)
    BY <2>1, FormatterOfPattern
  <2>3. NoFormatter.m_error = TRUE /\ NoFormatter.m_items = <<>>
    BY DEF NoFormatter
  <2>4. QED
    BY <2>2, <2>3
<1>2. Len(NoFormatter.m_items) \in Nat
  BY DEF NoFormatter
<1>3. QED
  BY <1>1, <1>2

LEMMA InitBase == Init => BaseInv
<1> SUFFICES ASSUME Init PROVE BaseInv
  OBVIOUS
<1>1. TypesInv
  <2>1. m_appenders \in [Loggers -> Seq(Appenders)]
    BY LoggerAssumption DEF Init
  <2>2. /\ m_formatter \in [Loggers -> Given \cup {NoFormatter}]
        /\ \A l \in Loggers : m_formatter[l] # NoFormatter
        /\ formatter \in [Appenders -> Given \cup {NoFormatter}]
    BY GivenFormatters DEF Init, Given
  <2>3. text \in [Appenders -> [Generations -> Seq(Cells)]]
    BY EmptySeq DEF Init, Generations
  <2>4. todo \in [Threads -> Seq(Appenders)]
    BY EmptySeq DEF Init
  <2>5. QED
    BY <2>1, <2>2, <2>3, <2>4, Constants DEF Init, TypesInv, Generations
<1>2. ReadyInv
  <2>1. ASSUME NEW l \in Loggers, NEW i \in 1..Len(m_appenders[l])
        PROVE  m_appenders[l][i] \in Able
    <3>1. m_appenders[l][i] \in Appenders
      BY <1>1 DEF TypesInv
    <3>2. Contains(m_appenders[l], m_appenders[l][i])
      BY DEF Contains
    <3>3. LogFormatter(Default) # NoFormatter
      BY GivenFormatters DEF Given
    <3>4. QED
      BY <3>1, <3>2, <3>3 DEF Init, Able
  <2>2. \A t \in Threads : Len(todo[t]) = 0
    BY DEF Init
  <2>3. QED
    BY <2>1, <2>2 DEF ReadyInv, Ready
<1>3. CallInv /\ StreamInv
  BY Constants DEF Init, CallInv, StreamInv, InLog, InFile, Serving, InAdd
<1>4. QED
  BY <1>1, <1>2, <1>3 DEF BaseInv

-----------------------------------------------------------------------------
(* Steps that keep the types and what the threads rely on.                 *)

\* The sets depend on the formatters and the history only.
LEMMA NothingLost ==
  ASSUME UNCHANGED <<formatter, nulled>>
  PROVE  Kept /\ Able' = Able /\ MayLack' = MayLack
BY DEF Kept, Able, MayLack

\* The beginning of a call that is well formed.
Proper(first, c) ==
  /\ c.logger \in Loggers
  /\ first \in {"enter", "add", "set", "clear", "own"}
  /\ first = "enter" => c.time \in Nat /\ c.time <= now'
  /\ first \in {"add", "own"} => c.appender \in Files
  /\ first \in {"set", "own"} => c.val \in Given \cup {NoFormatter}

LEMMA BeginProper ==
  ASSUME BaseInv, NEW t \in Threads, BeginLog(t) \/ BeginConfig(t)
  PROVE  /\ \E first, c : Begin(t, first, c) /\ Proper(first, c)
         /\ now' \in Nat /\ now <= now'
<1>1. now' \in Nat /\ now <= now'
  BY LoggerAssumption DEF BeginLog, BeginConfig, Passing, BaseInv, TypesInv
<1>2. CASE BeginLog(t)
  <2>1. PICK l \in Loggers, v \in Levels :
          Begin(t, "enter", [op |-> "log", logger |-> l, level |-> v, time |-> now'])
    BY <1>2 DEF BeginLog
  <2>2. Proper("enter", [op |-> "log", logger |-> l, level |-> v, time |-> now'])
    BY <1>1 DEF Proper
  <2>3. QED
    BY <1>1, <2>1, <2>2
<1>3. ASSUME NEW l \in Loggers, NEW a \in Files,
             Begin(t, "add", [op |-> "add", logger |-> l, appender |-> a])
      PROVE  \E first, c : Begin(t, first, c) /\ Proper(first, c)
  <2>1. Proper("add", [op |-> "add", logger |-> l, appender |-> a])
    BY DEF Proper
  <2>2. QED
    BY <1>3, <2>1
<1>4. ASSUME NEW l \in Loggers, NEW f \in Settable,
             Begin(t, "set", [op |-> "set", logger |-> l, val |-> f])
      PROVE  \E first, c : Begin(t, first, c) /\ Proper(first, c)
  <2>1. Proper("set", [op |-> "set", logger |-> l, val |-> f])
    BY DEF Proper, Given, Settable
  <2>2. QED
    BY <1>4, <2>1
<1>5. ASSUME NEW l \in Loggers, Begin(t, "clear", [op |-> "clear", logger |-> l])
      PROVE  \E first, c : Begin(t, first, c) /\ Proper(first, c)
  <2>1. Proper("clear", [op |-> "clear", logger |-> l])
    BY DEF Proper
  <2>2. QED
    BY <1>5, <2>1
<1>6. ASSUME NEW a \in Files, NEW f \in Settable,
             Begin(t, "own", [op |-> "own", logger |-> Root, appender |-> a, val |-> f])
      PROVE  \E first, c : Begin(t, first, c) /\ Proper(first, c)
  <2>1. Proper("own", [op |-> "own", logger |-> Root, appender |-> a, val |-> f])
    BY Constants DEF Proper, Given, Settable
  <2>2. QED
    BY <1>6, <2>1
<1>7. QED
  BY <1>1, <1>2, <1>3, <1>4, <1>5, <1>6 DEF BeginConfig

LEMMA BeginBase ==
  ASSUME BaseInv, NEW t \in Threads, BeginLog(t) \/ BeginConfig(t)
  PROVE  BaseInv'
<1>1. PICK first, c : Begin(t, first, c) /\ Proper(first, c)
  BY BeginProper
<1>2. now' \in Nat /\ now <= now'
  BY BeginProper
<1>3. TypesInv'
  BY <1>1, <1>2 DEF Begin, Proper, Goto, BaseInv, TypesInv, locks, config, streams
<1>0. Able' = Able /\ MayLack' = MayLack
  BY <1>1, NothingLost DEF Begin, config
<1>4. ReadyInv'
  BY <1>0, <1>1 DEF Begin, BaseInv, ReadyInv, Ready, config
<1>5. CallInv'
  <2> SUFFICES ASSUME NEW u \in Threads
               PROVE  /\ pc'[u] \in InLog => call'[u].time \in Nat /\ call'[u].time <= now'
                      /\ pc'[u] \in Serving => todo'[u] # <<>>
                      /\ pc'[u] = "crash" => todo'[u][1] \in MayLack'
                      /\ pc'[u] \in {"reopen", "stamp"} => todo'[u][1] \in Files
                      /\ pc'[u] \in InAdd \cup {"own"} => call'[u].appender \in Files
                      /\ pc'[u] = "push" => call'[u].appender \in Able'
                      /\ pc'[u] \in {"set", "own"} => call'[u].val \in Given \cup {NoFormatter}
    BY DEF CallInv
  <2>1. CASE u = t
    <3>1. pc'[u] = first /\ call'[u] = c
      BY <1>1, <2>1 DEF Begin, Goto, BaseInv, TypesInv
    <3>2. QED
      BY <1>1, <3>1 DEF Proper, InLog, InFile, InAdd, Serving
  <2>2. CASE u # t
    <3>1. pc'[u] = pc[u] /\ call'[u] = call[u] /\ UNCHANGED todo
      BY <1>1, <2>2 DEF Begin, Goto, BaseInv, TypesInv, config
    <3>2. \A x \in Nat : x <= now => x <= now'
      BY <1>2 DEF BaseInv, TypesInv
    <3>3. QED
      BY <1>0, <3>1, <3>2 DEF BaseInv, CallInv
  <2>3. QED
    BY <2>1, <2>2
<1>6. StreamInv'
  BY <1>1 DEF Begin, BaseInv, StreamInv, streams
<1>7. QED
  BY <1>3, <1>4, <1>5, <1>6 DEF BaseInv

\* What the steps of a call leave alone for the other threads: when t goes to
\* a place where CallInv asks what holds of t, it holds of all.
LEMMA CallMoves ==
  ASSUME BaseInv, NEW t \in Threads, NEW to,
         pc' = [pc EXCEPT ![t] = to], UNCHANGED <<call, now>>,
         \A u \in Threads \ {t} : todo'[u] = todo[u],
         Kept,
         to \in InLog => pc[t] \in InLog,
         to \in Serving => todo'[t] # <<>>,
         to = "crash" => todo'[t][1] \in MayLack',
         to \in {"reopen", "stamp"} => todo'[t][1] \in Files,
         to \in InAdd => pc[t] \in InAdd,
         to = "push" => call[t].appender \in Able',
         to \notin {"set", "own"}
  PROVE  CallInv'
<1>1. Able \subseteq Able' /\ MayLack \subseteq MayLack'
  BY DEF Kept
<1>2. QED
  BY <1>1 DEF BaseInv, TypesInv, CallInv, InAdd

LEMMA CallReturns ==
  ASSUME BaseInv, NEW t \in Threads, NEW from, Return(t, from), UNCHANGED now,
         \A u \in Threads \ {t} : todo'[u] = todo[u],
         Kept
  PROVE  CallInv'
<1>1. Able \subseteq Able' /\ MayLack \subseteq MayLack'
  BY DEF Kept
<1>2. pc'[t] = "idle"
  BY DEF Return, Goto, BaseInv, TypesInv
<1>3. \A u \in Threads \ {t} : pc'[u] = pc[u] /\ call'[u] = call[u]
  BY DEF Return, Goto, BaseInv, TypesInv
<1>4. QED
  BY <1>1, <1>2, <1>3 DEF BaseInv, CallInv, InLog, InFile, InAdd, Serving

LEMMA FirstOf ==
  ASSUME NEW S, NEW s \in Seq(S), s # <<>>
  PROVE  /\ s[1] \in S /\ 1 \in 1..Len(s) /\ Tail(s) \in Seq(S)
         /\ \A i \in 1..Len(Tail(s)) : i + 1 \in 1..Len(s) /\ Tail(s)[i] = s[i + 1]
BY HeadTailProperties

\* What is left of appenders that can write can write.
LEMMA ReadyTail ==
  ASSUME NEW s \in Seq(Appenders), s # <<>>, Ready(s)
  PROVE  Ready(Tail(s))
BY FirstOf DEF Ready

\* The generation a stream that has not failed writes to.
LEMMA GenerationType ==
  ASSUME BaseInv, NEW a \in Appenders, ~Failed(a)
  PROVE  Generation(a) \in Generations
<1>1. CASE a = Stdout
  BY <1>1, Constants DEF Generation, Generations
<1>2. CASE a # Stdout
  <2>1. a \in Files /\ ~bad[a]
    BY <1>2 DEF Appenders, Failed
  <2>2. open[a] \in Nat /\ 1 <= open[a] /\ open[a] <= present
    BY <2>1 DEF BaseInv, TypesInv, StreamInv
  <2>3. present \in Generations
    BY DEF BaseInv, TypesInv
  <2>4. QED
    BY <1>2, <2>2, <2>3, Constants DEF Generation, Generations
<1>3. QED
  BY <1>1, <1>2

LEMMA RecentType ==
  ASSUME NEW S, NEW s \in Seq(S), NEW c \in S
  PROVE  Recent(Append(s, c)) \in Seq(S)
<1>1. Append(s, c) \in Seq(S) /\ Append(s, c) # <<>>
  BY AppendProperties
<1>2. Tail(Append(s, c)) \in Seq(S)
  BY <1>1, FirstOf
<1>3. QED
  BY <1>1, <1>2 DEF Recent

\* What Write does.
LEMMA WriteCases ==
  ASSUME BaseInv, NEW t \in Threads, Write(t), NEW a, a = todo[t][1]
  PROVE  /\ pc[t] = "write" /\ UNCHANGED pc
         /\ a \in Appenders /\ ~Failed(a) /\ Cell(t, a) \in Cells
         /\ item[t] <= Len(ItemsOf(a))
         /\ item' = [item EXCEPT ![t] = @ + 1]
         /\ \/ /\ text' = [text EXCEPT ![a][Generation(a)] = Recent(Append(@, Cell(t, a)))]
               /\ UNCHANGED bad
            \/ a \in Files /\ bad' = [bad EXCEPT ![a] = TRUE] /\ UNCHANGED text
         /\ UNCHANGED <<locks, config, m_lastTime, open, world, call, at, todo>>
<1>1. pc[t] = "write" /\ UNCHANGED pc /\ ~Failed(a) /\ item[t] <= Len(ItemsOf(a))
  BY DEF Write
<1>2. todo[t] # <<>> /\ todo[t] \in Seq(Appenders)
  BY <1>1 DEF BaseInv, TypesInv, CallInv, InFile, Serving
<1>3. a \in Appenders
  BY <1>2, FirstOf
<1>4. Cell(t, a) \in Cells
  <2>1. item[t] \in Nat /\ formatter[a] \in Given \cup {NoFormatter}
    BY <1>3 DEF BaseInv, TypesInv
  <2>2. Len(ItemsOf(a)) \in Nat
    BY <2>1, GivenFormatters DEF ItemsOf
  <2>3. Late(t, a) \in BOOLEAN
    BY DEF Late
  <2>4. QED
    BY <2>1, <2>2, <2>3 DEF Cell, Cells
<1>5. QED
  BY <1>1, <1>3, <1>4 DEF Write

LEMMA WriteBase ==
  ASSUME BaseInv, NEW t \in Threads, Write(t)
  PROVE  BaseInv'
<1> DEFINE a == todo[t][1]
<1>1. UNCHANGED <<locks, config, m_lastTime, open, world, call, at, todo, pc>>
  BY WriteCases
<1>2. text' \in [Appenders -> [Generations -> Seq(Cells)]] /\ bad' \in [Files -> BOOLEAN]
  <2>1. CASE text' = [text EXCEPT ![a][Generation(a)] = Recent(Append(@, Cell(t, a)))]
             /\ UNCHANGED bad
    <3>1. a \in Appenders /\ Cell(t, a) \in Cells /\ Generation(a) \in Generations
      BY WriteCases, GenerationType
    <3>2. text[a][Generation(a)] \in Seq(Cells)
      BY <3>1 DEF BaseInv, TypesInv
    <3>3. Recent(Append(text[a][Generation(a)], Cell(t, a))) \in Seq(Cells)
      BY <3>1, <3>2, RecentType
    <3>4. QED
      BY <2>1, <3>1, <3>3 DEF BaseInv, TypesInv
  <2>2. CASE bad' = [bad EXCEPT ![a] = TRUE] /\ UNCHANGED text
    BY <2>2 DEF BaseInv, TypesInv
  <2>3. QED
    BY <2>1, <2>2, WriteCases
<1>3. item' \in [Threads -> Nat]
  <2>1. item' = [item EXCEPT ![t] = @ + 1]
    BY WriteCases
  <2>2. item \in [Threads -> Nat]
    BY DEF BaseInv, TypesInv
  <2>3. QED
    BY <2>1, <2>2
<1>4. TypesInv'
  BY <1>1, <1>2, <1>3 DEF BaseInv, TypesInv, locks, config, world
<1>5. ReadyInv' /\ CallInv'
  <2>1. Able' = Able /\ MayLack' = MayLack
    BY <1>1, NothingLost DEF config
  <2>2. QED
    BY <1>1, <2>1 DEF BaseInv, ReadyInv, Ready, CallInv, config, world
<1>6. StreamInv'
  <2>1. \A b \in Files : bad[b] => bad'[b]
    BY WriteCases DEF BaseInv, TypesInv
  <2>2. QED
    BY <1>1, <2>1 DEF BaseInv, StreamInv, world
<1>7. QED
  BY <1>4, <1>5, <1>6 DEF BaseInv

LEMMA LogBase ==
  ASSUME BaseInv, NEW t \in Threads, Logging(t)
  PROVE  BaseInv'
<1>0. UNCHANGED config /\ Kept /\ Able' = Able /\ MayLack' = MayLack
  <2>1. UNCHANGED config
    BY DEF Logging, Enter, Leave, Check, Reopen, Stamp, Lock, Write, Finish
  <2>2. QED
    BY <2>1, NothingLost DEF config
<1>1. todo[t] \in Seq(Appenders) /\ at[t] \in Loggers
  BY DEF BaseInv, TypesInv
<1>2. CASE Enter(t)
  <2>1. \/ /\ pc' = [pc EXCEPT ![t] = "enter"]
           /\ at' = [at EXCEPT ![t] = Root] /\ UNCHANGED todo
        \/ /\ pc' = [pc EXCEPT ![t] = "next"] /\ UNCHANGED at
           /\ todo' = [todo EXCEPT ![t] = m_appenders[at[t]]]
    BY <1>2 DEF Enter, Goto, Target
  <2>2. /\ UNCHANGED <<lockA, config, streams, world, call, item, lines, configs>>
        /\ pc[t] = "enter"
    BY <1>2 DEF Enter
  <2>3. TypesInv'
    <3>1. todo' \in [Threads -> Seq(Appenders)]
      BY <1>1, <2>1 DEF BaseInv, TypesInv
    <3>2. at' \in [Threads -> Loggers]
      BY <2>1, Constants DEF BaseInv, TypesInv
    <3>3. DOMAIN pc' = Threads
      BY <2>1 DEF BaseInv, TypesInv
    <3>4. QED
      BY <2>2, <3>1, <3>2, <3>3 DEF BaseInv, TypesInv, config, streams, world
  <2>4. ReadyInv'
    <3>1. \A u \in Threads : todo'[u] = todo[u] \/ todo'[u] = m_appenders[at[t]]
      BY <2>1 DEF BaseInv, TypesInv
    <3>2. UNCHANGED <<formatter, m_appenders>>
      BY <2>2 DEF config
    <3>3. QED
      BY <1>0, <1>1, <3>1, <3>2 DEF BaseInv, ReadyInv, Ready
  <2>5. CallInv'
    <3>1. UNCHANGED <<formatter, call, now>>
      BY <2>2 DEF config, world
    <3>2. \A u \in Threads \ {t} : todo'[u] = todo[u]
      BY <2>1 DEF BaseInv, TypesInv
    <3>3. pc' = [pc EXCEPT ![t] = "enter"] \/ pc' = [pc EXCEPT ![t] = "next"]
      BY <2>1
    <3>4. QED
      BY <2>2, <3>1, <3>2, <3>3, <1>0, CallMoves DEF InLog, InFile, Serving, InAdd
  <2>6. StreamInv'
    BY <2>2 DEF BaseInv, StreamInv, streams, world
  <2>7. QED
    BY <2>3, <2>4, <2>5, <2>6 DEF BaseInv
<1>3. CASE Leave(t)
  <2>1. /\ UNCHANGED <<lockA, config, streams, world, todo, lines, configs>>
        /\ Return(t, "next")
    BY <1>3 DEF Leave
  <2>2. TypesInv'
    BY <2>1, Constants
       DEF Return, Goto, BaseInv, TypesInv, config, streams, world
  <2>3. CallInv'
    BY <2>1, <1>0, CallReturns DEF config, world
  <2>4. ReadyInv' /\ StreamInv'
    BY <1>0, <2>1 DEF BaseInv, ReadyInv, Ready, StreamInv, config, streams, world
  <2>5. QED
    BY <2>2, <2>3, <2>4 DEF BaseInv
<1>4. CASE Check(t)
  <2>1. /\ UNCHANGED <<locks, config, streams, world, call, at, item, lines, configs>>
        /\ pc[t] = "next" /\ todo[t] # <<>>
    BY <1>4 DEF Check
  <2>2. \/ /\ pc' = [pc EXCEPT ![t] = "next"]
           /\ todo' = [todo EXCEPT ![t] = Tail(@)]
        \/ pc' = [pc EXCEPT ![t] = "reopen"] /\ UNCHANGED todo /\ todo[t][1] \in Files
        \/ pc' = [pc EXCEPT ![t] = "lock"] /\ UNCHANGED todo
    BY <1>4 DEF Check, Goto
  <2>3. Tail(todo[t]) \in Seq(Appenders) /\ Ready(Tail(todo[t]))
    BY <1>1, <2>1, FirstOf, ReadyTail DEF BaseInv, ReadyInv
  <2>4. TypesInv'
    BY <2>1, <2>2, <2>3, ZenonT(60) DEF BaseInv, TypesInv, locks, config, streams, world
  <2>5. ReadyInv'
    <3>1. \A u \in Threads : todo'[u] = todo[u] \/ todo'[u] = Tail(todo[t])
      BY <2>2 DEF BaseInv, TypesInv
    <3>2. UNCHANGED <<formatter, m_appenders>>
      BY <2>1 DEF config
    <3>3. QED
      BY <1>0, <2>3, <3>1, <3>2 DEF BaseInv, ReadyInv, Ready
  <2>6. CallInv'
    <3>1. UNCHANGED <<formatter, call, now>>
      BY <2>1 DEF config, world
    <3>2. \A u \in Threads \ {t} : todo'[u] = todo[u]
      BY <2>2 DEF BaseInv, TypesInv
    <3>0. pc[t] \in InLog
      BY <2>1 DEF InLog
    <3>3. CASE pc' = [pc EXCEPT ![t] = "next"]
      BY <2>1, <3>1, <3>2, <3>3, <1>0, CallMoves DEF InLog, InFile, Serving, InAdd
    <3>4. CASE /\ pc' = [pc EXCEPT ![t] = "reopen"] /\ UNCHANGED todo
               /\ todo[t][1] \in Files
      <4>1. todo'[t] # <<>> /\ todo'[t][1] \in Files
        BY <2>1, <3>4
      <4>2. "reopen" \notin InAdd /\ "reopen" \notin {"set", "own"} /\ "reopen" # "push"
        BY DEF InAdd
      <4>3. QED
        BY <3>0, <3>1, <3>2, <3>4, <4>1, <4>2, <1>0, CallMoves
    <3>5. CASE pc' = [pc EXCEPT ![t] = "lock"] /\ UNCHANGED todo
      <4>1. todo'[t] # <<>>
        BY <2>1, <3>5
      <4>2. /\ "lock" \notin InAdd /\ "lock" \notin {"set", "own", "reopen", "stamp"}
            /\ "lock" # "push"
        BY DEF InAdd
      <4>3. QED
        BY <3>0, <3>1, <3>2, <3>5, <4>1, <4>2, <1>0, CallMoves
    <3>6. QED
      BY <2>2, <3>3, <3>4, <3>5
  <2>7. StreamInv'
    BY <2>1 DEF BaseInv, StreamInv, streams, world
  <2>8. QED
    BY <2>4, <2>5, <2>6, <2>7 DEF BaseInv
<1>5. CASE Reopen(t)
  <2>1. /\ UNCHANGED <<locks, config, m_lastTime, text, world, call, at, todo,
                       item, lines, configs>>
        /\ pc[t] = "reopen" /\ pc' = [pc EXCEPT ![t] = "stamp"]
        /\ todo[t][1] \in Files /\ todo[t] # <<>>
    BY <1>5 DEF Reopen, Goto, BaseInv, CallInv, InFile, Serving
  <2>2. \/ UNCHANGED <<open, bad>>
        \/ \E ok \in BOOLEAN :
             /\ open' = [open EXCEPT ![todo[t][1]] = IF ok THEN present ELSE 0]
             /\ bad' = [bad EXCEPT ![todo[t][1]] = ~ok]
    BY <1>5 DEF Reopen
  <2>3. /\ open' \in [Files -> Nat] /\ bad' \in [Files -> BOOLEAN]
        /\ \A a \in Files : open'[a] <= present /\ (~bad'[a] => open'[a] >= 1)
    <3>1. present \in Nat /\ 1 <= present
      BY Constants DEF BaseInv, TypesInv, Generations
    <3>2. CASE UNCHANGED <<open, bad>>
      BY <3>2 DEF BaseInv, TypesInv, StreamInv
    <3>3. ASSUME NEW ok \in BOOLEAN,
                 open' = [open EXCEPT ![todo[t][1]] = IF ok THEN present ELSE 0],
                 bad' = [bad EXCEPT ![todo[t][1]] = ~ok]
          PROVE  /\ open' \in [Files -> Nat] /\ bad' \in [Files -> BOOLEAN]
                 /\ \A a \in Files : open'[a] <= present /\ (~bad'[a] => open'[a] >= 1)
      <4>1. CASE ok = TRUE
        <5>1. /\ open' = [open EXCEPT ![todo[t][1]] = present]
              /\ bad' = [bad EXCEPT ![todo[t][1]] = FALSE]
          BY <3>3, <4>1
        <5>2. QED
          BY <2>1, <3>1, <5>1 DEF BaseInv, TypesInv, StreamInv
      <4>2. CASE ok = FALSE
        <5>1. /\ open' = [open EXCEPT ![todo[t][1]] = 0]
              /\ bad' = [bad EXCEPT ![todo[t][1]] = TRUE]
          BY <3>3, <4>2
        <5>2. QED
          BY <2>1, <3>1, <5>1 DEF BaseInv, TypesInv, StreamInv
      <4>3. QED
        BY <4>1, <4>2
    <3>4. QED
      BY <2>2, <3>2, <3>3
  <2>4. TypesInv'
    BY <2>1, <2>3 DEF BaseInv, TypesInv, locks, config, world
  <2>5. ReadyInv' /\ StreamInv'
    BY <1>0, <2>1, <2>3 DEF BaseInv, ReadyInv, Ready, StreamInv, config, world
  <2>6. CallInv'
    BY <2>1, <1>0, CallMoves DEF config, world, InLog, InFile, Serving, InAdd
  <2>7. QED
    BY <2>4, <2>5, <2>6 DEF BaseInv
<1>6. CASE Stamp(t)
  <2>1. /\ UNCHANGED <<locks, config, open, bad, text, world, call, at, todo, item,
                       lines, configs>>
        /\ pc[t] = "stamp" /\ pc' = [pc EXCEPT ![t] = "lock"]
        /\ todo[t] # <<>> /\ call[t].time \in Nat
        /\ m_lastTime' = [m_lastTime EXCEPT ![todo[t][1]] = call[t].time]
    BY <1>6 DEF Stamp, Goto, BaseInv, CallInv, InFile, Serving, InLog
  <2>2. TypesInv'
    BY <2>1 DEF BaseInv, TypesInv, locks, config, world
  <2>3. ReadyInv' /\ StreamInv'
    BY <1>0, <2>1 DEF BaseInv, ReadyInv, Ready, StreamInv, config, world
  <2>4. CallInv'
    BY <2>1, <1>0, CallMoves DEF config, world, InLog, InFile, Serving, InAdd
  <2>5. QED
    BY <2>2, <2>3, <2>4 DEF BaseInv
<1>7. CASE Lock(t)
  <2>1. /\ UNCHANGED <<lockL, config, streams, world, call, at, todo, lines, configs>>
        /\ pc[t] = "lock" /\ pc' = [pc EXCEPT ![t] = Formatting(todo[t][1])]
        /\ todo[t] # <<>>
        /\ lockA' = [lockA EXCEPT ![todo[t][1]] = t]
        /\ item' = [item EXCEPT ![t] = 1]
    BY <1>7 DEF Lock, Goto, BaseInv, CallInv, InFile, Serving
  <2>2. TypesInv'
    BY <2>1 DEF BaseInv, TypesInv, config, streams, world
  <2>3. ReadyInv' /\ StreamInv'
    BY <1>0, <2>1 DEF BaseInv, ReadyInv, Ready, StreamInv, config, streams, world
  <2>4. CallInv'
    <3>1. CASE formatter[todo[t][1]] # NoFormatter
      <4>1. pc' = [pc EXCEPT ![t] = "write"]
        BY <2>1, <3>1 DEF Formatting
      <4>2. QED
        BY <2>1, <4>1, <1>0, CallMoves DEF world, InLog, InFile, Serving, InAdd
    <3>2. CASE formatter[todo[t][1]] = NoFormatter
      <4>1. pc' = [pc EXCEPT ![t] = "crash"]
        BY <2>1, <3>2 DEF Formatting
      <4>2. 1 \in 1..Len(todo[t])
        BY <1>1, <2>1, FirstOf
      <4>3. todo[t][1] \in MayLack
        BY <3>2, <4>2 DEF BaseInv, ReadyInv, Ready, Able
      <4>4. /\ "crash" \notin InAdd /\ "crash" \notin InLog /\ "crash" \notin {"set", "own"}
            /\ "crash" \notin {"reopen", "stamp"} /\ "crash" # "push"
        BY DEF InLog, InFile, InAdd
      <4>5. UNCHANGED <<call, now, todo>>
        BY <2>1 DEF world
      <4>6. QED
        BY <2>1, <4>1, <4>3, <4>4, <4>5, <1>0, CallMoves
    <3>3. QED
      BY <3>1, <3>2
  <2>5. QED
    BY <2>2, <2>3, <2>4 DEF BaseInv
<1>8. CASE Write(t)
  BY <1>8, WriteBase
<1>9. CASE Finish(t)
  <2>1. /\ UNCHANGED <<lockL, config, streams, world, call, at, item, lines, configs>>
        /\ pc[t] = "write" /\ pc' = [pc EXCEPT ![t] = "next"] /\ todo[t] # <<>>
        /\ lockA' = [lockA EXCEPT ![todo[t][1]] = Nobody]
        /\ todo' = [todo EXCEPT ![t] = Tail(@)]
    BY <1>9 DEF Finish, Goto, BaseInv, CallInv, InFile, Serving
  <2>2. Tail(todo[t]) \in Seq(Appenders) /\ Ready(Tail(todo[t]))
    BY <1>1, <2>1, FirstOf, ReadyTail DEF BaseInv, ReadyInv
  <2>3. TypesInv'
    BY <2>1, <2>2 DEF BaseInv, TypesInv, config, streams, world
  <2>4. ReadyInv' /\ StreamInv'
    <3>1. \A u \in Threads : todo'[u] = todo[u] \/ todo'[u] = Tail(todo[t])
      BY <2>1 DEF BaseInv, TypesInv
    <3>2. QED
      BY <1>0, <2>1, <2>2, <3>1
         DEF BaseInv, ReadyInv, Ready, StreamInv, config, streams, world
  <2>5. CallInv'
    <3>1. \A u \in Threads \ {t} : todo'[u] = todo[u]
      BY <2>1 DEF BaseInv, TypesInv
    <3>2. QED
      BY <2>1, <3>1, <1>0, CallMoves DEF config, world, InLog, InFile, Serving, InAdd
  <2>6. QED
    BY <2>3, <2>4, <2>5 DEF BaseInv
<1>10. QED
  BY <1>2, <1>3, <1>4, <1>5, <1>6, <1>7, <1>8, <1>9 DEF Logging


-----------------------------------------------------------------------------
(* The steps of a thread that configures, and the rotation.                *)

\* A formatter that is given is one that can write, or the history tells of it;
\* nothing else changes a formatter.
LEMMA FormatterGiven ==
  ASSUME BaseInv, NEW a \in Appenders, NEW f \in Given \cup {NoFormatter},
         formatter' \in {formatter, [formatter EXCEPT ![a] = f]},
         nulled \subseteq nulled', f = NoFormatter => a \in MayLack'
  PROVE  formatter' \in [Appenders -> Given \cup {NoFormatter}] /\ Kept
<1>1. formatter \in [Appenders -> Given \cup {NoFormatter}]
  BY DEF BaseInv, TypesInv
<1>2. MayLack \subseteq MayLack'
  BY DEF MayLack
<1>3. \A b \in Appenders : formatter[b] # NoFormatter
                            => formatter'[b] # NoFormatter \/ b \in MayLack'
  BY <1>1
<1>4. Able \subseteq Able'
  BY <1>2, <1>3 DEF Able, MayLack
<1>5. QED
  BY <1>1, <1>2, <1>4 DEF Kept

LEMMA AddBase ==
  ASSUME BaseInv, NEW t \in Threads, Add(t), UNCHANGED <<streams, world, todo>>
  PROVE  BaseInv'
<1> DEFINE l == at[t]
           a == call[t].appender
<1>1. l \in Loggers /\ pc[t] \in InAdd /\ a \in Files /\ a \in Appenders
  BY DEF Add, Goto, Return, InAdd, BaseInv, TypesInv, CallInv, Appenders
<1>2. StreamInv'
  BY DEF BaseInv, StreamInv, streams, world
<1>3. CASE /\ Goto(t, "add", "get")
           /\ UNCHANGED <<lockA, config, call, at, item>>
  <2>0. Kept /\ Able' = Able
    BY <1>3, NothingLost DEF config
  <2>1. TypesInv' /\ ReadyInv'
    BY <1>3, <2>0 DEF Goto, BaseInv, TypesInv, ReadyInv, Ready, config, streams, world
  <2>2. CallInv'
    BY <1>1, <1>3, <2>0, CallMoves DEF Goto, config, world, InLog, InFile, Serving, InAdd
  <2>3. QED
    BY <1>2, <2>1, <2>2 DEF BaseInv
<1>4. CASE /\ pc[t] = "get" /\ Free(lockA, a)
           /\ pc' = [pc EXCEPT ![t] = IF formatter[a] = NoFormatter THEN "give" ELSE "push"]
           /\ UNCHANGED <<locks, config, call, at, item>>
  <2>0. Kept /\ Able' = Able
    BY <1>4, NothingLost DEF config
  <2>1. TypesInv' /\ ReadyInv'
    BY <1>4, <2>0 DEF BaseInv, TypesInv, ReadyInv, Ready, locks, config, streams, world
  <2>2. UNCHANGED <<call, now, todo, formatter>>
    BY <1>4 DEF config, world
  <2>3. CASE formatter[a] = NoFormatter
    <3>1. pc' = [pc EXCEPT ![t] = "give"]
      BY <1>4, <2>3
    <3>2. /\ "give" \in InAdd /\ "give" \notin InLog /\ "give" \notin Serving
          /\ "give" # "push" /\ "give" # "crash" /\ "give" \notin {"set", "own", "reopen", "stamp"}
      BY DEF InLog, InFile, Serving, InAdd
    <3>3. CallInv'
      BY <1>1, <2>0, <2>2, <3>1, <3>2, CallMoves
    <3>4. QED
      BY <1>2, <2>1, <3>3 DEF BaseInv
  <2>4. CASE formatter[a] # NoFormatter
    <3>1. pc' = [pc EXCEPT ![t] = "push"]
      BY <1>4, <2>4
    <3>2. a \in Able'
      BY <1>1, <2>0, <2>4 DEF Able
    <3>3. CallInv'
      BY <1>1, <2>0, <2>2, <3>1, <3>2, CallMoves DEF InLog, InFile, Serving, InAdd
    <3>4. QED
      BY <1>2, <2>1, <3>3 DEF BaseInv
  <2>5. QED
    BY <2>3, <2>4
<1>5. CASE /\ Goto(t, "give", "push")
           /\ formatter' = [formatter EXCEPT ![a] = m_formatter[l]]
           /\ UNCHANGED <<locks, m_appenders, m_formatter, m_hasFormatter, nulled, call, at,
                           item>>
  <2>1. /\ m_formatter[l] \in Given \cup {NoFormatter}
        /\ m_formatter[l] = NoFormatter => a \in MayLack'
    BY <1>1, <1>5 DEF BaseInv, TypesInv, MayLack
  <2>2. formatter' \in [Appenders -> Given \cup {NoFormatter}] /\ Kept
    BY <1>1, <1>5, <2>1, FormatterGiven
  <2>3. TypesInv'
    BY <1>5, <2>2 DEF Goto, BaseInv, TypesInv, locks, streams, world
  <2>4. ReadyInv'
    BY <1>5, <2>2 DEF BaseInv, ReadyInv, Ready, Kept
  <2>5. a \in Able'
    BY <1>1, <1>5, <2>1 DEF BaseInv, TypesInv, Able
  <2>6. UNCHANGED <<call, now, todo>> /\ pc' = [pc EXCEPT ![t] = "push"]
    BY <1>5 DEF Goto, world
  <2>7. CallInv'
    BY <1>1, <2>2, <2>5, <2>6, CallMoves DEF InLog, InFile, Serving, InAdd
  <2>8. QED
    BY <1>2, <2>3, <2>4, <2>7 DEF BaseInv
<1>6. CASE /\ Return(t, "push")
           /\ m_appenders' = [m_appenders EXCEPT ![l] = Append(@, a)]
           /\ UNCHANGED <<lockA, m_formatter, formatter, m_hasFormatter, nulled>>
  <2>0. Kept /\ Able' = Able
    BY <1>6, NothingLost
  <2>1. a \in Able
    BY <1>6 DEF Return, Goto, BaseInv, CallInv
  <2>2. m_appenders[l] \in Seq(Appenders) /\ Ready(m_appenders[l])
    BY <1>1 DEF BaseInv, TypesInv, ReadyInv
  <2>3. Append(m_appenders[l], a) \in Seq(Appenders)
    BY <1>1, <2>2, AppendProperties
  <2>4. Ready(Append(m_appenders[l], a))
    BY <1>1, <2>1, <2>2, AppendProperties DEF Ready
  <2>5. TypesInv'
    BY <1>1, <1>6, <2>3, Constants DEF Return, Goto, BaseInv, TypesInv, streams, world
  <2>6. ReadyInv'
    <3>1. \A k \in Loggers : m_appenders'[k] = m_appenders[k]
                             \/ m_appenders'[k] = Append(m_appenders[l], a)
      BY <1>1, <1>6 DEF BaseInv, TypesInv
    <3>2. QED
      BY <1>6, <2>0, <2>4, <3>1 DEF BaseInv, ReadyInv, Ready
  <2>7. CallInv'
    BY <1>6, <2>0, CallReturns DEF world
  <2>8. QED
    BY <1>2, <2>5, <2>6, <2>7 DEF BaseInv
<1>7. QED
  BY <1>3, <1>4, <1>5, <1>6 DEF Add

LEMMA SetBase ==
  ASSUME BaseInv, NEW t \in Threads, Set(t), UNCHANGED <<streams, world>>
  PROVE  BaseInv'
<1> DEFINE l == at[t]
<1>1. l \in Loggers /\ todo[t] \in Seq(Appenders)
  BY DEF BaseInv, TypesInv
<1>2. StreamInv' /\ UNCHANGED now
  BY DEF BaseInv, StreamInv, streams, world
<1>3. CASE /\ Goto(t, "set", "give to all")
           /\ m_formatter' = [m_formatter EXCEPT ![l] = call[t].val]
           /\ nulled' = Nulled(call[t].val, l)
           /\ todo' = [todo EXCEPT ![t] = m_appenders[l]]
           /\ UNCHANGED <<lockA, m_appenders, formatter, m_hasFormatter, call, at, item>>
  <2>0. nulled \subseteq nulled' /\ (call[t].val = NoFormatter => l \in nulled')
    BY <1>3 DEF Nulled
  <2>1. call[t].val \in Given \cup {NoFormatter}
    BY <1>3 DEF Goto, BaseInv, CallInv
  <2>9. Kept
    BY <1>3, <2>0 DEF Kept, Able, MayLack
  <2>2. TypesInv'
    BY <1>1, <1>3, <2>0, <2>1 DEF Goto, BaseInv, TypesInv, streams, world
  <2>3. \A u \in Threads : todo'[u] = todo[u] \/ todo'[u] = m_appenders[l]
    BY <1>3 DEF BaseInv, TypesInv
  <2>4. ReadyInv'
    <3>1. \A u \in Threads : Ready(todo'[u])
      BY <1>1, <2>3 DEF BaseInv, ReadyInv
    <3>2. QED
      BY <1>3, <2>9, <3>1 DEF BaseInv, ReadyInv, Ready, Kept
  <2>5. \A u \in Threads \ {t} : todo'[u] = todo[u]
    BY <1>3 DEF BaseInv, TypesInv
  <2>6. pc' = [pc EXCEPT ![t] = "give to all"] /\ UNCHANGED call
    BY <1>3 DEF Goto
  <2>7. CallInv'
    BY <1>2, <2>5, <2>9, <2>6, CallMoves DEF InLog, InFile, Serving, InAdd
  <2>8. QED
    BY <1>2, <2>2, <2>4, <2>7 DEF BaseInv
<1>4. CASE /\ Goto(t, "give to all", "give to all")
           /\ todo[t] # <<>>
           /\ formatter' = IF m_hasFormatter[todo[t][1]] THEN formatter
                           ELSE [formatter EXCEPT ![todo[t][1]] = m_formatter[l]]
           /\ todo' = [todo EXCEPT ![t] = Tail(@)]
           /\ UNCHANGED <<locks, m_appenders, m_formatter, m_hasFormatter, nulled, call, at,
                           item>>
  <2>1. /\ todo[t][1] \in Appenders /\ Tail(todo[t]) \in Seq(Appenders)
        /\ Ready(Tail(todo[t]))
    BY <1>1, <1>4, FirstOf, ReadyTail DEF BaseInv, ReadyInv
  <2>2. formatter' \in [Appenders -> Given \cup {NoFormatter}] /\ Kept
    <3>1. /\ m_formatter[l] \in Given \cup {NoFormatter}
          /\ m_formatter[l] = NoFormatter => todo[t][1] \in MayLack'
      BY <1>1, <1>4, <2>1 DEF BaseInv, TypesInv, MayLack
    <3>2. formatter' \in {formatter, [formatter EXCEPT ![todo[t][1]] = m_formatter[l]]}
      BY <1>4
    <3>3. QED
      BY <1>4, <2>1, <3>1, <3>2, FormatterGiven
  <2>3. TypesInv'
    BY <1>4, <2>1, <2>2 DEF Goto, BaseInv, TypesInv, locks, streams, world
  <2>4. ReadyInv'
    <3>1. \A u \in Threads : todo'[u] = todo[u] \/ todo'[u] = Tail(todo[t])
      BY <1>4 DEF BaseInv, TypesInv
    <3>2. \A u \in Threads : Ready(todo'[u])
      BY <2>1, <3>1 DEF BaseInv, ReadyInv
    <3>3. QED
      BY <1>4, <2>2, <3>2 DEF BaseInv, ReadyInv, Ready, Kept
  <2>5. \A u \in Threads \ {t} : todo'[u] = todo[u]
    BY <1>4 DEF BaseInv, TypesInv
  <2>6. pc' = [pc EXCEPT ![t] = "give to all"] /\ UNCHANGED call
    BY <1>4 DEF Goto
  <2>7. CallInv'
    BY <1>2, <2>2, <2>5, <2>6, CallMoves DEF InLog, InFile, Serving, InAdd
  <2>8. QED
    BY <1>2, <2>3, <2>4, <2>7 DEF BaseInv
<1>5. CASE /\ Return(t, "give to all")
           /\ UNCHANGED <<lockA, config, todo>>
  <2>0. Kept /\ Able' = Able
    BY <1>5, NothingLost DEF config
  <2>1. TypesInv'
    BY <1>5, Constants DEF Return, Goto, BaseInv, TypesInv, config, streams, world
  <2>2. ReadyInv'
    BY <1>5, <2>0 DEF BaseInv, ReadyInv, Ready, config
  <2>3. CallInv'
    BY <1>2, <1>5, <2>0, CallReturns
  <2>4. QED
    BY <1>2, <2>1, <2>2, <2>3 DEF BaseInv
<1>6. QED
  BY <1>3, <1>4, <1>5 DEF Set

LEMMA ClearBase ==
  ASSUME BaseInv, NEW t \in Threads, Clear(t)
  PROVE  BaseInv'
<1>1. /\ UNCHANGED <<locks, formatter, nulled, m_formatter, streams, world, todo>>
      /\ Return(t, "clear")
      /\ m_appenders' = [m_appenders EXCEPT ![at[t]] = <<>>]
  BY DEF Clear
<1>0. Kept /\ Able' = Able
  BY <1>1, NothingLost
<1>2. TypesInv'
  <2>1. <<>> \in Seq(Appenders)
    BY EmptySeq
  <2>2. QED
    BY <1>1, <2>1, Constants
       DEF Return, Goto, BaseInv, TypesInv, locks, streams, world
<1>3. ReadyInv'
  <2>1. \A k \in Loggers : m_appenders'[k] = m_appenders[k] \/ Len(m_appenders'[k]) = 0
    BY <1>1 DEF BaseInv, TypesInv
  <2>2. QED
    BY <1>0, <1>1, <2>1 DEF BaseInv, ReadyInv, Ready
<1>4. CallInv'
  BY <1>0, <1>1, CallReturns DEF world
<1>5. StreamInv'
  BY <1>1 DEF BaseInv, StreamInv, streams, world
<1>6. QED
  BY <1>2, <1>3, <1>4, <1>5 DEF BaseInv

LEMMA OwnBase ==
  ASSUME BaseInv, NEW t \in Threads, Own(t)
  PROVE  BaseInv'
<1> DEFINE a == call[t].appender
<1>1. /\ UNCHANGED <<locks, m_appenders, m_formatter, streams, world, todo>>
      /\ Return(t, "own") /\ pc[t] = "own"
      /\ formatter' = [formatter EXCEPT ![a] = call[t].val]
      /\ nulled' = Nulled(call[t].val, a)
  BY DEF Own, Return, Goto
<1>0. nulled \subseteq nulled' /\ (call[t].val = NoFormatter => a \in nulled')
  BY <1>1 DEF Nulled
<1>2. a \in Appenders /\ call[t].val \in Given \cup {NoFormatter}
  BY <1>1 DEF BaseInv, CallInv, Appenders
<1>3. formatter' \in [Appenders -> Given \cup {NoFormatter}] /\ Kept
  <2>1. call[t].val = NoFormatter => a \in MayLack'
    BY <1>0, <1>2 DEF MayLack
  <2>2. QED
    BY <1>0, <1>1, <1>2, <2>1, FormatterGiven
<1>4. TypesInv'
  BY <1>0, <1>1, <1>3, Constants DEF Return, Goto, BaseInv, TypesInv, locks, streams, world
<1>5. ReadyInv'
  BY <1>1, <1>3 DEF BaseInv, ReadyInv, Ready, Kept
<1>6. CallInv'
  BY <1>1, <1>3, CallReturns DEF world
<1>7. StreamInv'
  BY <1>1 DEF BaseInv, StreamInv, streams, world
<1>8. QED
  BY <1>4, <1>5, <1>6, <1>7 DEF BaseInv

LEMMA RotateBase ==
  ASSUME BaseInv, Rotate
  PROVE  BaseInv'
<1>1. now' \in Nat /\ now <= now'
  BY LoggerAssumption DEF Rotate, Passing, BaseInv, TypesInv
<1>2. /\ present \in 1..Rotations /\ present' = present + 1
      /\ rotated' = [rotated EXCEPT ![present] = now']
      /\ UNCHANGED <<locks, config, streams, threads>>
  BY Constants DEF Rotate, BaseInv, TypesInv, Generations
<1>3. present' \in Generations /\ rotated' \in [1..Rotations -> Nat]
  BY <1>1, <1>2, Constants DEF BaseInv, TypesInv, Generations
<1>4. TypesInv'
  BY <1>1, <1>2, <1>3 DEF BaseInv, TypesInv, locks, config, streams, threads
<1>0. Able' = Able /\ MayLack' = MayLack
  BY <1>2, NothingLost DEF config
<1>5. ReadyInv'
  BY <1>0, <1>2 DEF BaseInv, ReadyInv, Ready, config, threads
<1>6. CallInv'
  <2>1. \A x \in Nat : x <= now => x <= now'
    BY <1>1 DEF BaseInv, TypesInv
  <2>2. QED
    BY <1>0, <1>2, <2>1 DEF BaseInv, CallInv, config, threads
<1>7. StreamInv'
  BY <1>2 DEF BaseInv, TypesInv, StreamInv, streams, Generations
<1>8. QED
  BY <1>4, <1>5, <1>6, <1>7 DEF BaseInv

LEMMA BaseStep == BaseInv /\ [Next]_vars => BaseInv'
<1> SUFFICES ASSUME BaseInv, [Next]_vars PROVE BaseInv'
  OBVIOUS
<1>1. CASE UNCHANGED vars
  <2>1. Able' = Able /\ MayLack' = MayLack
    BY <1>1, NothingLost DEF vars, config
  <2>2. QED
    BY <1>1, <2>1 DEF vars, locks, config, streams, world, threads, BaseInv, TypesInv,
                      ReadyInv, Ready, CallInv, StreamInv
<1>2. CASE Next
  BY <1>2, BeginBase, LogBase, AddBase, SetBase, ClearBase, OwnBase, RotateBase
     DEF Next, Step, Configuring
<1>3. QED
  BY <1>1, <1>2

-----------------------------------------------------------------------------
(* What the steps of one thread leave to the others.                       *)

LEMMA RestStays ==
  ASSUME BaseInv, NEW t \in Threads, BeginLog(t) \/ BeginConfig(t) \/ Step(t),
         NEW u \in Threads \ {t}
  PROVE  pc'[u] = pc[u] /\ todo'[u] = todo[u] /\ call'[u] = call[u] /\ item'[u] = item[u]
<1>1. DOMAIN pc = Threads /\ DOMAIN call = Threads /\ DOMAIN todo = Threads
      /\ DOMAIN item = Threads
  BY DEF BaseInv, TypesInv
<1>2. CASE BeginLog(t) \/ BeginConfig(t)
  BY <1>1, <1>2, BeginProper DEF Begin, Goto
<1>3. CASE Logging(t)
  BY <1>1, <1>3
     DEF Logging, Enter, Leave, Check, Reopen, Stamp, Lock, Write, Finish, Goto, Return
<1>4. CASE Add(t) /\ UNCHANGED todo
  BY <1>1, <1>4 DEF Add, Goto, Return
<1>5. CASE Set(t)
  BY <1>1, <1>5 DEF Set, Goto, Return
<1>6. CASE Clear(t) \/ Own(t)
  BY <1>1, <1>6 DEF Clear, Own, Return, Goto
<1>7. QED
  BY <1>2, <1>3, <1>4, <1>5, <1>6 DEF Step, Configuring

\* How a thread gets to the file.
LEMMA InFileStays ==
  ASSUME BaseInv, [Next]_vars, NEW u \in Threads, pc'[u] \in {"stamp", "lock", "write"}
  PROVE  \/ Check(u) \/ Reopen(u) \/ Stamp(u) \/ Lock(u) \/ Write(u)
         \/ pc'[u] = pc[u] /\ todo'[u] = todo[u] /\ call'[u] = call[u] /\ item'[u] = item[u]
<1>1. CASE UNCHANGED vars \/ Rotate
  BY <1>1 DEF vars, Rotate, threads
<1>2. ASSUME NEW t \in Threads, BeginLog(t) \/ BeginConfig(t) \/ Step(t), t # u
      PROVE  pc'[u] = pc[u] /\ todo'[u] = todo[u] /\ call'[u] = call[u] /\ item'[u] = item[u]
  BY <1>2, RestStays
<1>3. CASE BeginLog(u) \/ BeginConfig(u)
  BY <1>3, BeginProper, ZenonT(60) DEF Begin, Goto, Proper, BaseInv, TypesInv
<1>4. CASE Enter(u) \/ Leave(u) \/ Finish(u)
  BY <1>4 DEF Enter, Leave, Finish, Goto, Return, BaseInv, TypesInv
<1>5. CASE Configuring(u)
  BY <1>5 DEF Configuring, Add, Set, Clear, Own, Goto, Return, BaseInv, TypesInv
<1>6. QED
  BY <1>1, <1>2, <1>3, <1>4, <1>5 DEF Next, Step, Logging

\* Who changes the locks of appenders, the streams and the clock.
LEMMA LocksChange ==
  ASSUME [Next]_vars
  PROVE  UNCHANGED lockA \/ \E t \in Threads : Lock(t) \/ Finish(t)
<1>1. ASSUME NEW t \in Threads, Step(t), ~Lock(t), ~Finish(t)
      PROVE  UNCHANGED lockA
  BY <1>1 DEF Step, Logging, Configuring, Enter, Leave, Check, Reopen, Stamp, Write, Add,
              Set, Clear, Own, locks
<1>2. ASSUME NEW t \in Threads, BeginLog(t) \/ BeginConfig(t)
      PROVE  UNCHANGED lockA
  BY <1>2 DEF BeginLog, BeginConfig, Begin, locks
<1>3. CASE Rotate \/ UNCHANGED vars
  BY <1>3 DEF Rotate, vars, locks
<1>4. QED
  BY <1>1, <1>2, <1>3 DEF Next

LEMMA StreamsChange ==
  ASSUME [Next]_vars
  PROVE  \/ UNCHANGED <<open, bad, text>>
         \/ \E t \in Threads : Reopen(t) \/ Write(t)
<1>1. ASSUME NEW t \in Threads, Step(t), ~Reopen(t), ~Write(t)
      PROVE  UNCHANGED <<open, bad, text>>
  BY <1>1 DEF Step, Logging, Configuring, Enter, Leave, Check, Stamp, Lock, Finish, Clear,
              Own, streams
<1>2. ASSUME NEW t \in Threads, BeginLog(t) \/ BeginConfig(t)
      PROVE  UNCHANGED <<open, bad, text>>
  BY <1>2 DEF BeginLog, BeginConfig, Begin, streams
<1>3. CASE Rotate \/ UNCHANGED vars
  BY <1>3 DEF Rotate, vars, streams
<1>4. QED
  BY <1>1, <1>2, <1>3 DEF Next

LEMMA StampsChange ==
  ASSUME [Next]_vars
  PROVE  UNCHANGED m_lastTime \/ \E t \in Threads : Stamp(t)
<1>1. ASSUME NEW t \in Threads, Step(t), ~Stamp(t)
      PROVE  UNCHANGED m_lastTime
  BY <1>1 DEF Step, Logging, Configuring, Enter, Leave, Check, Reopen, Lock, Write, Finish,
              Clear, Own, streams
<1>2. ASSUME NEW t \in Threads, BeginLog(t) \/ BeginConfig(t)
      PROVE  UNCHANGED m_lastTime
  BY <1>2 DEF BeginLog, BeginConfig, Begin, streams
<1>3. CASE Rotate \/ UNCHANGED vars
  BY <1>3 DEF Rotate, vars, streams
<1>4. QED
  BY <1>1, <1>2, <1>3 DEF Next

LEMMA WorldChanges ==
  ASSUME BaseInv, [Next]_vars
  PROVE  (UNCHANGED <<present, rotated>> \/ Rotate) /\ now <= now'
<1>1. ASSUME NEW t \in Threads, Step(t)
      PROVE  UNCHANGED world
  BY <1>1 DEF Step, Logging, Configuring, Enter, Leave, Check, Reopen, Stamp, Lock, Write,
              Finish, Clear, Own
<1>2. ASSUME NEW t \in Threads, BeginLog(t) \/ BeginConfig(t)
      PROVE  UNCHANGED <<present, rotated>> /\ now <= now'
  BY <1>2, BeginProper DEF Begin
<1>3. CASE Rotate
  BY <1>3, LoggerAssumption DEF Rotate, Passing, BaseInv, TypesInv
<1>4. now <= now
  BY DEF BaseInv, TypesInv
<1>5. QED
  BY <1>1, <1>2, <1>3, <1>4 DEF Next, vars, world

\* A formatter is changed only when nobody writes with it.
LEMMA FormattersLocked ==
  ASSUME BaseInv, [Next]_vars, NEW a \in Appenders, lockA[a] # Nobody
  PROVE  formatter'[a] = formatter[a]
<1>1. formatter \in [Appenders -> Given \cup {NoFormatter}]
  BY DEF BaseInv, TypesInv
<1>2. ASSUME NEW t \in Threads, Add(t)
      PROVE  formatter'[a] = formatter[a]
  BY <1>1, <1>2 DEF Add, Free, config
<1>3. ASSUME NEW t \in Threads, Set(t)
      PROVE  formatter'[a] = formatter[a]
  BY <1>1, <1>3 DEF Set, Free, config
<1>4. ASSUME NEW t \in Threads, Clear(t) \/ Own(t)
      PROVE  formatter'[a] = formatter[a]
  BY <1>1, <1>4 DEF Clear, Own, Free
<1>5. ASSUME NEW t \in Threads, Logging(t)
      PROVE  formatter'[a] = formatter[a]
  BY <1>5 DEF Logging, Enter, Leave, Check, Reopen, Stamp, Lock, Write, Finish, config
<1>6. ASSUME NEW t \in Threads, BeginLog(t) \/ BeginConfig(t)
      PROVE  formatter'[a] = formatter[a]
  BY <1>6 DEF BeginLog, BeginConfig, Begin, config
<1>7. CASE Rotate \/ UNCHANGED vars
  BY <1>7 DEF Rotate, vars, config
<1>8. QED
  BY <1>2, <1>3, <1>4, <1>5, <1>6, <1>7 DEF Next, Step, Configuring

-----------------------------------------------------------------------------
(* Who writes holds the lock.                                              *)

\* Its appender has a formatter, and keeps it.
LockInv ==
  \A t \in Threads :
    pc[t] = "write" => lockA[todo[t][1]] = t /\ formatter[todo[t][1]] # NoFormatter

LEMMA LockStep ==
  ASSUME BaseInv, LockInv, [Next]_vars
  PROVE  LockInv'
<1> SUFFICES ASSUME NEW u \in Threads, pc'[u] = "write"
             PROVE  lockA'[todo'[u][1]] = u /\ formatter'[todo'[u][1]] # NoFormatter
  BY DEF LockInv
<1>1. CASE Lock(u)
  <2>1. todo[u] # <<>> /\ todo[u] \in Seq(Appenders)
    BY <1>1 DEF Lock, Goto, BaseInv, TypesInv, CallInv, InFile, Serving
  <2>2. todo[u][1] \in Appenders
    BY <2>1, FirstOf
  <2>3. formatter[todo[u][1]] # NoFormatter
    BY <1>1 DEF Lock, Goto, Formatting, BaseInv, TypesInv
  <2>4. QED
    BY <1>1, <2>2, <2>3 DEF Lock, BaseInv, TypesInv, config
<1>2. CASE ~Lock(u)
  <2>1. pc[u] = "write" /\ todo'[u] = todo[u]
    BY <1>2, InFileStays DEF Check, Reopen, Stamp, Write, Goto, BaseInv, TypesInv
  <2>2. lockA[todo[u][1]] = u /\ u # Nobody
    BY <2>1, Constants DEF LockInv
  <2>6. formatter'[todo[u][1]] # NoFormatter
    <3>1. todo[u] # <<>> /\ todo[u] \in Seq(Appenders)
      BY <2>1 DEF BaseInv, TypesInv, CallInv, InFile, Serving
    <3>2. todo[u][1] \in Appenders
      BY <3>1, FirstOf
    <3>3. formatter[todo[u][1]] # NoFormatter
      BY <2>1 DEF LockInv
    <3>4. QED
      BY <2>2, <3>2, <3>3, FormattersLocked
  <2>3. ASSUME NEW t \in Threads, Lock(t)
        PROVE  lockA'[todo[u][1]] = u
    BY <2>2, <2>3 DEF Lock, Free, BaseInv, TypesInv
  <2>4. ASSUME NEW t \in Threads, Finish(t)
        PROVE  lockA'[todo[u][1]] = u
    <3>1. t # u
      BY <2>4 DEF Finish, Goto, BaseInv, TypesInv
    <3>2. lockA[todo[t][1]] = t
      BY <2>4 DEF Finish, Goto, LockInv
    <3>3. QED
      BY <2>2, <2>4, <3>1, <3>2 DEF Finish, BaseInv, TypesInv
  <2>5. QED
    BY <2>1, <2>2, <2>3, <2>4, <2>6, LocksChange
<1>3. QED
  BY <1>1, <1>2

-----------------------------------------------------------------------------
(* Rotation.                                                               *)

\* The stream of a is open and its file renamed.
Gone(a) == ~bad[a] /\ open[a] < present

\* m_lastTime is not younger than the rotation of a file that is still
\* written to; an event on its way to that file is not much younger.
TimeInv ==
  /\ \A a \in Files : /\ m_lastTime[a] <= now
                      /\ Gone(a) => m_lastTime[a] <= rotated[open[a]]
  /\ \A t \in Threads, a \in Files :
       /\ todo[t][1] = a /\ Gone(a)
       => /\ pc[t] = "stamp" => call[t].time <= rotated[open[a]]
          /\ pc[t] \in {"lock", "write"} => call[t].time < rotated[open[a]] + Interval

\* reopen() leaves open what it finds open only if it has failed.
LEMMA ReopenCases ==
  ASSUME BaseInv, NEW t \in Threads, Reopen(t), NEW a, a = todo[t][1]
  PROVE  /\ a \in Files /\ UNCHANGED <<present, todo, text>>
         /\ \/ bad[a] /\ UNCHANGED <<open, bad>>
            \/ /\ open' = [open EXCEPT ![a] = present]
               /\ bad' = [bad EXCEPT ![a] = FALSE]
            \/ /\ open' = [open EXCEPT ![a] = 0]
               /\ bad' = [bad EXCEPT ![a] = TRUE]
         /\ lockA[a] = Nobody /\ (bad[a] /\ open[a] # 0 => UNCHANGED <<open, bad>>)
<1>1. a \in Files
  BY DEF Reopen, Goto, BaseInv, CallInv
<1>2. UNCHANGED <<present, todo, text>> /\ lockA[a] = Nobody
  BY DEF Reopen, Free, world
<1>3. CASE bad[a] /\ open[a] # 0
  BY <1>1, <1>2, <1>3 DEF Reopen
<1>4. CASE ~(bad[a] /\ open[a] # 0)
  <2>1. PICK ok \in BOOLEAN : /\ open' = [open EXCEPT ![a] = IF ok THEN present ELSE 0]
                              /\ bad' = [bad EXCEPT ![a] = ~ok]
    BY <1>4 DEF Reopen
  <2>2. CASE ok = TRUE
    BY <1>1, <1>2, <1>4, <2>1, <2>2
  <2>3. CASE ok = FALSE
    BY <1>1, <1>2, <1>4, <2>1, <2>3
  <2>4. QED
    BY <2>2, <2>3
<1>5. QED
  BY <1>3, <1>4

\* The streams after a step, for a file that is gone after it: it was open
\* before, and is the same generation, unless it is the rotation that
\* renamed it.
LEMMA GoneBefore ==
  ASSUME BaseInv, [Next]_vars, NEW a \in Files, Gone(a)'
  PROVE  /\ open'[a] = open[a] /\ ~bad[a] /\ open[a] \in 1..Rotations
         /\ \/ Gone(a) /\ rotated'[open[a]] = rotated[open[a]]
            \/ rotated'[open[a]] = now' /\ Rotate
<1>1. /\ open'[a] = open[a] /\ ~bad[a]
  <2>1. CASE UNCHANGED <<open, bad, text>>
    BY <2>1 DEF Gone
  <2>2. ASSUME NEW t \in Threads, Write(t)
        PROVE  open'[a] = open[a] /\ ~bad[a]
    <3>1. UNCHANGED open
      BY <2>2 DEF Write
    <3>2. bad[a] => bad'[a]
      BY <2>2, WriteCases, ZenonT(60) DEF BaseInv, TypesInv
    <3>3. QED
      BY <3>1, <3>2 DEF Gone
  <2>3. ASSUME NEW t \in Threads, Reopen(t)
        PROVE  open'[a] = open[a] /\ ~bad[a]
    <3>1. open \in [Files -> Nat] /\ bad \in [Files -> BOOLEAN] /\ present \in Nat
      BY DEF BaseInv, TypesInv, Generations
    <3>2. QED
      BY <2>3, <3>1, ReopenCases DEF Gone
  <2>4. QED
    BY <2>1, <2>2, <2>3, StreamsChange
<1>2. open[a] \in Nat /\ present \in 1..(Rotations + 1) /\ 1 <= open[a] /\ open[a] <= present
  BY <1>1 DEF BaseInv, TypesInv, StreamInv, Generations
<1>3. CASE UNCHANGED <<present, rotated>>
  <2>1. Gone(a)
    BY <1>1, <1>3 DEF Gone
  <2>2. open[a] \in 1..Rotations
    BY <1>2, <2>1, Constants DEF Gone
  <2>3. QED
    BY <1>1, <1>3, <2>1, <2>2
<1>4. CASE Rotate
  <2>1. /\ present <= Rotations /\ present' = present + 1
        /\ rotated' = [rotated EXCEPT ![present] = now']
    BY <1>4 DEF Rotate
  <2>2. open[a] \in 1..Rotations
    BY <1>2, <2>1, Constants
  <2>3. CASE open[a] = present
    BY <1>1, <1>4, <2>1, <2>2, <2>3 DEF BaseInv, TypesInv
  <2>4. CASE open[a] # present
    <3>1. Gone(a)
      BY <1>1, <1>2, <2>4 DEF Gone
    <3>2. rotated'[open[a]] = rotated[open[a]]
      BY <2>1, <2>2, <2>4 DEF BaseInv, TypesInv
    <3>3. QED
      BY <1>1, <2>2, <3>1, <3>2
  <2>5. QED
    BY <2>3, <2>4
<1>5. QED
  BY <1>3, <1>4, WorldChanges

LEMMA StampsStep ==
  ASSUME BaseInv, TimeInv, [Next]_vars, NEW a \in Files
  PROVE  m_lastTime'[a] <= now' /\ (Gone(a)' => m_lastTime'[a] <= rotated'[open'[a]])
<1>1. now \in Nat /\ now' \in Nat /\ m_lastTime[a] \in Nat /\ now <= now'
  BY BaseStep, WorldChanges DEF BaseInv, TypesInv
<1>2. CASE UNCHANGED m_lastTime
  <2>1. m_lastTime[a] <= now'
    BY <1>1 DEF TimeInv
  <2>2. ASSUME Gone(a)'
        PROVE  m_lastTime[a] <= rotated'[open'[a]]
    BY <2>1, <2>2, GoneBefore DEF TimeInv
  <2>3. QED
    BY <1>2, <2>1, <2>2
<1>3. ASSUME NEW t \in Threads, Stamp(t)
      PROVE  m_lastTime'[a] <= now' /\ (Gone(a)' => m_lastTime'[a] <= rotated'[open'[a]])
  <2>1. /\ pc[t] = "stamp" /\ UNCHANGED <<open, bad, world>>
        /\ m_lastTime' = [m_lastTime EXCEPT ![todo[t][1]] = call[t].time]
        /\ call[t].time \in Nat /\ call[t].time <= now
    BY <1>3 DEF Stamp, Goto, BaseInv, CallInv, InLog, InFile, Serving
  <2>2. CASE todo[t][1] = a
    <3>1. m_lastTime'[a] = call[t].time
      BY <2>1, <2>2 DEF BaseInv, TypesInv
    <3>2. Gone(a) => call[t].time <= rotated[open[a]]
      BY <2>1, <2>2 DEF TimeInv
    <3>3. QED
      BY <1>1, <2>1, <3>1, <3>2 DEF Gone, world
  <2>3. CASE todo[t][1] # a
    <3>1. m_lastTime'[a] = m_lastTime[a]
      BY <2>1, <2>3 DEF BaseInv, TypesInv
    <3>2. QED
      BY <2>1, <3>1 DEF TimeInv, Gone, world
  <2>4. QED
    BY <2>2, <2>3
<1>4. QED
  BY <1>2, <1>3, StampsChange

LEMMA EventsStep ==
  ASSUME BaseInv, TimeInv, [Next]_vars, NEW u \in Threads, NEW a \in Files,
         todo'[u][1] = a, Gone(a)', pc'[u] \in {"stamp", "lock", "write"}
  PROVE  /\ pc'[u] = "stamp" => call'[u].time <= rotated'[open'[a]]
         /\ pc'[u] \in {"lock", "write"} =>
              call'[u].time < rotated'[open'[a]] + Interval
<1> USE Constants
<1>1. /\ open'[a] = open[a] /\ open[a] \in 1..Rotations
      /\ \/ Gone(a) /\ rotated'[open[a]] = rotated[open[a]]
         \/ rotated'[open[a]] = now' /\ Rotate
      /\ rotated[open[a]] \in Nat /\ rotated'[open[a]] \in Nat
  BY GoneBefore, BaseStep DEF BaseInv, TypesInv
<1>2. CASE Check(u)
  <2>1. /\ UNCHANGED <<call, world, todo>> /\ pc[u] = "next" /\ pc'[u] = "lock"
        /\ ~(call[u].time >= m_lastTime[a] + Interval)
    <3>1. pc'[u] \in {"next", "reopen", "lock"}
      BY <1>2 DEF Check, Goto, BaseInv, TypesInv
    <3>2. pc'[u] = "lock"
      BY <3>1
    <3>3. UNCHANGED todo
      BY <1>2, <3>2 DEF Check, Goto, BaseInv, TypesInv
    <3>4. ~(call[u].time >= m_lastTime[a] + Interval)
      BY <1>2, <3>2, <3>3 DEF Check, Goto, BaseInv, TypesInv
    <3>5. QED
      BY <1>2, <3>2, <3>3, <3>4 DEF Check
  <2>2. Gone(a) /\ rotated'[open[a]] = rotated[open[a]]
    BY <1>1, <1>2, <2>1 DEF Rotate, threads
  <2>3. m_lastTime[a] <= rotated[open[a]] /\ m_lastTime[a] \in Nat
    BY <2>2 DEF TimeInv, BaseInv, TypesInv
  <2>4. call[u].time \in Nat
    BY <2>1 DEF BaseInv, CallInv, InLog
  <2>5. call[u].time < rotated[open[a]] + Interval
    BY <1>1, <2>1, <2>3, <2>4
  <2>6. QED
    BY <1>1, <2>1, <2>2, <2>5
<1>3. CASE Reopen(u)
  <2>1. UNCHANGED <<present, todo>> /\ todo[u][1] = a
    BY <1>3 DEF Reopen, world
  <2>2. open \in [Files -> Nat] /\ bad \in [Files -> BOOLEAN] /\ present \in Nat
    BY DEF BaseInv, TypesInv, Generations
  <2>3. ~Gone(a)'
    BY <1>3, <2>1, <2>2, ReopenCases DEF Gone
  <2>4. QED
    BY <2>3
<1>4. CASE Stamp(u)
  <2>1. /\ UNCHANGED <<call, world, todo, open, bad>> /\ pc[u] = "stamp" /\ pc'[u] = "lock"
        /\ call[u].time \in Nat
    BY <1>4 DEF Stamp, Goto, BaseInv, TypesInv, CallInv, InLog, InFile, Serving
  <2>2. Gone(a) /\ call[u].time <= rotated[open[a]]
    BY <2>1 DEF TimeInv, Gone, world
  <2>3. QED
    BY <1>1, <2>1, <2>2 DEF world
<1>5. CASE Lock(u)
  <2>1. /\ UNCHANGED <<call, world, todo, open, bad>> /\ pc[u] = "lock" /\ pc'[u] = "write"
    <3>1. pc[u] = "lock" /\ pc' = [pc EXCEPT ![u] = Formatting(todo[u][1])]
      BY <1>5 DEF Lock, Goto
    <3>2. pc'[u] = "write"
      BY <3>1 DEF Formatting, BaseInv, TypesInv
    <3>3. QED
      BY <1>5, <3>1, <3>2 DEF Lock, streams
  <2>2. Gone(a) /\ call[u].time < rotated[open[a]] + Interval
    BY <2>1 DEF TimeInv, Gone, world
  <2>3. QED
    BY <1>1, <2>1, <2>2 DEF world
<1>6. CASE pc'[u] = pc[u] /\ todo'[u] = todo[u] /\ call'[u] = call[u]
  <2>1. CASE Gone(a) /\ rotated'[open[a]] = rotated[open[a]]
    BY <1>1, <1>6, <2>1 DEF TimeInv
  <2>2. CASE rotated'[open[a]] = now' /\ Rotate
    <3>1. call[u].time \in Nat /\ call[u].time <= now
      BY <1>6 DEF BaseInv, CallInv, InLog, InFile, Serving
    <3>2. now <= now' /\ now \in Nat /\ now' \in Nat
      BY WorldChanges, BaseStep DEF BaseInv, TypesInv
    <3>3. call[u].time <= now' /\ call[u].time < now' + Interval
      BY <3>1, <3>2
    <3>4. QED
      BY <1>1, <1>6, <2>2, <3>3
  <2>3. QED
    BY <1>1, <2>1, <2>2
<1>7. CASE Write(u)
  <2>1. UNCHANGED <<pc, todo, call>>
    BY <1>7 DEF Write
  <2>2. QED
    BY <1>6, <2>1
<1>8. QED
  BY <1>2, <1>3, <1>4, <1>5, <1>6, <1>7, InFileStays

LEMMA TimeStep ==
  ASSUME BaseInv, TimeInv, [Next]_vars
  PROVE  TimeInv'
BY StampsStep, EventsStep DEF TimeInv

-----------------------------------------------------------------------------
(* Lines.                                                                  *)

Writing(a) == \E t \in Threads : pc[t] = "write" /\ todo[t][1] = a

\* The last line in a file is complete.
Complete(a, g) ==
  text[a][g] = <<>> \/ Last(text[a][g]).k = Last(text[a][g]).of

\* The cells of a file are in order.
InOrder(s) ==
  /\ Len(s) <= 2
  /\ \A i \in 1..Len(s) : 1 <= s[i].k /\ s[i].k <= s[i].of /\ s[i].late = FALSE
  /\ Len(s) = 1 => s[1].k = 1
  /\ Len(s) = 2 => IF s[2].k = 1 THEN s[1].k = s[1].of
                   ELSE s[2] = [s[1] EXCEPT !.k = @ + 1]

ShapeInv == \A a \in Appenders, g \in Generations : InOrder(text[a][g])

\* A line that is not complete is being written, or was cut by a failure of
\* the stream, which then takes nothing more.
CompleteInv ==
  \A a \in Appenders, g \in Generations :
    Complete(a, g) \/ (g = Generation(a) /\ (Failed(a) \/ Writing(a)))

\* How far a writer is.
ProgressInv ==
  \A t \in Threads, a \in Appenders :
    /\ pc[t] = "write" /\ todo[t][1] = a /\ ~Failed(a)
    => /\ item[t] >= 1
       /\ item[t] = 1 => Complete(a, Generation(a))
       /\ item[t] > 1 =>
            /\ text[a][Generation(a)] # <<>>
            /\ Last(text[a][Generation(a)]) =
                 [line |-> t, k |-> item[t] - 1, of |-> Len(ItemsOf(a)), late |-> FALSE]

WholeInv == LockInv /\ TimeInv /\ ShapeInv /\ CompleteInv /\ ProgressInv

LEMMA RecentCases ==
  ASSUME NEW S, NEW s \in Seq(S), Len(s) <= 2, NEW c \in S, NEW r,
         r = Recent(Append(s, c))
  PROVE  /\ r # <<>> /\ Len(r) <= 2 /\ Last(r) = c /\ Len(r) \in Nat
         /\ s = <<>> => Len(r) = 1 /\ r[1] = c
         /\ s # <<>> => Len(r) = 2 /\ r[1] = Last(s) /\ r[2] = c
<1> DEFINE l == Append(s, c)
<1>1. /\ l \in Seq(S) /\ Len(l) = Len(s) + 1 /\ l[Len(s) + 1] = c /\ Len(s) \in Nat
      /\ \A i \in 1..Len(s) : l[i] = s[i]
  BY AppendProperties
<1>2. s = <<>> <=> Len(s) = 0
  BY EmptySeq
<1>3. CASE Len(s) = 0
  <2>1. r = l
    BY <1>1, <1>3 DEF Recent
  <2>2. Len(r) = 1 /\ r[1] = c
    BY <1>1, <1>3, <2>1
  <2>3. r # <<>>
    BY <1>1, <2>1, <2>2, EmptySeq
  <2>4. QED
    BY <1>2, <1>3, <2>2, <2>3 DEF Last
<1>4. CASE Len(s) = 1
  <2>1. r = l
    BY <1>1, <1>4 DEF Recent
  <2>2. Len(r) = 2 /\ r[1] = s[1] /\ r[2] = c
    BY <1>1, <1>4, <2>1
  <2>3. r # <<>>
    BY <1>1, <2>1, <2>2, EmptySeq
  <2>4. QED
    BY <1>2, <1>4, <2>2, <2>3 DEF Last
<1>5. CASE Len(s) = 2
  <2>1. r = Tail(l) /\ l # <<>>
    BY <1>1, <1>5 DEF Recent
  <2>2. Len(r) = 2 /\ \A i \in 1..2 : r[i] = l[i + 1]
    BY <1>1, <1>5, <2>1, HeadTailProperties
  <2>3. r[1] = s[2] /\ r[2] = c
    BY <1>1, <1>5, <2>2
  <2>4. r # <<>>
    BY <1>1, <2>1, <2>2, HeadTailProperties, EmptySeq, SMTT(30)
  <2>5. QED
    BY <1>2, <1>5, <2>2, <2>3, <2>4 DEF Last
<1>6. \A n \in Nat : n <= 2 => n = 0 \/ n = 1 \/ n = 2
  OBVIOUS
<1>7. Len(s) = 0 \/ Len(s) = 1 \/ Len(s) = 2
  BY <1>1, <1>6, Zenon
<1>8. QED
  BY <1>3, <1>4, <1>5, <1>7

\* The cell a writer writes belongs where it writes it: the file is not one
\* that was renamed Interval seconds before the event.
LEMMA CellIs ==
  ASSUME BaseInv, TimeInv, NEW t \in Threads, NEW a \in Appenders,
         pc[t] = "write", todo[t][1] = a, ~Failed(a)
  PROVE  Cell(t, a) = [line |-> t, k |-> item[t], of |-> Len(ItemsOf(a)), late |-> FALSE]
<1>1. Late(t, a) = FALSE
  <2>1. CASE a \notin Files
    BY <2>1 DEF Late
  <2>2. CASE a \in Files
    <3>1. Generation(a) = open[a]
      BY <2>2, Constants DEF Generation
    <3>2. CASE ~(open[a] < present)
      BY <3>1, <3>2 DEF Late
    <3>3. CASE open[a] < present
      <4>1. Gone(a)
        BY <2>2, <3>3 DEF Gone, Failed
      <4>2. call[t].time < rotated[open[a]] + Interval
        BY <2>2, <4>1 DEF TimeInv
      <4>3. open[a] \in 1..Rotations
        BY <2>2, <4>1, Constants DEF Gone, BaseInv, TypesInv, StreamInv, Generations
      <4>4. call[t].time \in Nat /\ rotated[open[a]] \in Nat
        BY <4>3 DEF BaseInv, TypesInv, CallInv, InLog, InFile, Serving
      <4>5. ~(call[t].time >= rotated[open[a]] + Interval)
        BY <4>2, <4>4, Constants
      <4>6. QED
        BY <3>1, <4>5 DEF Late
    <3>4. QED
      BY <3>2, <3>3
  <2>3. QED
    BY <2>1, <2>2
<1>2. QED
  BY <1>1 DEF Cell

\* A writer writes on, finishes, or stays where it is.
LEMMA WriterStays ==
  ASSUME BaseInv, [Next]_vars, NEW t \in Threads, pc[t] = "write"
  PROVE  \/ Write(t) \/ Finish(t)
         \/ pc'[t] = "write" /\ todo'[t] = todo[t] /\ item'[t] = item[t]
<1>1. CASE UNCHANGED vars \/ Rotate
  BY <1>1 DEF vars, Rotate, threads
<1>2. ASSUME NEW u \in Threads, BeginLog(u) \/ BeginConfig(u) \/ Step(u), u # t
      PROVE  pc'[t] = "write" /\ todo'[t] = todo[t] /\ item'[t] = item[t]
  BY <1>2, RestStays
<1>3. ~BeginLog(t) /\ ~BeginConfig(t)
  BY BeginProper DEF Begin, Goto
<1>4. ~Configuring(t)
  BY DEF Configuring, Add, Set, Clear, Own, Return, Goto
<1>5. ~(Enter(t) \/ Leave(t) \/ Check(t) \/ Reopen(t) \/ Stamp(t) \/ Lock(t))
  BY DEF Enter, Leave, Check, Reopen, Stamp, Lock, Return, Goto
<1>6. QED
  BY <1>1, <1>2, <1>3, <1>4, <1>5 DEF Next, Step, Logging

\* While one thread writes nobody else touches the stream or the formatter.
LEMMA StreamKept ==
  ASSUME BaseInv, LockInv, [Next]_vars, NEW t \in Threads, NEW a \in Appenders,
         pc[t] = "write", todo[t][1] = a, ~Write(t)
  PROVE  /\ text'[a] = text[a] /\ formatter'[a] = formatter[a]
         /\ a \in Files => open'[a] = open[a] /\ bad'[a] = bad[a]
<1>1. lockA[a] = t /\ t # Nobody
  BY Constants DEF LockInv
<1>2. formatter'[a] = formatter[a]
  BY <1>1, FormattersLocked
<1>3. ASSUME NEW u \in Threads, Write(u)
      PROVE  /\ text'[a] = text[a]
             /\ a \in Files => open'[a] = open[a] /\ bad'[a] = bad[a]
  <2>1. u # t /\ pc[u] = "write"
    BY <1>3 DEF Write
  <2>2. todo[u][1] # a
    BY <1>1, <2>1 DEF LockInv
  <2>3. UNCHANGED open
    BY <1>3 DEF Write
  <2>4. text'[a] = text[a]
    BY <1>3, <2>2 DEF Write, BaseInv, TypesInv
  <2>5. a \in Files => bad'[a] = bad[a]
    BY <1>3, <2>2 DEF Write, BaseInv, TypesInv
  <2>6. QED
    BY <2>3, <2>4, <2>5
<1>4. ASSUME NEW u \in Threads, Reopen(u)
      PROVE  /\ text'[a] = text[a]
             /\ a \in Files => open'[a] = open[a] /\ bad'[a] = bad[a]
  <2>1. todo[u][1] # a
    BY <1>1, <1>4, ReopenCases
  <2>2. /\ UNCHANGED text
        /\ \/ UNCHANGED <<open, bad>>
           \/ \E x, y : /\ open' = [open EXCEPT ![todo[u][1]] = x]
                        /\ bad' = [bad EXCEPT ![todo[u][1]] = y]
    BY <1>4, ReopenCases
  <2>3. QED
    BY <2>1, <2>2 DEF BaseInv, TypesInv
<1>5. QED
  BY <1>2, <1>3, <1>4, StreamsChange

\* What a write adds to the file of its appender.
LEMMA WriteAdds ==
  ASSUME BaseInv, WholeInv, NEW t \in Threads, Write(t), NEW a, a = todo[t][1]
  PROVE  /\ a \in Appenders /\ ~Failed(a) /\ Generation(a) \in Generations
         /\ item[t] \in Nat /\ 1 <= item[t] /\ item[t] <= Len(ItemsOf(a))
         /\ Len(ItemsOf(a)) \in Nat
         /\ \A b \in Appenders, g \in Generations :
              text'[b][g] = text[b][g]
              \/ /\ b = a /\ g = Generation(a) /\ item'[t] = item[t] + 1
                 /\ UNCHANGED bad
                 /\ text'[b][g] =
                      Recent(Append(text[b][g],
                                    [line |-> t, k |-> item[t],
                                     of |-> Len(ItemsOf(a)), late |-> FALSE]))
<1>1. a \in Appenders /\ ~Failed(a) /\ item[t] <= Len(ItemsOf(a)) /\ pc[t] = "write"
  BY WriteCases
<1>2. Generation(a) \in Generations
  BY <1>1, GenerationType
<1>3. item[t] \in Nat /\ item[t] >= 1
  BY <1>1 DEF BaseInv, TypesInv, WholeInv, ProgressInv
<1>4. Len(ItemsOf(a)) \in Nat
  BY <1>1, GivenFormatters DEF ItemsOf, BaseInv, TypesInv
<1>5. Cell(t, a) = [line |-> t, k |-> item[t], of |-> Len(ItemsOf(a)), late |-> FALSE]
  BY <1>1, CellIs DEF WholeInv
<1>6. item'[t] = item[t] + 1
  BY DEF Write, BaseInv, TypesInv
<1>7. ASSUME NEW b \in Appenders, NEW g \in Generations, text'[b][g] # text[b][g]
      PROVE  /\ b = a /\ g = Generation(a) /\ UNCHANGED bad
             /\ text'[b][g] = Recent(Append(text[b][g], Cell(t, a)))
  <2>1. /\ text' = [text EXCEPT ![a][Generation(a)] = Recent(Append(@, Cell(t, a)))]
        /\ UNCHANGED bad
    BY <1>7, WriteCases
  <2>2. QED
    BY <1>1, <1>2, <1>7, <2>1 DEF BaseInv, TypesInv
<1>8. QED
  BY <1>1, <1>2, <1>3, <1>4, <1>5, <1>6, <1>7, ZenonT(60)

\* It adds to the present generation of that file only.
LEMMA WriteOnly ==
  ASSUME BaseInv, NEW t \in Threads, Write(t), NEW a \in Appenders, NEW g \in Generations,
         text'[a][g] # text[a][g]
  PROVE  a = todo[t][1] /\ g = Generation(a)
<1>1. PICK b : b = todo[t][1]
  OBVIOUS
<1>2. text' = [text EXCEPT ![b][Generation(b)] = Recent(Append(@, Cell(t, b)))]
  BY <1>1, WriteCases
<1>3. QED
  BY <1>1, <1>2 DEF BaseInv, TypesInv

\* A file changes by a write only.
LEMMA TextChanges ==
  ASSUME BaseInv, [Next]_vars
  PROVE  UNCHANGED text \/ \E t \in Threads : Write(t)
BY StreamsChange, ReopenCases

LEMMA NextCell ==
  ASSUME NEW c \in Cells, NEW d \in Cells,
         c.line = d.line, c.of = d.of, c.late = d.late, c.k = d.k + 1
  PROVE  c = [d EXCEPT !.k = @ + 1]
BY DEF Cells

LEMMA ShapeStep ==
  ASSUME BaseInv, WholeInv, [Next]_vars
  PROVE  ShapeInv'
<1> SUFFICES ASSUME NEW a \in Appenders, NEW g \in Generations
             PROVE  InOrder(text[a][g])'
  BY DEF ShapeInv
<1>0. CASE text'[a][g] = text[a][g]
  BY <1>0 DEF WholeInv, ShapeInv, InOrder
<1> SUFFICES ASSUME text'[a][g] # text[a][g]
             PROVE  InOrder(text'[a][g])
  BY <1>0 DEF InOrder
<1>1. PICK t \in Threads : Write(t)
  BY TextChanges
<1> DEFINE s == text[a][g]
           r == text'[a][g]
           c == [line |-> t, k |-> item[t], of |-> Len(ItemsOf(a)), late |-> FALSE]
<1>2. /\ a = todo[t][1] /\ ~Failed(a) /\ g = Generation(a)
      /\ item[t] \in Nat /\ 1 <= item[t] /\ item[t] <= Len(ItemsOf(a))
      /\ Len(ItemsOf(a)) \in Nat /\ r = Recent(Append(s, c))
  <2>1. a = todo[t][1] /\ g = Generation(a)
    BY <1>1, WriteOnly
  <2>2. QED
    BY <1>1, <2>1, WriteAdds
<1>3. c \in Cells /\ s \in Seq(Cells) /\ Len(s) <= 2
  BY <1>2, ZenonT(60) DEF Cells, BaseInv, TypesInv, WholeInv, ShapeInv, InOrder
<1>4. /\ Len(r) <= 2 /\ Len(r) \in Nat
      /\ s = <<>> => Len(r) = 1 /\ r[1] = c
      /\ s # <<>> => Len(r) = 2 /\ r[1] = Last(s) /\ r[2] = c
  BY <1>2, <1>3, RecentCases
<1>5. c.k = item[t] /\ c.of = Len(ItemsOf(a)) /\ c.late = FALSE /\ 1 <= c.k /\ c.k <= c.of
  BY <1>2
<1>6. /\ item[t] = 1 => Complete(a, g)
      /\ item[t] > 1 => /\ s # <<>>
                        /\ Last(s) = [line |-> t, k |-> item[t] - 1,
                                      of |-> Len(ItemsOf(a)), late |-> FALSE]
  BY <1>1, <1>2 DEF Write, WholeInv, ProgressInv
<1>7. CASE s = <<>>
  <2>1. item[t] = 1
    BY <1>2, <1>6, <1>7
  <2>2. \A i \in 1..Len(r) : r[i] = c
    BY <1>4, <1>7
  <2>3. QED
    BY <1>4, <1>5, <1>7, <2>1, <2>2 DEF InOrder
<1>8. CASE s # <<>>
  <2>1. /\ Len(s) \in 1..Len(s) /\ Last(s) = s[Len(s)]
    BY <1>3, <1>8, EmptySeq DEF Last
  <2>2. 1 <= Last(s).k /\ Last(s).k <= Last(s).of /\ Last(s).late = FALSE
    <3>1. InOrder(s)
      BY DEF WholeInv, ShapeInv
    <3>2. QED
      BY <2>1, <3>1 DEF InOrder
  <2>3. \A i \in 1..Len(r) : r[i] = Last(s) \/ r[i] = c
    BY <1>4, <1>8
  <2>4. IF r[2].k = 1 THEN r[1].k = r[1].of ELSE r[2] = [r[1] EXCEPT !.k = @ + 1]
    <3>1. CASE item[t] = 1
      BY <1>4, <1>5, <1>6, <1>8, <3>1 DEF Complete
    <3>2. CASE item[t] > 1
      <4>1. (item[t] - 1) + 1 = item[t] /\ item[t] # 1
        BY <1>2, <3>2
      <4> DEFINE d == [line |-> t, k |-> item[t] - 1, of |-> Len(ItemsOf(a)),
                       late |-> FALSE]
      <4>2. c = [Last(s) EXCEPT !.k = @ + 1]
        <5>1. Last(s) = d
          BY <1>6, <3>2
        <5>2. d \in Cells
          BY <1>2, <3>2 DEF Cells
        <5>3. /\ c.line = d.line /\ c.of = d.of /\ c.late = d.late
              /\ c.k = d.k + 1
          BY <4>1
        <5>4. QED
          BY <1>3, <5>1, <5>2, <5>3, NextCell
      <4>3. QED
        BY <1>4, <1>5, <1>8, <4>1, <4>2
    <3>3. item[t] = 1 \/ item[t] > 1
      BY <1>2
    <3>4. QED
      BY <3>1, <3>2, <3>3
  <2>5. \A i \in 1..Len(r) : 1 <= r[i].k /\ r[i].k <= r[i].of /\ r[i].late = FALSE
    BY <1>5, <2>2, <2>3
  <2>6. Len(r) = 2
    BY <1>4, <1>8
  <2>7. QED
    BY <2>4, <2>5, <2>6 DEF InOrder
<1>9. QED
  BY <1>7, <1>8

\* The stream of an appender somebody writes with is the one it was.
LEMMA KeptMeans ==
  ASSUME NEW a \in Appenders,
         a \in Files => open'[a] = open[a] /\ bad'[a] = bad[a]
  PROVE  Generation(a)' = Generation(a) /\ Failed(a)' = Failed(a)
BY DEF Appenders, Generation, Failed

LEMMA ProgressStep ==
  ASSUME BaseInv, WholeInv, [Next]_vars
  PROVE  ProgressInv'
<1> SUFFICES ASSUME NEW t \in Threads, NEW a \in Appenders,
                    pc'[t] = "write", todo'[t][1] = a, ~Failed(a)'
             PROVE  /\ item'[t] >= 1
                    /\ item'[t] = 1 => Complete(a, Generation(a))'
                    /\ item'[t] > 1 =>
                         /\ text'[a][Generation(a)'] # <<>>
                         /\ Last(text'[a][Generation(a)']) =
                              [line |-> t, k |-> item'[t] - 1,
                               of |-> Len(ItemsOf(a))', late |-> FALSE]
  BY DEF ProgressInv
<1>1. CASE Lock(t)
  <2>1. /\ lockA[a] = Nobody /\ item'[t] = 1 /\ todo[t][1] = a
        /\ UNCHANGED <<text, open, bad>>
    BY <1>1 DEF Lock, Free, BaseInv, TypesInv, streams
  <2>2. Generation(a)' = Generation(a) /\ Failed(a)' = Failed(a)
    BY <2>1, KeptMeans
  <2>3. ~Writing(a)
    BY <2>1, Constants DEF Writing, WholeInv, LockInv
  <2>4. Generation(a) \in Generations
    BY <2>2, GenerationType
  <2>5. Complete(a, Generation(a))
    BY <2>2, <2>3, <2>4 DEF WholeInv, CompleteInv
  <2>6. Complete(a, Generation(a))'
    BY <2>1, <2>2, <2>5 DEF Complete
  <2>7. QED
    BY <2>1, <2>6
<1>2. CASE Write(t)
  <2>1. UNCHANGED <<open, config, todo>> /\ todo[t][1] = a
    BY <1>2 DEF Write
  <2>2. Generation(a)' = Generation(a) /\ ItemsOf(a)' = ItemsOf(a)
    BY <2>1 DEF Generation, ItemsOf, config
  <2>3. /\ ~Failed(a) /\ Generation(a) \in Generations /\ item[t] \in Nat /\ item[t] >= 1
        /\ item'[t] = item[t] + 1 /\ Len(ItemsOf(a)) \in Nat
    BY <1>2, <2>1, WriteAdds DEF Write, BaseInv, TypesInv
  <2> DEFINE s == text[a][Generation(a)]
             r == text'[a][Generation(a)]
             c == [line |-> t, k |-> item[t], of |-> Len(ItemsOf(a)), late |-> FALSE]
  <2>4. r = Recent(Append(s, c))
    <3>1. text' = [text EXCEPT ![a][Generation(a)] = Recent(Append(@, Cell(t, a)))]
      <4>1. ~(a \in Files /\ bad' = [bad EXCEPT ![a] = TRUE])
        BY DEF Failed, BaseInv, TypesInv
      <4>2. QED
        BY <1>2, <2>1, <4>1, WriteCases
    <3>2. Cell(t, a) = c
      BY <1>2, <2>1, <2>3, CellIs DEF Write, WholeInv
    <3>3. QED
      BY <2>3, <3>1, <3>2 DEF BaseInv, TypesInv
  <2>5. c \in Cells /\ s \in Seq(Cells) /\ Len(s) <= 2
    BY <2>3, ZenonT(60) DEF Cells, BaseInv, TypesInv, WholeInv, ShapeInv, InOrder
  <2>6. r # <<>> /\ Last(r) = c
    BY <2>4, <2>5, RecentCases
  <2>7. item'[t] > 1 /\ item'[t] >= 1 /\ item'[t] # 1 /\ item'[t] - 1 = item[t]
    BY <2>3
  <2>8. Last(text'[a][Generation(a)']) =
          [line |-> t, k |-> item'[t] - 1, of |-> Len(ItemsOf(a))', late |-> FALSE]
    BY <2>2, <2>6, <2>7
  <2>9. text'[a][Generation(a)'] # <<>>
    BY <2>2, <2>6
  <2>10. QED
    BY <2>7, <2>8, <2>9
<1>3. CASE ~Lock(t) /\ ~Write(t)
  <2>1. pc[t] = "write" /\ todo'[t] = todo[t] /\ item'[t] = item[t]
    BY <1>3, InFileStays DEF Check, Reopen, Stamp, Goto, BaseInv, TypesInv
  <2>2. /\ text'[a] = text[a] /\ formatter'[a] = formatter[a]
        /\ a \in Files => open'[a] = open[a] /\ bad'[a] = bad[a]
    BY <1>3, <2>1, StreamKept DEF WholeInv
  <2>3. Generation(a)' = Generation(a) /\ Failed(a)' = Failed(a) /\ ItemsOf(a)' = ItemsOf(a)
    BY <2>2, KeptMeans DEF ItemsOf
  <2>4. /\ item[t] >= 1
        /\ item[t] = 1 => Complete(a, Generation(a))
        /\ item[t] > 1 =>
             /\ text[a][Generation(a)] # <<>>
             /\ Last(text[a][Generation(a)]) =
                  [line |-> t, k |-> item[t] - 1, of |-> Len(ItemsOf(a)), late |-> FALSE]
    BY <2>1, <2>3 DEF WholeInv, ProgressInv
  <2>5. Complete(a, Generation(a)) => Complete(a, Generation(a))'
    BY <2>2, <2>3 DEF Complete
  <2>6. QED
    BY <2>1, <2>2, <2>3, <2>4, <2>5
<1>4. QED
  BY <1>1, <1>2, <1>3

LEMMA CompleteStep ==
  ASSUME BaseInv, WholeInv, [Next]_vars
  PROVE  CompleteInv'
<1> SUFFICES ASSUME NEW a \in Appenders, NEW g \in Generations, ~Complete(a, g)'
             PROVE  /\ g = Generation(a)'
                    /\ Failed(a)' \/ Writing(a)'
  BY DEF CompleteInv
<1>1. ASSUME NEW t \in Threads, Write(t), todo[t][1] = a, g = Generation(a)
      PROVE  g = Generation(a)' /\ Writing(a)'
  BY <1>1 DEF Write, Generation, Writing
<1>2. CASE text'[a][g] # text[a][g]
  <2>1. PICK t \in Threads : Write(t)
    BY <1>2, TextChanges
  <2>2. a = todo[t][1] /\ g = Generation(a)
    BY <1>2, <2>1, WriteOnly
  <2>3. QED
    BY <1>1, <2>1, <2>2
<1>3. CASE text'[a][g] = text[a][g]
  <2>1. g = Generation(a) /\ (Failed(a) \/ Writing(a))
    BY <1>3 DEF Complete, WholeInv, CompleteInv
  <2>2. CASE Failed(a)
    <3>1. a \in Files /\ bad[a] /\ open[a] = g /\ g # 0
      BY <2>1, <2>2, Constants DEF Failed, Generation, Generations
    <3>2. open'[a] = open[a] /\ bad'[a]
      <4>1. ASSUME NEW t \in Threads, Write(t)
            PROVE  open'[a] = open[a] /\ bad'[a]
        BY <3>1, <4>1 DEF Write, BaseInv, TypesInv
      <4>2. ASSUME NEW t \in Threads, Reopen(t)
            PROVE  open'[a] = open[a] /\ bad'[a]
        <5>1. CASE todo[t][1] = a
          BY <3>1, <4>2, <5>1, ReopenCases
        <5>2. CASE todo[t][1] # a
          BY <3>1, <4>2, <5>2, ReopenCases, ZenonT(60) DEF BaseInv, TypesInv
        <5>3. QED
          BY <5>1, <5>2
      <4>3. QED
        BY <3>1, <4>1, <4>2, StreamsChange
    <3>3. QED
      BY <3>1, <3>2, Constants DEF Failed, Generation
  <2>3. CASE ~Failed(a)
    <3>1. PICK t \in Threads : pc[t] = "write" /\ todo[t][1] = a
      BY <2>1, <2>3 DEF Writing
    <3>2. CASE Write(t)
      BY <1>1, <2>1, <3>1, <3>2
    <3>3. CASE ~Write(t)
      <4>1. /\ text'[a] = text[a] /\ formatter'[a] = formatter[a]
            /\ a \in Files => open'[a] = open[a] /\ bad'[a] = bad[a]
        BY <3>1, <3>3, StreamKept DEF WholeInv
      <4>2. Generation(a)' = Generation(a)
        BY <4>1, KeptMeans
      <4>3. ~Finish(t)
        <5> SUFFICES ASSUME Finish(t)
                     PROVE  FALSE
          OBVIOUS
        <5>1. item[t] > Len(ItemsOf(a))
          BY <2>3, <3>1 DEF Finish
        <5>2. item[t] \in Nat /\ Len(ItemsOf(a)) \in Nat /\ item[t] >= 1
          BY <2>3, <3>1, GivenFormatters
             DEF ItemsOf, BaseInv, TypesInv, WholeInv, ProgressInv
        <5>3. ~Complete(a, g)
          BY <1>3 DEF Complete
        <5>4. /\ item[t] = 1 => Complete(a, g)
              /\ item[t] > 1 => /\ text[a][g] # <<>>
                                /\ Last(text[a][g]).k = item[t] - 1
                                /\ Last(text[a][g]).of = Len(ItemsOf(a))
          <6>1. item[t] > 1 =>
                  /\ text[a][g] # <<>>
                  /\ Last(text[a][g]) = [line |-> t, k |-> item[t] - 1,
                                         of |-> Len(ItemsOf(a)), late |-> FALSE]
            BY <2>1, <2>3, <3>1 DEF WholeInv, ProgressInv
          <6>2. item[t] = 1 => Complete(a, g)
            BY <2>1, <2>3, <3>1 DEF WholeInv, ProgressInv
          <6>3. QED
            BY <6>1, <6>2
        <5>5. item[t] > 1
          BY <5>2, <5>3, <5>4
        <5>6. InOrder(text[a][g]) /\ text[a][g] \in Seq(Cells) /\ text[a][g] # <<>>
          BY <5>4, <5>5 DEF WholeInv, ShapeInv, BaseInv, TypesInv
        <5>7. Last(text[a][g]).k <= Last(text[a][g]).of
          BY <5>6, EmptySeq DEF InOrder, Last
        <5>8. item[t] - 1 = Len(ItemsOf(a))
          BY <5>1, <5>2, <5>4, <5>5, <5>7
        <5>9. QED
          BY <5>3, <5>4, <5>5, <5>8 DEF Complete
      <4>4. pc'[t] = "write" /\ todo'[t] = todo[t]
        BY <3>1, <3>3, <4>3, WriterStays
      <4>5. QED
        BY <2>1, <3>1, <4>2, <4>4 DEF Writing
    <3>4. QED
      BY <3>2, <3>3
  <2>4. QED
    BY <2>2, <2>3
<1>4. QED
  BY <1>2, <1>3

LEMMA InitWhole == Init => WholeInv
<1> SUFFICES ASSUME Init
             PROVE  WholeInv
  OBVIOUS
<1>1. /\ \A t \in Threads : pc[t] = "idle"
      /\ \A a \in Files : open[a] = 1 /\ m_lastTime[a] = 0
      /\ present = 1 /\ now = Interval
  BY DEF Init
<1>2. \A a \in Appenders, g \in Generations : text[a][g] = <<>>
  BY DEF Init, Generations
<1>3. LockInv /\ ProgressInv
  BY <1>1 DEF LockInv, ProgressInv
<1>4. TimeInv
  BY <1>1, Constants DEF TimeInv, Gone
<1>5. InOrder(<<>>)
  BY EmptySeq DEF InOrder
<1>6. ShapeInv /\ CompleteInv
  BY <1>2, <1>5 DEF ShapeInv, CompleteInv, Complete
<1>7. QED
  BY <1>3, <1>4, <1>6 DEF WholeInv

LEMMA WholeStep ==
  ASSUME BaseInv, WholeInv, [Next]_vars
  PROVE  WholeInv'
<1>1. LockInv' /\ TimeInv'
  BY LockStep, TimeStep DEF WholeInv
<1>2. ShapeInv' /\ CompleteInv' /\ ProgressInv'
  BY ShapeStep, CompleteStep, ProgressStep
<1>3. QED
  BY <1>1, <1>2 DEF WholeInv

LEMMA Inductive == Spec => [](BaseInv /\ WholeInv)
<1>1. Init => BaseInv /\ WholeInv
  BY InitBase, InitWhole
<1>2. BaseInv /\ WholeInv /\ [Next]_vars => (BaseInv /\ WholeInv)'
  BY BaseStep, WholeStep
<1>3. QED
  BY <1>1, <1>2, PTL DEF Spec

\* The items of a line stand together, in order, in every file; a formatter does
\* not go while a line is written with it, and no line reaches an appender
\* without one unless setFormatter was given a null pointer before: for any number of threads,
\* loggers, appenders and lines, and whatever the streams do.
THEOREM LinesStayWhole == Spec => []LinesWhole
<1>1. BaseInv /\ WholeInv => LinesWhole
  <2> SUFFICES ASSUME BaseInv, WholeInv
               PROVE  LinesWhole
    OBVIOUS
  <2>1. ASSUME NEW a \in Appenders, NEW g \in 1..(Rotations + 1)
        PROVE  InOrder(text[a][g])
    BY DEF WholeInv, ShapeInv, Generations
  <2>2. ASSUME NEW t \in Threads
        PROVE  /\ pc[t] = "write" => formatter[todo[t][1]] # NoFormatter
               /\ pc[t] = "crash" => todo[t][1] \in MayLack
    BY DEF BaseInv, CallInv, WholeInv, LockInv
  <2>3. QED
    BY <2>1, <2>2 DEF LinesWhole, InOrder
<1>2. QED
  BY <1>1, Inductive, PTL

\* A renamed file gets no line whose event came Interval seconds or more after
\* it was renamed, however many threads log and rotate.
THEOREM RotationsNoticed == Spec => []RotationNoticed
<1>1. BaseInv /\ WholeInv => RotationNoticed
  <2> SUFFICES ASSUME WholeInv, NEW a \in Files, NEW g \in 1..(Rotations + 1),
                      NEW i \in 1..Len(text[a][g])
               PROVE  ~text[a][g][i].late
    BY DEF RotationNoticed
  <2>1. InOrder(text[a][g])
    BY DEF WholeInv, ShapeInv, Appenders, Generations
  <2>2. QED
    BY <2>1 DEF InOrder
<1>2. QED
  BY <1>1, Inductive, PTL

\* Every pattern written from separable pieces is parsed into them: nothing the
\* threads do is needed for it (log.cc 446-559).
THEOREM PatternsAreParsed == Spec => []PatternsParsed
<1>1. PatternsParsed
  BY LoggerAssumption, PatternsReadBack DEF PatternsParsed
<1>2. QED
  BY <1>1, PTL DEF Spec
=============================================================================
