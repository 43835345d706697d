------------------------------ MODULE JsonList ------------------------------
(***************************************************************************)
(* What value.h promises of an array: a list.  It grows at its end or by   *)
(* nulls up to a place, it is resized, an element is replaced or taken     *)
(* out.                                                                    *)
(* "list" is the array, "spare" the value the calls take and give back.    *)
(***************************************************************************)
EXTENDS Integers, Sequences, SequencesExt

CONSTANTS Null,               \* the element of a place nobody has filled
          Elements(_),        \* the list that a value is
          Compound(_)         \* has a value places inside?

VARIABLES list, spare

ListInit == list = <<>> /\ spare = Null

\* n elements: what there is, then nulls.
Padded(n) == [i \in 1..n |-> IF i <= Len(list) THEN list[i] ELSE Null]

\* append
Grow == list' = Append(list, spare) /\ spare' = spare

\* resize, to any size, and clear
Cut == list' = Padded(Len(list')) /\ spare' = spare

\* An element is another one, or a place inside it; operator[] past the end has
\* nulls put before it.  It is swapped, unless a value changes inside it.
Replace ==
  \E i \in DOMAIN list' :
    LET filled == Padded(IF i > Len(list) THEN i ELSE Len(list))
    IN /\ list' = [filled EXCEPT ![i] = list'[i]]
       /\ \/ spare' = spare
          \/ list'[i] = spare /\ spare' = filled[i]
          \/ Compound(filled[i]) /\ Compound(list'[i])

\* removeIndex
TakeOut == \E i \in DOMAIN list : list' = RemoveAt(list, i) /\ spare' = list[i]

\* swap
Exchange == list' = Elements(spare) /\ Elements(spare') = list

ListNext == Grow \/ Cut \/ Replace \/ TakeOut \/ Exchange

ListSpec == ListInit /\ [][ListNext]_list
=============================================================================
