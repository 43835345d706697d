--------------------------- MODULE TimeHeapProofs ---------------------------
(***************************************************************************)
(* What TimeHeap guarantees for any number of timers, any delays and any   *)
(* length of time.                                                         *)
(*                                                                         *)
(* The inductive invariant is about the slots as they are in the middle    *)
(* of a percolation, the timer on its way standing in the hole.  A round   *)
(* of a loop then swaps two slots, which neither loses nor doubles a       *)
(* timer, and the heap order has one gap: between the hole and its parent  *)
(* on the way up, between the hole and its children on the way down.       *)
(***************************************************************************)
EXTENDS TimeHeap, FiniteSetTheorems, TLAPS

Child(i, j) == j = Left(i) \/ j = Right(i)

\* Where a percolation may be.  pop_timer of the last timer leaves a hole
\* in no slot: the loop writes the deleted timer back.
HoleInv ==
  pc \in {"up", "down"} =>
    /\ temp \in Timers /\ hole < capacity
    /\ hole \in Slots \/ (pc = "down" /\ cur_size = 0)

\* Parents are not later than their children, but for the gap.
Order ==
  \A i, j \in Slots :
    Child(i, j) => \/ pc = "up" /\ j = hole
                   \/ pc = "down" /\ i = hole
                   \/ expire[Slot(i)] <= expire[Slot(j)]

\* Over the gap, the parent of the hole is not later than its children.
Across ==
  pc \in {"up", "down"} =>
    \A i, j \in Slots :
      Child(i, hole) /\ Child(hole, j) => expire[array[i]] <= expire[array[j]]

HeapInv == /\ TypeOK /\ HoleInv /\ EveryTimerOnce /\ IndexIsSlot
           /\ Order /\ Across

-----------------------------------------------------------------------------
(* Arithmetic.                                                             *)

\* A non-empty set of naturals has a least element: the initial segments up
\* to its elements are finite sets, ordered by inclusion.
LEMMA LeastNatural ==
  ASSUME NEW T \in SUBSET Nat, T # {}
  PROVE  \E x \in T : \A y \in T : x <= y
<1> DEFINE R == StrictSubsetOrdering(Nat)
           U == {0..k : k \in T}
<1>1. U \subseteq FiniteSubsetsOf(Nat)
  <2> SUFFICES ASSUME NEW k \in T PROVE 0..k \in FiniteSubsetsOf(Nat)
    OBVIOUS
  <2>1. IsFiniteSet(0..k)
    BY FS_Interval
  <2> QED BY <2>1 DEF FiniteSubsetsOf
<1>2. IsWellFoundedOn(R, FiniteSubsetsOf(Nat))
  BY FS_StrictSubsetOrderingWellFounded
<1>3. U # {}
  OBVIOUS
<1>4. PICK A \in U : \A B \in U : <<B, A>> \notin R
  BY <1>1, <1>2, <1>3, WFMin
<1>5. PICK x \in T : A = 0..x
  OBVIOUS
<1>6. ASSUME NEW y \in T, y < x PROVE FALSE
  <2>1. 0..y \in U
    OBVIOUS
  <2>2. 0..y \subseteq 0..x /\ 0..y # 0..x
    BY <1>6
  <2>3. <<0..y, 0..x>> \in R
    BY <2>2 DEF StrictSubsetOrdering
  <2> QED BY <1>4, <1>5, <2>1, <2>3
<1>7. \A y \in T : x <= y
  BY <1>6
<1> QED BY <1>7

\* The slot number that add_timer calls the parent is the one whose children
\* percolate_down looks at.
LEMMA ParentChild ==
  ASSUME NEW i \in Nat, i > 0
  PROVE  Parent(i) \in Nat /\ Parent(i) < i /\ Child(Parent(i), i)
BY DEF Parent, Child, Left, Right

LEMMA OneParent ==
  ASSUME NEW i \in Nat, NEW k \in Nat, NEW j \in Nat,
         Child(i, j), Child(k, j)
  PROVE  i = k /\ i < j
BY DEF Child, Left, Right

-----------------------------------------------------------------------------
\* The heap order puts the earliest timer on top: a least slot with an
\* earlier timer would have a parent with an earlier timer.
LEMMA TopFromOrder ==
  ASSUME HeapInv
  PROVE  TopIsEarliest
<1> SUFFICES ASSUME pc \in {"idle", "tick"}
             PROVE  \A i \in Slots : expire[array[0]] <= expire[array[i]]
  BY DEF TopIsEarliest
<1> DEFINE Early == {i \in Slots : ~(expire[array[0]] <= expire[array[i]])}
<1>1. cur_size \in Nat /\ Slots = {i \in Nat : i < cur_size}
  BY DEF HeapInv, TypeOK, Slots
<1>2. \A i \in Slots : Slot(i) = array[i]
  BY DEF Slot, IsHole
<1>3. \A i \in Slots : array[i] \in Timers /\ expire[array[i]] \in Nat
  BY <1>2 DEF HeapInv, TypeOK, EveryTimerOnce
<1>4. SUFFICES ASSUME Early # {} PROVE FALSE
  OBVIOUS
<1>5. PICK i \in Early : \A j \in Early : i <= j
  BY <1>1, <1>4, LeastNatural
<1>6. i \in Nat /\ i > 0
  BY <1>1, <1>3, <1>5
<1>7. Parent(i) \in Slots /\ Child(Parent(i), i) /\ Parent(i) < i
  BY <1>1, <1>6, ParentChild
<1>8. Parent(i) \notin Early
  BY <1>5, <1>6, <1>7, <1>1
<1>9. expire[array[Parent(i)]] <= expire[array[i]]
  BY <1>2, <1>7 DEF HeapInv, Order
<1>10. 0 \in Slots
  BY <1>1, <1>6
<1> QED BY <1>3, <1>5, <1>7, <1>8, <1>9, <1>10
-----------------------------------------------------------------------------
(* The percolation loops.                                                  *)

\* What the invariant says of the slots, for every use of it.
LEMMA SlotFacts ==
  ASSUME HeapInv
  PROVE  /\ capacity \in Nat /\ cur_size \in Nat /\ hole \in Nat
         /\ cur_size <= capacity
         /\ Slots = {i \in Nat : i < cur_size}
         /\ \A i \in Slots : Slot(i) \in Timers /\ expire[Slot(i)] \in Nat
         /\ \A i \in Slots : ~IsHole(i) => Slot(i) = array[i]
         /\ \A i \in Slots : IsHole(i) => Slot(i) = temp
BY DEF HeapInv, TypeOK, EveryTimerOnce, Slots, Slot

\* A round of either loop exchanges the hole with slot k.
LEMMA SwapKeepsTimers ==
  ASSUME HeapInv, NEW k \in Slots, k # hole, hole \in Slots,
         pc \in {"up", "down"},
         Store(array[k]), hole' = k,
         UNCHANGED <<capacity, cur_size, allocated, pc, temp>>
  PROVE  /\ Slots' = Slots
         /\ \A i \in Slots :
              Slot(i)' = IF i = hole THEN Slot(k)
                         ELSE IF i = k THEN temp ELSE Slot(i)
         /\ EveryTimerOnce' /\ IndexIsSlot'
         /\ array' \in [0..(capacity - 1) -> Timers \cup {Nil}]
         /\ m_index' \in [Timers -> Nat]
<1>1. Slots' = Slots
  BY DEF Slots
<1>2. IsHole(hole) /\ ~IsHole(k) /\ \A i \in Slots : IsHole(i)' <=> i = k
  BY DEF IsHole
<1>3. array[k] = Slot(k) /\ array[k] \in Timers /\ Slot(hole) = temp
  BY <1>2, SlotFacts
<1>4. /\ array \in [0..(capacity - 1) -> Timers \cup {Nil}]
      /\ m_index \in [Timers -> Nat]
      /\ Slots \subseteq 0..(capacity - 1)
  BY SlotFacts DEF HeapInv, TypeOK
<1>5. \A i \in Slots : array'[i] = IF i = hole THEN array[k] ELSE array[i]
  BY <1>4 DEF Store
<1>6. \A i \in Slots :
        Slot(i)' = IF i = hole THEN Slot(k)
                   ELSE IF i = k THEN temp ELSE Slot(i)
  BY <1>2, <1>3, <1>5 DEF Slot, IsHole
<1>7. EveryTimerOnce'
  <2>1. \A i, j \in Slots : Slot(i)' = Slot(j)' => i = j
    BY <1>3, <1>6 DEF HeapInv, EveryTimerOnce
  <2>2. \A i \in Slots : \E j \in Slots : Slot(i)' = Slot(j)
    BY <1>3, <1>6
  <2>3. \A i \in Slots : \E j \in Slots : Slot(i) = Slot(j)'
    BY <1>3, <1>6
  <2>4. allocated = {Slot(i) : i \in Slots}
    BY DEF HeapInv, EveryTimerOnce
  <2>5. allocated' = {Slot(i)' : i \in Slots}
    BY <2>2, <2>3, <2>4
  <2> QED BY <1>1, <2>1, <2>5 DEF EveryTimerOnce
<1>8. IndexIsSlot'
  <2> SUFFICES ASSUME NEW i \in Slots, i # k PROVE m_index'[Slot(i)'] = i
    BY <1>1, <1>2 DEF IndexIsSlot
  <2>1. CASE i = hole
    BY <1>3, <1>4, <1>6, <2>1 DEF Store
  <2>2. CASE i # hole
    <3>1. Slot(i)' = Slot(i) /\ Slot(i) # Slot(k) /\ ~IsHole(i)
      BY <1>6, <2>2 DEF HeapInv, EveryTimerOnce, IsHole
    <3>2. m_index[Slot(i)] = i
      BY <3>1 DEF HeapInv, IndexIsSlot
    <3> QED BY <1>3, <1>4, <3>1, <3>2, SlotFacts DEF Store
  <2> QED BY <2>1, <2>2
<1> QED BY <1>1, <1>3, <1>4, <1>6, <1>7, <1>8 DEF Store

LEMMA MoveUpKeeps ==
  ASSUME HeapInv, MoveUp
  PROVE  HeapInv'
<1> DEFINE p == Parent(hole)
<1>1. /\ pc = "up" /\ pc' = "up" /\ hole > 0 /\ hole' = p
      /\ temp' = temp /\ expire' = expire /\ cur_size' = cur_size
      /\ capacity' = capacity /\ allocated' = allocated
      /\ Store(array[p]) /\ expire[array[p]] > expire[temp]
  BY DEF MoveUp
<1>2. hole \in Slots /\ hole \in Nat /\ temp \in Timers
  BY <1>1, SlotFacts DEF HeapInv, HoleInv
<1>3. p \in Nat /\ p < hole /\ Child(p, hole) /\ p \in Slots
  BY <1>1, <1>2, ParentChild, SlotFacts
<1> HIDE DEF p
<1>4. /\ Slots' = Slots
      /\ \A i \in Slots : Slot(i)' = IF i = hole THEN Slot(p)
                                     ELSE IF i = p THEN temp ELSE Slot(i)
      /\ EveryTimerOnce' /\ IndexIsSlot'
      /\ array' \in [0..(capacity - 1) -> Timers \cup {Nil}]
      /\ m_index' \in [Timers -> Nat]
  BY <1>1, <1>2, <1>3, SwapKeepsTimers
<1>5. TypeOK'
  BY <1>1, <1>3, <1>4 DEF HeapInv, TypeOK, MoveUp, tickVars
<1>6. HoleInv'
  BY <1>1, <1>2, <1>3, <1>4, SlotFacts DEF HoleInv
<1>7. Slot(p) = array[p] /\ Slot(hole) = temp /\ expire[temp] < expire[Slot(p)]
  BY <1>1, <1>2, <1>3, SlotFacts DEF IsHole
<1>8. Order'
  <2> SUFFICES ASSUME NEW i \in Slots, NEW j \in Slots, Child(i, j), j # p
               PROVE  expire[Slot(i)'] <= expire[Slot(j)']
    BY <1>1, <1>4 DEF Order
  <2>1. i \in Nat /\ j \in Nat /\ i # j /\ i < j
    BY SlotFacts, OneParent
  <2>2. /\ \A a \in Slots : expire[Slot(a)] \in Nat
        /\ expire[temp] \in Nat
    BY <1>2, SlotFacts DEF HeapInv, TypeOK
  <2>3. CASE j = hole
    <3>1. i = p
      BY <1>3, <2>1, <2>3, OneParent
    <3> QED BY <1>3, <1>4, <1>7, <2>2, <2>3, <3>1
  <2>4. CASE i = hole
    <3>1. Slot(j) = array[j] /\ Slot(j)' = Slot(j) /\ Slot(i)' = Slot(p)
      BY <1>3, <1>4, <2>1, <2>4, SlotFacts DEF IsHole
    <3> QED BY <1>1, <1>3, <1>7, <2>4, <3>1 DEF HeapInv, Across
  <2>5. CASE i = p /\ j # hole
    <3>1. Slot(j)' = Slot(j) /\ Slot(i)' = temp
      BY <1>3, <1>4, <2>5
    <3>2. expire[Slot(p)] <= expire[Slot(j)]
      BY <1>1, <2>5 DEF HeapInv, Order
    <3> QED BY <1>3, <1>7, <2>2, <3>1, <3>2
  <2>6. CASE i # p /\ i # hole /\ j # hole
    <3>1. Slot(i)' = Slot(i) /\ Slot(j)' = Slot(j)
      BY <1>4, <2>6
    <3> QED BY <1>1, <2>6, <3>1 DEF HeapInv, Order
  <2> QED BY <2>3, <2>4, <2>5, <2>6
<1>9. Across'
  <2> SUFFICES ASSUME NEW i \in Slots, NEW j \in Slots, Child(i, p), Child(p, j)
               PROVE  expire[array'[i]] <= expire[array'[j]]
    BY <1>1, <1>4 DEF Across
  <2>1. i \in Nat /\ j \in Nat /\ i < p /\ p < j
    BY <1>3, SlotFacts, OneParent
  <2>2. array'[i] = Slot(i)' /\ array'[j] = Slot(j)'
    BY <1>1, <2>1 DEF Slot, IsHole
  <2>3. Slot(i)' = Slot(i)
    BY <1>3, <1>4, <2>1
  <2>4. expire[Slot(i)] <= expire[Slot(p)]
    BY <1>1, <1>3 DEF HeapInv, Order
  <2>5. /\ \A a \in Slots : expire[Slot(a)] \in Nat
    BY SlotFacts
  <2>6. CASE j = hole
    BY <1>3, <1>4, <2>2, <2>3, <2>4, <2>6
  <2>7. CASE j # hole
    <3>1. Slot(j)' = Slot(j)
      BY <1>4, <2>1, <2>7
    <3>2. expire[Slot(p)] <= expire[Slot(j)]
      BY <1>1, <1>3, <2>7 DEF HeapInv, Order
    <3> QED BY <1>3, <2>2, <2>3, <2>4, <2>5, <3>1, <3>2
  <2> QED BY <2>6, <2>7
<1> QED BY <1>4, <1>5, <1>6, <1>8, <1>9 DEF HeapInv

LEMMA MoveDownKeeps ==
  ASSUME HeapInv, MoveDown
  PROVE  HeapInv'
<1>1. PICK c \in Slots : /\ EarlierChild(c) /\ expire[array[c]] < expire[temp]
                         /\ Store(array[c]) /\ hole' = c
  BY DEF MoveDown
<1>2. /\ pc = "down" /\ pc' = "down"
      /\ temp' = temp /\ expire' = expire /\ cur_size' = cur_size
      /\ capacity' = capacity /\ allocated' = allocated
  BY DEF MoveDown
<1>3. /\ hole \in Slots /\ hole \in Nat /\ temp \in Timers
      /\ c \in Nat /\ Child(hole, c) /\ hole < c
  BY <1>1, <1>2, SlotFacts, OneParent
    DEF HeapInv, HoleInv, EarlierChild, Child, Left, Right
<1>4. /\ Slots' = Slots
      /\ \A i \in Slots : Slot(i)' = IF i = hole THEN Slot(c)
                                     ELSE IF i = c THEN temp ELSE Slot(i)
      /\ EveryTimerOnce' /\ IndexIsSlot'
      /\ array' \in [0..(capacity - 1) -> Timers \cup {Nil}]
      /\ m_index' \in [Timers -> Nat]
  BY <1>1, <1>2, <1>3, SwapKeepsTimers
<1>5. TypeOK'
  BY <1>1, <1>2, <1>3, <1>4 DEF HeapInv, TypeOK, MoveDown, tickVars
<1>6. HoleInv'
  BY <1>1, <1>2, <1>3, <1>4, SlotFacts DEF HoleInv
<1>7. /\ \A a \in Slots : expire[Slot(a)] \in Nat
      /\ \A a \in Slots : a # hole => Slot(a) = array[a]
      /\ Slot(hole) = temp
  BY <1>2, <1>3, SlotFacts DEF IsHole
<1>8. expire[Slot(c)] < expire[temp]
  BY <1>1, <1>3, <1>7
<1>9. \A j \in Slots : Child(hole, j) => expire[Slot(c)] <= expire[Slot(j)]
  <2> SUFFICES ASSUME NEW j \in Slots, Child(hole, j)
               PROVE  expire[Slot(c)] <= expire[Slot(j)]
    OBVIOUS
  <2>1. j # hole /\ Left(hole) # hole
    BY <1>3 DEF Child, Left, Right
  <2>2. Left(hole) \in Slots
    BY <1>3, SlotFacts DEF Child, Left, Right
  <2> QED BY <1>1, <1>3, <1>7, <2>1, <2>2 DEF Child, EarlierChild
<1>10. Order'
  <2> SUFFICES ASSUME NEW i \in Slots, NEW j \in Slots, Child(i, j), i # c
               PROVE  expire[Slot(i)'] <= expire[Slot(j)']
    BY <1>1, <1>2, <1>4 DEF Order
  <2>1. i \in Nat /\ j \in Nat /\ i < j
    BY SlotFacts, OneParent
  <2>2. CASE i = hole /\ j = c
    BY <1>3, <1>4, <1>7, <1>8, <2>2
  <2>3. CASE i = hole /\ j # c
    <3>1. Slot(i)' = Slot(c) /\ Slot(j)' = Slot(j)
      BY <1>3, <1>4, <2>1, <2>3
    <3> QED BY <1>9, <2>3, <3>1
  <2>4. CASE j = hole
    <3>1. Slot(i)' = Slot(i) /\ Slot(j)' = Slot(c)
      BY <1>3, <1>4, <2>1, <2>4
    <3>2. Slot(i) = array[i] /\ Slot(c) = array[c]
      BY <1>3, <1>7, <2>1, <2>4
    <3> QED BY <1>2, <1>3, <2>4, <3>1, <3>2 DEF HeapInv, Across
  <2>5. CASE i # hole /\ j # hole
    <3>1. j # c
      BY <1>3, <2>1, <2>5, OneParent
    <3>2. Slot(i)' = Slot(i) /\ Slot(j)' = Slot(j)
      BY <1>4, <2>5, <3>1
    <3> QED BY <1>2, <2>5, <3>2 DEF HeapInv, Order
  <2> QED BY <2>2, <2>3, <2>4, <2>5
<1>11. Across'
  <2> SUFFICES ASSUME NEW i \in Slots, NEW j \in Slots, Child(i, c), Child(c, j)
               PROVE  expire[array'[i]] <= expire[array'[j]]
    BY <1>1, <1>2, <1>4 DEF Across
  <2>1. i \in Nat /\ j \in Nat /\ i = hole /\ c < j
    BY <1>3, SlotFacts, OneParent
  <2>2. array'[i] = Slot(i)' /\ array'[j] = Slot(j)'
    BY <1>1, <1>3, <2>1 DEF Slot, IsHole
  <2>3. Slot(i)' = Slot(c) /\ Slot(j)' = Slot(j)
    BY <1>3, <1>4, <2>1
  <2>4. expire[Slot(c)] <= expire[Slot(j)]
    BY <1>2, <1>3 DEF HeapInv, Order
  <2> QED BY <2>2, <2>3, <2>4
<1> QED BY <1>4, <1>5, <1>6, <1>10, <1>11 DEF HeapInv

\* The end of either loop: the timer on its way gets the slot it stood for.
LEMMA PlaceKeeps ==
  ASSUME HeapInv, pc \in {"up", "down"}, pc' \in {"idle", "tick"},
         Store(temp), TypeOK',
         UNCHANGED <<capacity, cur_size, allocated, expire>>,
         \A j \in Slots : Child(hole, j) => expire[temp] <= expire[Slot(j)],
         \A i \in Slots : Child(i, hole) => expire[Slot(i)] <= expire[temp]
  PROVE  HeapInv'
<1>1. Slots' = Slots
  BY DEF Slots
<1>2. /\ array \in [0..(capacity - 1) -> Timers \cup {Nil}]
      /\ m_index \in [Timers -> Nat] /\ temp \in Timers
      /\ hole \in 0..(capacity - 1) /\ Slots \subseteq 0..(capacity - 1)
  <2>1. temp \in Timers /\ hole < capacity
    BY DEF HeapInv, HoleInv
  <2> QED BY <2>1, SlotFacts DEF HeapInv, TypeOK
<1>3. \A i \in Slots : Slot(i)' = Slot(i) /\ ~IsHole(i)'
  BY <1>2 DEF Slot, IsHole, Store
<1>4. \A i \in Slots : IsHole(i) <=> i = hole
  BY DEF IsHole
<1>5. HoleInv' /\ Across'
  BY DEF HoleInv, Across
<1>6. EveryTimerOnce'
  <2>1. \A i, j \in Slots : Slot(i)' = Slot(j)' => i = j
    BY <1>3 DEF HeapInv, EveryTimerOnce
  <2>2. {Slot(i)' : i \in Slots} = {Slot(i) : i \in Slots}
    BY <1>3
  <2>3. allocated' = {Slot(i)' : i \in Slots}
    BY <2>2 DEF HeapInv, EveryTimerOnce
  <2> QED BY <1>1, <2>1, <2>3 DEF EveryTimerOnce
<1>7. IndexIsSlot'
  <2> SUFFICES ASSUME NEW i \in Slots PROVE m_index'[Slot(i)] = i
    BY <1>1, <1>3 DEF IndexIsSlot
  <2>1. CASE i = hole
    BY <1>2, <1>4, <2>1, SlotFacts DEF Store
  <2>2. CASE i # hole
    <3>1. hole \in Slots
      BY SlotFacts DEF HeapInv, HoleInv
    <3>2. Slot(i) # temp
      BY <1>4, <2>2, <3>1, SlotFacts DEF HeapInv, EveryTimerOnce
    <3>3. m_index[Slot(i)] = i
      BY <1>4, <2>2 DEF HeapInv, IndexIsSlot
    <3> QED BY <1>2, <3>2, <3>3, SlotFacts DEF Store
  <2> QED BY <2>1, <2>2
<1>8. Order'
  <2> SUFFICES ASSUME NEW i \in Slots, NEW j \in Slots, Child(i, j)
               PROVE  expire[Slot(i)] <= expire[Slot(j)]
    BY <1>1, <1>3 DEF Order
  <2>1. CASE i = hole
    BY <1>4, <2>1, SlotFacts
  <2>2. CASE j = hole
    BY <1>4, <2>2, SlotFacts
  <2>3. CASE i # hole /\ j # hole
    BY <2>3 DEF HeapInv, Order
  <2> QED BY <2>1, <2>2, <2>3
<1> QED BY <1>5, <1>6, <1>7, <1>8 DEF HeapInv

LEMMA EndUpKeeps ==
  ASSUME HeapInv, EndUp
  PROVE  HeapInv'
<1>1. TypeOK'
  <2>1. /\ array' \in [0..(capacity - 1) -> Timers \cup {Nil}]
        /\ m_index' \in [Timers -> Nat]
    BY DEF HeapInv, TypeOK, HoleInv, EndUp, Store
  <2> QED BY <2>1 DEF HeapInv, TypeOK, EndUp, tickVars
<1>2. hole \in Slots /\ pc = "up" /\ \A i \in Slots : IsHole(i) <=> i = hole
  BY DEF HeapInv, HoleInv, EndUp, IsHole
<1>3. \A j \in Slots : Child(hole, j) => expire[temp] <= expire[Slot(j)]
  <2> SUFFICES ASSUME NEW j \in Slots, Child(hole, j)
               PROVE  expire[temp] <= expire[Slot(j)]
    OBVIOUS
  <2>1. j # hole
    BY SlotFacts DEF Child, Left, Right
  <2>2. expire[Slot(hole)] <= expire[Slot(j)]
    BY <1>2, <2>1 DEF HeapInv, Order
  <2> QED BY <1>2, <2>2, SlotFacts
<1>4. \A i \in Slots : Child(i, hole) => expire[Slot(i)] <= expire[temp]
  <2> SUFFICES ASSUME NEW i \in Slots, Child(i, hole)
               PROVE  expire[Slot(i)] <= expire[temp]
    OBVIOUS
  <2>1. i \in Nat /\ hole \in Nat /\ hole > 0 /\ i # hole
    BY SlotFacts DEF Child, Left, Right
  <2>2. i = Parent(hole)
    BY <2>1, ParentChild, OneParent
  <2> QED BY <1>2, <2>1, <2>2, SlotFacts DEF EndUp
<1> QED BY <1>1, <1>3, <1>4, PlaceKeeps DEF EndUp

LEMMA EndDownKeeps ==
  ASSUME HeapInv, EndDown
  PROVE  HeapInv'
<1>1. TypeOK'
  <2>1. /\ array' \in [0..(capacity - 1) -> Timers \cup {Nil}]
        /\ m_index' \in [Timers -> Nat]
    BY DEF HeapInv, TypeOK, HoleInv, EndDown, Store
  <2> QED BY <2>1 DEF HeapInv, TypeOK, EndDown, tickVars
<1>2. pc = "down" /\ pc' \in {"idle", "tick"}
  BY DEF HeapInv, TypeOK, EndDown
<1>3. \A j \in Slots : Child(hole, j) => expire[temp] <= expire[Slot(j)]
  <2> SUFFICES ASSUME NEW j \in Slots, Child(hole, j)
               PROVE  expire[temp] <= expire[Slot(j)]
    OBVIOUS
  <2>1. hole \in Slots /\ hole \in Nat /\ temp \in Timers
    BY <1>2, SlotFacts DEF HeapInv, HoleInv
  <2>2. /\ Left(hole) \in Slots /\ Left(hole) # hole /\ Right(hole) # hole
        /\ Left(hole) # Right(hole)
    BY <2>1, SlotFacts DEF Child, Left, Right
  <2>3. /\ \A a \in Slots : expire[Slot(a)] \in Nat
        /\ \A a \in Slots : a # hole => Slot(a) = array[a]
        /\ expire[temp] \in Nat
    BY <2>1, SlotFacts DEF IsHole, HeapInv, TypeOK
  <2>4. CASE Right(hole) \in Slots
    <3>1. \/ EarlierChild(Left(hole))
            /\ expire[array[Right(hole)]] >= expire[array[Left(hole)]]
          \/ EarlierChild(Right(hole))
            /\ expire[array[Right(hole)]] < expire[array[Left(hole)]]
      BY <2>2, <2>3, <2>4 DEF EarlierChild
    <3>2. j = Left(hole) \/ j = Right(hole)
      BY DEF Child
    <3> QED BY <2>2, <2>3, <2>4, <3>1, <3>2 DEF EndDown
  <2>5. CASE Right(hole) \notin Slots
    <3>1. EarlierChild(Left(hole)) /\ j = Left(hole)
      BY <2>2, <2>5 DEF EarlierChild, Child
    <3> QED BY <2>2, <2>3, <3>1 DEF EndDown
  <2> QED BY <2>4, <2>5
<1>4. \A i \in Slots : Child(i, hole) => expire[Slot(i)] <= expire[temp]
  <2> SUFFICES ASSUME NEW i \in Slots, Child(i, hole)
               PROVE  expire[Slot(i)] <= expire[temp]
    OBVIOUS
  <2>1. hole \in Slots
    BY SlotFacts DEF HeapInv, HoleInv, EndDown
  <2>2. i # hole
    BY SlotFacts DEF Child, Left, Right
  <2>3. expire[Slot(i)] <= expire[Slot(hole)]
    BY <1>2, <2>1, <2>2 DEF HeapInv, Order
  <2> QED BY <1>2, <2>1, <2>3, SlotFacts DEF IsHole
<1> QED BY <1>1, <1>2, <1>3, <1>4, PlaceKeeps DEF EndDown

-----------------------------------------------------------------------------
(* The operations.                                                         *)

\* The new timer stands in a hole behind the last one, below everything.
LEMMA AddTimerKeeps ==
  ASSUME HeapInv, NEW t \in Timers, AddTimer(t)
  PROVE  HeapInv'
<1>1. /\ pc = "idle" /\ pc' = "up" /\ t \notin allocated
      /\ allocated' = allocated \cup {t}
      /\ array' = Grown /\ hole' = cur_size /\ temp' = t
      /\ cur_size' = cur_size + 1 /\ m_index' = m_index
      /\ capacity' = IF cur_size < capacity THEN capacity ELSE capacity + 1
  BY DEF AddTimer
<1>2. PICK d \in AddDelays : expire' = [expire EXCEPT ![t] = now + d]
  BY DEF AddTimer
<1>3. /\ d \in Nat /\ now \in Nat /\ expire \in [Timers -> Nat]
      /\ array \in [0..(capacity - 1) -> Timers \cup {Nil}]
  BY TimeHeapAssumption DEF HeapInv, TypeOK
<1>4. /\ expire' \in [Timers -> Nat]
      /\ \A u \in Timers : u # t => expire'[u] = expire[u]
  BY <1>2, <1>3
<1>5. /\ array' \in [0..(capacity' - 1) -> Timers \cup {Nil}]
      /\ \A i \in Slots : array'[i] = array[i]
      /\ capacity' \in Nat /\ cur_size' \in 0..capacity'
  BY <1>1, <1>3, SlotFacts DEF Grown
<1>6. TypeOK'
  BY <1>1, <1>4, <1>5, SlotFacts DEF HeapInv, TypeOK, AddTimer, tickVars
<1>7. PICK n \in Nat : n = cur_size
  BY SlotFacts
<1>8. Slots' = Slots \cup {n} /\ n \notin Slots
  BY <1>1, <1>7, SlotFacts DEF Slots
<1>9. /\ \A i \in Slots : /\ Slot(i) = array[i] /\ Slot(i)' = Slot(i)
                          /\ Slot(i) # t /\ ~IsHole(i)' /\ ~IsHole(i)
      /\ Slot(n)' = t
  BY <1>1, <1>5, <1>8, <1>7 DEF Slot, IsHole, HeapInv, EveryTimerOnce
<1>10. HoleInv'
  BY <1>1, <1>5, <1>7, <1>8, SlotFacts DEF HoleInv
<1>11. EveryTimerOnce'
  <2>1. \A i, j \in Slots' : Slot(i)' = Slot(j)' => i = j
    BY <1>8, <1>9 DEF HeapInv, EveryTimerOnce
  <2>2. allocated = {Slot(i) : i \in Slots}
    BY DEF HeapInv, EveryTimerOnce
  <2>3. allocated' = {Slot(i)' : i \in Slots'}
    BY <1>1, <1>8, <1>9, <2>2
  <2> QED BY <2>1, <2>3 DEF EveryTimerOnce
<1>12. IndexIsSlot'
  <2> SUFFICES ASSUME NEW i \in Slots', ~IsHole(i)' PROVE m_index'[Slot(i)'] = i
    BY DEF IndexIsSlot
  <2>1. i \in Slots
    BY <1>1, <1>8, <1>7 DEF IsHole
  <2> QED BY <1>1, <1>9, <2>1 DEF HeapInv, IndexIsSlot
<1>13. \A j \in Slots' : ~Child(n, j)
  BY <1>1, <1>7, SlotFacts DEF Child, Left, Right, Slots
<1>14. Order'
  <2> SUFFICES ASSUME NEW i \in Slots', NEW j \in Slots', Child(i, j), j # n
               PROVE  expire'[Slot(i)'] <= expire'[Slot(j)']
    BY <1>1, <1>7 DEF Order
  <2>1. i \in Slots /\ j \in Slots
    BY <1>8, <1>13
  <2>2. expire[Slot(i)] <= expire[Slot(j)]
    BY <1>1, <2>1 DEF HeapInv, Order
  <2> QED BY <1>4, <1>9, <2>1, <2>2, SlotFacts
<1>15. Across'
  BY <1>1, <1>13, <1>7 DEF Across
<1> QED BY <1>6, <1>10, <1>11, <1>12, <1>14, <1>15 DEF HeapInv

\* A refreshed timer may be too late for its slot, never too early.
LEMMA RefreshKeeps ==
  ASSUME HeapInv, NEW t \in Timers, Refresh(t),
         expire[t] <= now + Delay
  PROVE  HeapInv'
<1> DEFINE h == m_index[t]
<1>1. /\ pc = "idle" /\ t \in allocated
      /\ expire' = [expire EXCEPT ![t] = now + Delay]
      /\ UNCHANGED <<heapVars, allocated, m_index>>
  BY DEF Refresh
<1>2. PICK k \in Slots : Slot(k) = t
  BY <1>1 DEF HeapInv, EveryTimerOnce
<1>3. \A i \in Slots : ~IsHole(i) /\ Slot(i) = array[i]
  BY <1>1, SlotFacts DEF IsHole
<1>4. k = h
  BY <1>2, <1>3 DEF HeapInv, IndexIsSlot
<1>5. h \in Slots /\ h < capacity /\ array[h] = t /\ h \in Nat
  BY <1>2, <1>3, <1>4, SlotFacts
<1>6. pc' = "down" /\ hole' = h /\ temp' = t /\ resume' = "idle"
  BY <1>5 DEF Refresh, Percolate
<1> HIDE DEF h
<1>7. /\ expire' \in [Timers -> Nat] /\ expire'[t] = now + Delay
      /\ now + Delay \in Nat /\ expire[t] \in Nat
      /\ \A u \in Timers : u # t => expire'[u] = expire[u]
  BY <1>1, TimeHeapAssumption DEF HeapInv, TypeOK
<1>8. TypeOK'
  BY <1>1, <1>5, <1>6, <1>7
    DEF HeapInv, TypeOK, Refresh, heapVars, tickVars
<1>9. /\ Slots' = Slots /\ array' = array
      /\ \A i \in Slots : Slot(i)' = Slot(i) /\ (IsHole(i)' <=> i = h)
  BY <1>1, <1>3, <1>5, <1>6 DEF Slots, Slot, IsHole, heapVars
<1>10. HoleInv'
  BY <1>1, <1>5, <1>6, <1>9 DEF HoleInv, heapVars
<1>11. EveryTimerOnce'
  <2>1. {Slot(i)' : i \in Slots} = {Slot(i) : i \in Slots}
    BY <1>9
  <2> QED BY <1>1, <1>9, <2>1 DEF HeapInv, EveryTimerOnce
<1>12. IndexIsSlot'
  BY <1>1, <1>3, <1>9 DEF HeapInv, IndexIsSlot
<1>13. \A i, j \in Slots : Child(i, j) => expire[Slot(i)] <= expire[Slot(j)]
  BY <1>1 DEF HeapInv, Order
<1>14. \A i \in Slots : i # h => Slot(i) # t /\ expire'[Slot(i)] = expire[Slot(i)]
  BY <1>2, <1>4, <1>7, SlotFacts DEF HeapInv, EveryTimerOnce
<1>15. \A i \in Slots : /\ expire[Slot(i)] \in Nat
                       /\ expire'[Slot(i)] \in Nat
                       /\ expire[Slot(i)] <= expire'[Slot(i)]
  <2> SUFFICES ASSUME NEW i \in Slots
               PROVE  /\ expire[Slot(i)] \in Nat
                      /\ expire'[Slot(i)] \in Nat
                      /\ expire[Slot(i)] <= expire'[Slot(i)]
    OBVIOUS
  <2>1. CASE i = h
    BY <1>2, <1>4, <1>7, <2>1
  <2>2. CASE i # h
    BY <1>14, <2>2, SlotFacts
  <2> QED BY <2>1, <2>2
<1>16. Order'
  <2> SUFFICES ASSUME NEW i \in Slots, NEW j \in Slots, Child(i, j), i # h
               PROVE  expire'[Slot(i)] <= expire'[Slot(j)]
    BY <1>6, <1>9 DEF Order
  <2> QED BY <1>13, <1>14, <1>15
<1>17. Across'
  <2> SUFFICES ASSUME NEW i \in Slots, NEW j \in Slots, Child(i, h), Child(h, j)
               PROVE  expire'[array[i]] <= expire'[array[j]]
    BY <1>6, <1>9 DEF Across
  <2>1. i # h /\ j # h
    BY <1>5, SlotFacts DEF Child, Left, Right
  <2>2. /\ expire[Slot(i)] <= expire[Slot(h)]
        /\ expire[Slot(h)] <= expire[Slot(j)]
    BY <1>5, <1>13
  <2> QED BY <1>3, <1>5, <1>14, <1>15, <2>1, <2>2
<1> QED BY <1>8, <1>10, <1>11, <1>12, <1>16, <1>17 DEF HeapInv

\* The last timer stands in a hole at the top.
LEMMA FireKeeps ==
  ASSUME HeapInv, Fire
  PROVE  HeapInv'
<1> DEFINE last == cur_size - 1
<1>1. /\ pc = "tick" /\ pc' = "down" /\ cur_size > 0 /\ cur_size' = last
      /\ array' = [array EXCEPT ![0] = array[last]]
      /\ allocated' = allocated \ {array[0]}
      /\ hole' = 0 /\ resume' = "tick" /\ temp' = array'[0]
      /\ UNCHANGED <<capacity, expire, m_index>>
  BY DEF Fire, Popped, Percolate
<1>2. /\ 0 \in Slots /\ last \in Slots /\ last \in Nat /\ last < capacity
      /\ Slots' = Slots \ {last} /\ cur_size = last + 1
  BY <1>1, SlotFacts DEF Slots
<1> HIDE DEF last
<1>3. \A i \in Slots : ~IsHole(i) /\ Slot(i) = array[i] /\ array[i] \in Timers
  BY <1>1, SlotFacts DEF IsHole
<1>4. /\ array' \in [0..(capacity - 1) -> Timers \cup {Nil}]
      /\ array'[0] = array[last] /\ temp' = array[last]
      /\ \A i \in Slots : i # 0 => array'[i] = array[i]
  BY <1>1, <1>2, SlotFacts DEF HeapInv, TypeOK
<1>5. TypeOK'
  <2>1. cur_size' \in 0..capacity' /\ capacity' \in Nat
    BY <1>1, <1>2, SlotFacts
  <2>2. temp' \in Timers
    BY <1>2, <1>3, <1>4
  <2> QED BY <1>1, <1>4, <2>1, <2>2 DEF HeapInv, TypeOK, Fire
<1>6. HoleInv'
  BY <1>1, <1>2, <1>3, <1>4, SlotFacts DEF HoleInv
<1>7. /\ \A i \in Slots' : /\ i \in Slots
                           /\ IsHole(i)' <=> i = 0
                           /\ Slot(i)' = IF i = 0 THEN Slot(last) ELSE Slot(i)
  BY <1>1, <1>2, <1>3, <1>4 DEF Slot, IsHole
<1>8. EveryTimerOnce'
  <2>1. \A i, j \in Slots : Slot(i) = Slot(j) => i = j
    BY DEF HeapInv, EveryTimerOnce
  <2>2. \A i, j \in Slots' : Slot(i)' = Slot(j)' => i = j
    BY <1>2, <1>7, <2>1
  <2>3. allocated = {Slot(i) : i \in Slots}
    BY DEF HeapInv, EveryTimerOnce
  <2>4. \A i \in Slots' : Slot(i)' \in allocated'
    BY <1>1, <1>2, <1>3, <1>7, <2>1, <2>3
  <2>5. ASSUME NEW u \in allocated' PROVE \E i \in Slots' : u = Slot(i)'
    <3>1. PICK i \in Slots : u = Slot(i)
      BY <1>1, <2>3, <2>5
    <3>2. i # 0
      BY <1>1, <1>2, <1>3, <2>5, <3>1
    <3>3. CASE i = last
      <4>1. 0 \in Slots'
        BY <1>2, <3>2, <3>3
      <4> QED BY <1>7, <3>1, <3>3, <4>1
    <3>4. CASE i # last
      BY <1>2, <1>7, <3>1, <3>2, <3>4
    <3> QED BY <3>3, <3>4
  <2>6. allocated' = {Slot(i)' : i \in Slots'}
    BY <2>4, <2>5
  <2> QED BY <2>2, <2>6 DEF EveryTimerOnce
<1>9. IndexIsSlot'
  BY <1>1, <1>3, <1>7 DEF HeapInv, IndexIsSlot
<1>10. Order'
  <2> SUFFICES ASSUME NEW i \in Slots', NEW j \in Slots', Child(i, j), i # 0
               PROVE  expire[Slot(i)'] <= expire[Slot(j)']
    BY <1>1 DEF Order
  <2>1. j # 0 /\ i \in Slots /\ j \in Slots
    BY <1>7, SlotFacts DEF Child, Left, Right
  <2>2. expire[Slot(i)] <= expire[Slot(j)]
    BY <1>1, <2>1 DEF HeapInv, Order
  <2> QED BY <1>7, <2>1, <2>2
<1>11. Across'
  <2>1. \A i \in Slots' : ~Child(i, 0)
    BY <1>7, SlotFacts DEF Child, Left, Right
  <2> QED BY <1>1, <2>1 DEF Across
<1> QED BY <1>5, <1>6, <1>8, <1>9, <1>10, <1>11 DEF HeapInv

\* What leaves the slots alone.
LEMMA QuietKeeps ==
  ASSUME HeapInv, TypeOK', pc \in {"idle", "tick"}, pc' \in {"idle", "tick"},
         UNCHANGED <<heapVars, allocated, expire, m_index>>
  PROVE  HeapInv'
<1>1. Slots' = Slots /\ \A i \in Slots : /\ ~IsHole(i) /\ ~IsHole(i)'
                                        /\ Slot(i)' = Slot(i)
  BY DEF Slots, Slot, IsHole, heapVars
<1>2. HoleInv' /\ Across'
  BY DEF HoleInv, Across
<1>3. EveryTimerOnce'
  <2>1. {Slot(i)' : i \in Slots} = {Slot(i) : i \in Slots}
    BY <1>1
  <2> QED BY <1>1, <2>1 DEF HeapInv, EveryTimerOnce
<1>4. IndexIsSlot'
  BY <1>1 DEF HeapInv, IndexIsSlot
<1>5. Order'
  BY <1>1 DEF HeapInv, Order
<1> QED BY <1>2, <1>3, <1>4, <1>5 DEF HeapInv

\* The same at any point of a percolation.
LEMMA ClockKeeps ==
  ASSUME HeapInv, TypeOK', UNCHANGED <<heapVars, allocated, expire, m_index, pc, hole, temp>>
  PROVE  HeapInv'
<1>1. Slots' = Slots /\ \A i : (IsHole(i)' <=> IsHole(i)) /\ Slot(i)' = Slot(i)
  BY DEF Slots, Slot, IsHole, heapVars
<1>2. HoleInv' /\ Across'
  BY <1>1 DEF HeapInv, HoleInv, Across, heapVars
<1>3. EveryTimerOnce'
  <2>1. {Slot(i)' : i \in Slots} = {Slot(i) : i \in Slots}
    BY <1>1
  <2> QED BY <1>1, <2>1 DEF HeapInv, EveryTimerOnce
<1>4. IndexIsSlot'
  BY <1>1 DEF HeapInv, IndexIsSlot
<1>5. Order'
  BY <1>1 DEF HeapInv, Order
<1> QED BY <1>2, <1>3, <1>4, <1>5 DEF HeapInv

-----------------------------------------------------------------------------
(* The theorems.                                                           *)

\* No timer is due later than one made now would be: the clock only goes
\* forward, so a refresh never makes a timer earlier.
NotLater == \A t \in Timers : expire[t] <= now + Delay

IInv == HeapInv /\ NotLater

LEMMA IInvInit == Init => IInv
<1> SUFFICES ASSUME Init PROVE IInv
  OBVIOUS
<1>1. TypeOK
  BY TimeHeapAssumption DEF Init, TypeOK
<1>2. Slots = {}
  BY DEF Init, Slots
<1>3. HoleInv /\ EveryTimerOnce /\ IndexIsSlot /\ Order /\ Across
  BY <1>2 DEF Init, HoleInv, EveryTimerOnce, IndexIsSlot, Order, Across
<1>4. NotLater
  <2>1. now = 0 /\ expire = [t \in Timers |-> 0]
    BY DEF Init
  <2>2. Delay \in Nat
    BY TimeHeapAssumption
  <2>3. \A t \in Timers : expire[t] = 0
    BY <2>1
  <2>4. 0 <= now + Delay
    BY <2>1, <2>2
  <2> QED BY <2>3, <2>4 DEF NotLater
<1> QED BY <1>1, <1>3, <1>4 DEF IInv, HeapInv

LEMMA IInvNext == IInv /\ [Next]_vars => IInv'
<1> SUFFICES ASSUME IInv, [Next]_vars PROVE IInv'
  OBVIOUS
<1>1. HeapInv /\ NotLater /\ TypeOK
  BY DEF IInv, HeapInv
<1>2. /\ now \in Nat /\ Delay \in Nat /\ AddDelays \subseteq 0..Delay
      /\ expire \in [Timers -> Nat]
  BY <1>1, TimeHeapAssumption DEF TypeOK
<1>3. ASSUME NEW t \in Timers, AddTimer(t) PROVE IInv'
  <2>1. NotLater'
    BY <1>1, <1>2, <1>3 DEF NotLater, AddTimer
  <2> QED BY <1>1, <1>3, <2>1, AddTimerKeeps DEF IInv
<1>4. ASSUME NEW t \in Timers, Refresh(t) PROVE IInv'
  <2>1. NotLater'
    BY <1>1, <1>2, <1>4 DEF NotLater, Refresh
  <2>2. expire[t] <= now + Delay
    BY <1>1 DEF NotLater
  <2> QED BY <1>1, <1>4, <2>1, <2>2, RefreshKeeps DEF IInv
<1>5. ASSUME NEW t \in Timers, DelTimer(t) PROVE IInv'
  <2>1. TypeOK'
    BY <1>1, <1>5 DEF TypeOK, DelTimer, heapVars, tickVars
  <2>2. HeapInv'
    BY <1>1, <1>5, <2>1, QuietKeeps DEF DelTimer
  <2> QED BY <1>1, <1>5, <2>2 DEF IInv, NotLater, DelTimer
<1>6. CASE MoveUp
  BY <1>1, <1>6, MoveUpKeeps DEF IInv, NotLater, MoveUp
<1>7. CASE EndUp
  BY <1>1, <1>7, EndUpKeeps DEF IInv, NotLater, EndUp
<1>8. CASE MoveDown
  BY <1>1, <1>8, MoveDownKeeps DEF IInv, NotLater, MoveDown
<1>9. CASE EndDown
  BY <1>1, <1>9, EndDownKeeps DEF IInv, NotLater, EndDown
<1>10. CASE BeginTick
  <2>1. TypeOK'
    BY <1>1, <1>10 DEF TypeOK, BeginTick, heapVars, timerVars
  <2>2. HeapInv'
    BY <1>1, <1>10, <2>1, QuietKeeps DEF BeginTick, timerVars
  <2> QED BY <1>1, <1>10, <2>2 DEF IInv, NotLater, BeginTick, timerVars
<1>11. CASE Fire
  BY <1>1, <1>11, FireKeeps DEF IInv, NotLater, Fire
<1>12. CASE EndTick
  <2>1. TypeOK'
    BY <1>1, <1>12 DEF TypeOK, EndTick, heapVars, timerVars, tickVars
  <2>2. HeapInv'
    BY <1>1, <1>12, <2>1, QuietKeeps DEF EndTick, timerVars
  <2> QED BY <1>1, <1>12, <2>2 DEF IInv, NotLater, EndTick, timerVars
<1>13. CASE Advance
  <2>1. TypeOK'
    <3>1. now' \in 0..MaxTime
      BY <1>2, <1>13, TimeHeapAssumption DEF Advance
    <3> QED BY <1>1, <1>13, <3>1
          DEF TypeOK, Advance, heapVars, timerVars, tickVars
  <2>2. HeapInv'
    BY <1>1, <1>13, <2>1, ClockKeeps DEF Advance, timerVars
  <2> QED BY <1>1, <1>2, <1>13, <2>2 DEF IInv, NotLater, Advance, timerVars
<1>14. CASE UNCHANGED vars
  <2>1. TypeOK'
    BY <1>1, <1>14 DEF TypeOK, vars, heapVars, timerVars, tickVars
  <2>2. HeapInv'
    BY <1>1, <1>14, <2>1, ClockKeeps DEF vars, timerVars
  <2> QED BY <1>1, <1>14, <2>2 DEF IInv, NotLater, vars, timerVars
<1> QED BY <1>3, <1>4, <1>5, <1>6, <1>7, <1>8, <1>9, <1>10, <1>11, <1>12,
           <1>13, <1>14 DEF Next

LEMMA Invariance == Spec => []IInv
BY IInvInit, IInvNext, PTL DEF Spec

-----------------------------------------------------------------------------
(* The refinement.                                                         *)

LEMMA ServiceInit == Init => Service!Init
BY TimeHeapAssumption DEF Init, Service!Init

LEMMA ServiceNext == IInv /\ [Next]_vars => [Service!Next]_(Service!vars)
<1> SUFFICES ASSUME IInv, [Next]_vars PROVE [Service!Next]_(Service!vars)
  OBVIOUS
<1> USE DEF Service!Next, Service!vars
<1>1. HeapInv /\ TypeOK
  BY DEF IInv, HeapInv
<1>2. ASSUME NEW t \in Timers, AddTimer(t) PROVE Service!Add(t)
  BY <1>2 DEF AddTimer, Service!Add, tickVars
<1>3. ASSUME NEW t \in Timers, Refresh(t) PROVE Service!Refresh(t)
  <2>1. resume' = "idle" \/ pc' = "idle"
    BY <1>3 DEF Refresh
  <2> QED BY <1>3, <2>1 DEF Refresh, Percolate, Service!Refresh, tickVars
<1>4. ASSUME NEW t \in Timers, DelTimer(t) PROVE Service!Cancel(t)
  BY <1>4 DEF DelTimer, Service!Cancel, tickVars
<1>5. CASE MoveUp
  BY <1>5 DEF MoveUp, tickVars
<1>6. CASE EndUp
  BY <1>6 DEF EndUp, tickVars
<1>7. CASE MoveDown
  BY <1>7 DEF MoveDown, tickVars
<1>8. CASE EndDown
  BY <1>1, <1>8 DEF EndDown, tickVars, TypeOK
<1>9. CASE BeginTick
  BY <1>9 DEF BeginTick, Service!BeginTick, timerVars
<1>10. CASE Fire
  <2> DEFINE t == array[0]
  <2>1. 0 \in Slots /\ \A i \in Slots : Slot(i) = array[i]
    BY <1>1, <1>10, SlotFacts DEF Fire, IsHole
  <2>2. t \in allocated /\ t \in Timers
    BY <1>1, <2>1 DEF HeapInv, TypeOK, EveryTimerOnce
  <2>3. \A u \in allocated : expire[t] <= expire[u]
    <3>1. \A i \in Slots : expire[array[0]] <= expire[array[i]]
      BY <1>1, <1>10, TopFromOrder DEF Fire, TopIsEarliest
    <3> QED BY <1>1, <2>1, <3>1 DEF HeapInv, EveryTimerOnce
  <2>4. Service!Fire(t)
    BY <1>10, <2>2, <2>3 DEF Fire, Percolate, Service!Fire
  <2> QED BY <2>2, <2>4
<1>11. CASE EndTick
  <2>1. \A i \in Slots : Slot(i) = array[i] /\ array[i] \in Timers
    BY <1>1, <1>11, SlotFacts DEF EndTick, IsHole
  <2>2. \A i \in Slots : expire[array[0]] <= expire[array[i]]
    BY <1>1, <1>11, TopFromOrder DEF EndTick, TopIsEarliest
  <2>3. ASSUME NEW u \in allocated PROVE expire[u] > cur
    <3>1. PICK i \in Slots : u = array[i]
      BY <1>1, <2>1 DEF HeapInv, EveryTimerOnce
    <3>2. 0 \in Slots /\ cur_size > 0
      BY <1>1, SlotFacts
    <3>3. expire[array[0]] > cur
      BY <1>11, <2>1, <3>2, TimeHeapAssumption DEF EndTick
    <3>4. expire[array[0]] \in Nat /\ expire[u] \in Nat /\ cur \in Nat
      BY <1>1, <2>1, <3>1, <3>2 DEF TypeOK
    <3> QED BY <2>2, <3>1, <3>3, <3>4
  <2>4. Service!EndTick
    BY <1>11, <2>3 DEF EndTick, Service!EndTick, timerVars, tickVars
  <2> QED BY <2>4
<1>12. CASE Advance
  BY <1>12 DEF Advance, Service!Advance, timerVars, tickVars
<1>13. CASE UNCHANGED vars
  BY <1>13 DEF vars, timerVars, tickVars
<1> QED BY <1>2, <1>3, <1>4, <1>5, <1>6, <1>7, <1>8, <1>9, <1>10, <1>11,
           <1>12, <1>13 DEF Next

-----------------------------------------------------------------------------
\* Type invariant of the heap (timer.h 43-95).
THEOREM TypeCorrect == Spec => []TypeOK
<1>1. IInv => TypeOK
  BY DEF IInv, HeapInv
<1> QED BY <1>1, Invariance, PTL

\* However many timers come and go, the slots hold the allocated ones, each
\* once (timer.cpp 9-56, 74-83).
THEOREM TimersOnce == Spec => []EveryTimerOnce
<1>1. IInv => EveryTimerOnce
  BY DEF IInv, HeapInv
<1> QED BY <1>1, Invariance, PTL

\* adjust(timer->m_index) always starts at the timer's own slot
\* (timer.cpp 3-7, webserverhttp.cpp 308).
THEOREM IndicesAreSlots == Spec => []IndexIsSlot
<1>1. IInv => IndexIsSlot
  BY DEF IInv, HeapInv
<1> QED BY <1>1, Invariance, PTL

\* tick() looks at the earliest timer (timer.cpp 90-101).
THEOREM EarliestOnTop == Spec => []TopIsEarliest
<1>1. IInv => TopIsEarliest
  BY TopFromOrder DEF IInv
<1> QED BY <1>1, Invariance, PTL

\* The array is a timer service: each tick calls back exactly the due timers
\* that were not cancelled, earliest first, and is not over before
\* (timer.cpp 58-110).
THEOREM HeapIsService == Spec => ImplementsService
BY ServiceInit, ServiceNext, Invariance, PTL
  DEF Spec, ImplementsService, Service!Spec
=============================================================================
