------------------------------ MODULE TimeHeap ------------------------------
(***************************************************************************)
(* time_heap: the binary heap of heap_timer objects by which the event     *)
(* loop closes idle connections.  Slots are numbered from 0, the children  *)
(* of slot i are 2i+1 and 2i+2.                                            *)
(*                                                                         *)
(* Only the loop's thread uses the heap.  A round of a percolation loop is *)
(* one step, so that the invariants say what holds in the middle of it.    *)
(* A timer is identified by its address, which new may hand out again      *)
(* once the timer has been deleted; what users_data keeps of a deleted one *)
(* is the business of module Reactor.                                      *)
(***************************************************************************)
EXTENDS Integers

CONSTANTS
  Timers,       \* addresses of heap_timer objects
  Nil,          \* nullptr
  Delay,        \* 3 * TIMESLOT, the lifetime set by the loop on activity
  AddDelays,    \* delays given to the constructor (the server: Delay only)
  MaxTime       \* bound on the clock

ASSUME TimeHeapAssumption ==
  /\ Nil \notin Timers
  /\ Delay \in Nat /\ MaxTime \in Nat
  /\ AddDelays \subseteq 0..Delay

VARIABLES
  now,          \* time(nullptr); never goes backwards
  array, capacity, cur_size,
  allocated,    \* timers created by new and not yet deleted
  expire, m_index,
  callback,     \* timers whose cb_func is set
  pc,           \* "idle", "up" (add_timer's loop), "down"
                \* (percolate_down's loop), "tick" (tick's loop)
  hole, temp,   \* of the percolation going on
  resume,       \* pc to go on with after percolate_down
  cur,          \* the time tick() has read
  called        \* timers this tick has called back

heapVars == <<array, capacity, cur_size>>
timerVars == <<allocated, expire, m_index, callback>>
tickVars == <<cur, called>>
vars == <<now, heapVars, timerVars, pc, hole, temp, resume, tickVars>>

Slots == 0..(cur_size - 1)
Parent(i) == (i - 1) \div 2
Left(i) == 2 * i + 1
Right(i) == 2 * i + 2

TypeOK ==
  /\ now \in 0..MaxTime
  /\ capacity \in Nat /\ cur_size \in 0..capacity
  /\ array \in [0..(capacity - 1) -> Timers \cup {Nil}]
  /\ allocated \subseteq Timers /\ callback \subseteq Timers
  /\ expire \in [Timers -> Nat]
  /\ m_index \in [Timers -> Nat]
  /\ pc \in {"idle", "up", "down", "tick"} /\ resume \in {"idle", "tick"}
  /\ hole \in Nat /\ temp \in Timers \cup {Nil}
  /\ cur \in 0..MaxTime /\ called \subseteq Timers

\* time_heap(): no slot at all.
Init ==
  /\ now = 0 /\ cur = 0 /\ called = {}
  /\ array = [i \in 0..-1 |-> Nil] /\ capacity = 0 /\ cur_size = 0
  /\ allocated = {} /\ callback = {}
  /\ expire = [t \in Timers |-> 0]
  /\ m_index = [t \in Timers |-> 0]
  /\ pc = "idle" /\ resume = "idle" /\ hole = 0 /\ temp = Nil

-----------------------------------------------------------------------------
(* Operations.                                                             *)

\* Mutation of Store: the timer is not told its slot.
StoreOnly(t) ==
  /\ array' = [array EXCEPT ![hole] = t]
  /\ UNCHANGED m_index

\* array[hole] = t; array[hole]->m_index = hole
Store(t) ==
  /\ array' = [array EXCEPT ![hole] = t]
  /\ m_index' = [m_index EXCEPT ![t] = hole]

\* The slots once the vector has been grown for one more timer.
Grown ==
  IF cur_size < capacity
  THEN array
  ELSE [i \in 0..capacity |-> IF i < capacity THEN array[i] ELSE Nil]

\* The loop creates a timer for an accepted connection; add_timer opens a
\* hole behind the last timer.
AddTimer(t) ==
  /\ pc = "idle" /\ t \notin allocated
  /\ \E d \in AddDelays : expire' = [expire EXCEPT ![t] = now + d]
  /\ allocated' = allocated \cup {t} /\ callback' = callback \cup {t}
  /\ array' = Grown
  /\ capacity' = IF cur_size < capacity THEN capacity ELSE capacity + 1
  /\ hole' = cur_size /\ temp' = t /\ cur_size' = cur_size + 1
  /\ pc' = "up"
  /\ UNCHANGED <<now, m_index, resume, tickVars>>

\* A later parent moves down into the hole.
MoveUp ==
  /\ pc = "up" /\ hole > 0
  /\ expire[array[Parent(hole)]] > expire[temp]
  /\ Store(array[Parent(hole)])
  /\ hole' = Parent(hole)
  /\ UNCHANGED <<now, capacity, cur_size, allocated, expire, callback, pc,
                 temp, resume, tickVars>>

\* The new timer has found its slot.
EndUp ==
  /\ pc = "up"
  /\ hole > 0 => expire[array[Parent(hole)]] <= expire[temp]
  /\ Store(temp)
  /\ pc' = "idle"
  /\ UNCHANGED <<now, capacity, cur_size, allocated, expire, callback, hole,
                 temp, resume, tickVars>>

\* Mutation of EarlierChild: only the left child is looked at.
LeftChild(c) == c = Left(hole) /\ c \in Slots

\* The child of the hole that percolate_down compares with.
EarlierChild(c) ==
  /\ c \in Slots
  /\ \/ /\ c = Left(hole)
        /\ Right(hole) \in Slots =>
             expire[array[Right(hole)]] >= expire[array[c]]
     \/ /\ c = Right(hole)
        /\ expire[array[c]] < expire[array[Left(hole)]]

\* The earlier child moves up into the hole.
MoveDown ==
  /\ pc = "down"
  /\ \E c \in Slots : /\ EarlierChild(c) /\ expire[array[c]] < expire[temp]
                      /\ Store(array[c])
                      /\ hole' = c
  /\ UNCHANGED <<now, capacity, cur_size, allocated, expire, callback, pc,
                 temp, resume, tickVars>>

\* No child of the hole is earlier than the timer being placed.
EndDown ==
  /\ pc = "down"
  /\ \A c \in Slots : EarlierChild(c) => expire[array[c]] >= expire[temp]
  /\ Store(temp)
  /\ pc' = resume
  /\ UNCHANGED <<now, capacity, cur_size, allocated, expire, callback, hole,
                 temp, resume, tickVars>>

\* percolate_down(i) is entered, on the array a.
Percolate(i, a) == hole' = i /\ temp' = a[i] /\ pc' = "down"

\* Activity on a connection: the loop sets expire and calls adjust(m_index).
Refresh(t) ==
  /\ pc = "idle" /\ t \in allocated
  /\ expire' = [expire EXCEPT ![t] = now + Delay]
  /\ IF m_index[t] < capacity
     THEN Percolate(m_index[t], array) /\ resume' = "idle"
     ELSE UNCHANGED <<pc, hole, temp, resume>>
  /\ UNCHANGED <<now, heapVars, allocated, m_index, callback, tickVars>>

\* del_timer: lazy, only the call-back goes.
DelTimer(t) ==
  /\ pc = "idle" /\ t \in allocated
  /\ callback' = callback \ {t}
  /\ UNCHANGED <<now, heapVars, allocated, expire, m_index, pc, hole, temp,
                 resume, tickVars>>

\* tick() reads the clock once.
BeginTick ==
  /\ pc = "idle" /\ capacity > 0
  /\ pc' = "tick" /\ cur' = now /\ called' = {}
  /\ UNCHANGED <<now, heapVars, timerVars, hole, temp, resume>>

\* Mutation of Popped: the last timer is forgotten.
TopKept == array

\* The slots once pop_timer has put the last timer in the place of the top.
Popped == [array EXCEPT ![0] = array[cur_size - 1]]

\* The timer at the top is due: its call-back runs if it has one, and
\* pop_timer deletes it.
Fire ==
  LET t == array[0]
  IN /\ pc = "tick" /\ cur_size > 0 /\ t # Nil /\ expire[t] <= cur
     /\ called' = called \cup ({t} \cap callback)
     /\ allocated' = allocated \ {t} /\ callback' = callback \ {t}
     /\ array' = Popped /\ cur_size' = cur_size - 1
     /\ Percolate(0, Popped) /\ resume' = "tick"
     /\ UNCHANGED <<now, capacity, expire, m_index, cur>>

\* Mutation of EndTick: one timer per tick.
EndTickEarly ==
  /\ pc = "tick" /\ called # {}
  /\ pc' = "idle"
  /\ UNCHANGED <<now, heapVars, timerVars, hole, temp, resume, tickVars>>

\* The heap is empty, or its top is not due.
EndTick ==
  /\ pc = "tick"
  /\ cur_size > 0 /\ array[0] # Nil => expire[array[0]] > cur
  /\ pc' = "idle"
  /\ UNCHANGED <<now, heapVars, timerVars, hole, temp, resume, tickVars>>

Advance ==
  /\ now < MaxTime
  /\ now' = now + 1
  /\ UNCHANGED <<heapVars, timerVars, pc, hole, temp, resume, tickVars>>

Next ==
  \/ \E t \in Timers : AddTimer(t) \/ Refresh(t) \/ DelTimer(t)
  \/ MoveUp \/ EndUp \/ MoveDown \/ EndDown
  \/ BeginTick \/ Fire \/ EndTick
  \/ Advance

Spec == Init /\ [][Next]_vars

-----------------------------------------------------------------------------
(* Properties.                                                             *)

\* Slot i is the hole of a percolation; what the slot holds is then the timer
\* on its way.
IsHole(i) == pc \in {"up", "down"} /\ i = hole
Slot(i) == IF IsHole(i) THEN temp ELSE array[i]

\* No timer is lost or doubled, in the middle of a percolation either: the
\* slots hold exactly the timers that are allocated, each once, and never one
\* that has been deleted (timer.cpp 9-29, 37-56, 74-83).
EveryTimerOnce ==
  /\ \A i, j \in Slots : Slot(i) = Slot(j) => i = j
  /\ allocated = {Slot(i) : i \in Slots}

\* adjust() can rely on m_index: every timer knows its slot, except the one on
\* its way (timer.cpp 3-7, 22, 28; webserverhttp.cpp 308).
IndexIsSlot ==
  \A i \in Slots : ~IsHole(i) => m_index[Slot(i)] = i

\* The top is the earliest timer whenever tick() or anybody else looks at it
\* (timer.cpp 67-72, 90-101).
TopIsEarliest ==
  pc \in {"idle", "tick"} =>
    \A i \in Slots : expire[array[0]] <= expire[array[i]]

\* The heap implements the timer service (timer.h 58-88): a tick calls back
\* exactly the due timers that were not cancelled, earliest first.
Service == INSTANCE TimerService WITH
  pending <- allocated,
  ticking <- (pc = "tick" \/ (pc = "down" /\ resume = "tick"))
ImplementsService == Service!Spec
=============================================================================
