---------------------------- MODULE TimerService ----------------------------
(***************************************************************************)
(* What the event loop relies on time_heap for: a set of timers, and a     *)
(* tick that calls back exactly the timers that are due, earliest first,   *)
(* and forgets them.  Nothing is said of how the earliest one is found;    *)
(* module TimeHeap implements this with an array.                          *)
(***************************************************************************)
EXTENDS Integers

CONSTANTS
  Timers,       \* heap_timer objects
  Delay,        \* lifetime given to a refreshed timer
  AddDelays,    \* lifetimes given to new timers
  MaxTime       \* bound on the clock

VARIABLES
  now,          \* the clock
  pending,      \* the timers of the service
  expire,       \* when each of them is due
  callback,     \* those not cancelled
  ticking,      \* a tick is going on
  cur,          \* the time it was begun at
  called        \* the timers it has called back

vars == <<now, pending, expire, callback, ticking, cur, called>>

Init ==
  /\ now = 0 /\ cur = 0
  /\ pending = {} /\ callback = {} /\ called = {}
  /\ expire = [t \in Timers |-> 0]
  /\ ticking = FALSE

\* A new timer.
Add(t) ==
  /\ ~ticking /\ t \notin pending
  /\ \E d \in AddDelays : expire' = [expire EXCEPT ![t] = now + d]
  /\ pending' = pending \cup {t}
  /\ callback' = callback \cup {t}
  /\ UNCHANGED <<now, ticking, cur, called>>

\* A timer lives on.
Refresh(t) ==
  /\ ~ticking /\ t \in pending
  /\ expire' = [expire EXCEPT ![t] = now + Delay]
  /\ UNCHANGED <<now, pending, callback, ticking, cur, called>>

\* A cancelled timer stays until it is due, but is not called back.
Cancel(t) ==
  /\ ~ticking /\ t \in pending
  /\ callback' = callback \ {t}
  /\ UNCHANGED <<now, pending, expire, ticking, cur, called>>

BeginTick ==
  /\ ~ticking
  /\ ticking' = TRUE /\ cur' = now /\ called' = {}
  /\ UNCHANGED <<now, pending, expire, callback>>

\* The earliest of the due timers goes.
Fire(t) ==
  /\ ticking /\ t \in pending /\ expire[t] <= cur
  /\ \A u \in pending : expire[t] <= expire[u]
  /\ pending' = pending \ {t}
  /\ callback' = callback \ {t}
  /\ called' = called \cup ({t} \cap callback)
  /\ UNCHANGED <<now, expire, ticking, cur>>

\* A tick is not over while a timer is due.
EndTick ==
  /\ ticking /\ \A t \in pending : expire[t] > cur
  /\ ticking' = FALSE
  /\ UNCHANGED <<now, pending, expire, callback, cur, called>>

Advance ==
  /\ now < MaxTime
  /\ now' = now + 1
  /\ UNCHANGED <<pending, expire, callback, ticking, cur, called>>

Next ==
  \/ \E t \in Timers : Add(t) \/ Refresh(t) \/ Cancel(t) \/ Fire(t)
  \/ BeginTick \/ EndTick \/ Advance

Spec == Init /\ [][Next]_vars
=============================================================================
