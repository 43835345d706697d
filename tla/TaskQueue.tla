----------------------------- MODULE TaskQueue ------------------------------
(***************************************************************************)
(* What the event loop and the workers see of threadpool<T>: a bounded     *)
(* queue of tasks, refused when it is full, each taken by one worker, in   *)
(* the order they were put.  Module Reactor uses the queue at this level;  *)
(* module ThreadPool implements it with a mutex and a condition variable.  *)
(***************************************************************************)
EXTENDS Naturals, Sequences

CONSTANTS
  Tasks,        \* what may be put
  Nothing,      \* no task
  Workers,      \* the takers
  MaxRequests   \* how many tasks may wait

VARIABLES
  queue,        \* the waiting tasks
  asked,        \* the task append is asked to put, or Nothing
  held          \* the task of each worker, or Nothing

vars == <<queue, asked, held>>

Init ==
  /\ queue = <<>>
  /\ asked = Nothing
  /\ held = [w \in Workers |-> Nothing]

Ask(t) ==
  /\ asked = Nothing
  /\ asked' = t
  /\ UNCHANGED <<queue, held>>

Put ==
  /\ asked # Nothing /\ Len(queue) < MaxRequests
  /\ queue' = Append(queue, asked)
  /\ asked' = Nothing
  /\ UNCHANGED held

\* Only a full queue refuses a task.
Refuse ==
  /\ asked # Nothing /\ Len(queue) = MaxRequests
  /\ asked' = Nothing
  /\ UNCHANGED <<queue, held>>

Get(w) ==
  /\ queue # <<>> /\ held[w] = Nothing
  /\ held' = [held EXCEPT ![w] = Head(queue)]
  /\ queue' = Tail(queue)
  /\ UNCHANGED asked

Drop(w) ==
  /\ held[w] # Nothing
  /\ held' = [held EXCEPT ![w] = Nothing]
  /\ UNCHANGED <<queue, asked>>

Next ==
  \/ \E t \in Tasks : Ask(t)
  \/ Put \/ Refuse
  \/ \E w \in Workers : Get(w) \/ Drop(w)

Spec == Init /\ [][Next]_vars
=============================================================================
