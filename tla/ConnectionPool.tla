--------------------------- MODULE ConnectionPool ---------------------------
(***************************************************************************)
(* What the callers of connection_pool see of it: a set of connections,    *)
(* each free or held by one thread.  A thread that asks gets one that is   *)
(* free, or nothing if there is none.  Module SqlPool implements this with *)
(* a list, a mutex, a semaphore and two counters.                          *)
(***************************************************************************)
CONSTANTS
  Threads,      \* the callers
  Connections,  \* MYSQL objects connected to the database
  NULL,         \* the answer when no connection is free
  Nothing       \* of a thread that has not asked, or has given back

VARIABLES
  free,         \* the connections nobody holds
  got           \* what each thread has got

vars == <<free, got>>

Init ==
  /\ free = Connections
  /\ got = [t \in Threads |-> Nothing]

Take(t) ==
  /\ got[t] = Nothing
  /\ \E c \in free : /\ free' = free \ {c}
                     /\ got' = [got EXCEPT ![t] = c]

Refuse(t) ==
  /\ got[t] = Nothing /\ free = {}
  /\ got' = [got EXCEPT ![t] = NULL]
  /\ UNCHANGED free

Give(t) ==
  /\ got[t] \in Connections
  /\ free' = free \cup {got[t]}
  /\ got' = [got EXCEPT ![t] = Nothing]

Leave(t) ==
  /\ got[t] = NULL
  /\ got' = [got EXCEPT ![t] = Nothing]
  /\ UNCHANGED free

\* The connections are closed when nobody holds one any more.
Close ==
  /\ \A t \in Threads : got[t] = Nothing
  /\ free' = {}
  /\ UNCHANGED got

Next ==
  \/ \E t \in Threads : Take(t) \/ Refuse(t) \/ Give(t) \/ Leave(t)
  \/ Close

Spec == Init /\ [][Next]_vars
=============================================================================
