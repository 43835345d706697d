------------------------------ MODULE SqlPool -------------------------------
(***************************************************************************)
(* connection_pool: a list of database connections behind a mutex, with a  *)
(* semaphore that counts them.  Threads take and return a connection by    *)
(* the life of a connectionRAII object.  List and semaphore are updated in *)
(* two steps, and the list is tested for emptiness with no lock at all.    *)
(***************************************************************************)
EXTENDS Integers, Sequences, FiniteSets, SequencesExt

CONSTANTS
  Threads,      \* the callers
  Connections,  \* the connections init() has opened
  NULL,
  Nothing,      \* of a thread that is not in the pool's hands
  Nobody,       \* lock is free
  MaxHandles    \* how many MYSQL objects are ever created (bound)

ASSUME SqlPoolAssumption ==
  /\ IsFiniteSet(Threads) /\ IsFiniteSet(Connections)
  /\ NULL \notin Connections /\ Nothing \notin Connections \cup {NULL}
  /\ Nobody \notin Threads
  /\ MaxHandles \in Nat

VARIABLES
  connList,
  lock,         \* the thread that holds it
  reserve,      \* value of the semaphore
  m_FreeConn, m_CurConn,
  handles,      \* MYSQL objects created and not closed
  destroyed,    \* DestroyPool has run
  pc,           \* where a thread is; see Steps
  con           \* conRAII of each thread

vars == <<connList, lock, reserve, m_FreeConn, m_CurConn, handles, destroyed,
          pc, con>>
counters == <<m_FreeConn, m_CurConn>>

MaxConn == Cardinality(Connections)

Steps == {"out",
          "test", "wait", "lock", "pop", "count", "unlock",     \* GetConnection
          "use",
          "relock", "push", "recount", "reunlock", "post"}  \* ReleaseConnection

TypeOK ==
  /\ connList \in Seq(Connections)
  /\ lock \in Threads \cup {Nobody}
  /\ reserve \in Nat
  /\ m_FreeConn \in Int /\ m_CurConn \in Int /\ handles \in Int
  /\ destroyed \in BOOLEAN
  /\ pc \in [Threads -> Steps]
  /\ con \in [Threads -> Connections \cup {NULL}]

\* init() has connected everything; exit(1) if it could not.
Init ==
  /\ connList \in SetToSeqs(Connections)
  /\ lock = Nobody /\ reserve = MaxConn
  /\ m_FreeConn = MaxConn /\ m_CurConn = 0
  /\ handles = MaxConn /\ destroyed = FALSE
  /\ pc = [t \in Threads |-> "out"]
  /\ con = [t \in Threads |-> NULL]

Goto(t, from, to) == pc[t] = from /\ pc' = [pc EXCEPT ![t] = to]

-----------------------------------------------------------------------------
(* GetConnection.                                                          *)

\* con = mysql_init(nullptr), an object nobody ever uses or closes.
Call(t) ==
  /\ ~destroyed /\ handles < MaxHandles
  /\ Goto(t, "out", "test")
  /\ handles' = handles + 1
  /\ UNCHANGED <<connList, lock, reserve, counters, destroyed, con>>

\* 0 == connList.size(): return NULL.
TestEmpty(t) ==
  /\ connList = <<>>
  /\ Goto(t, "test", "use")
  /\ con' = [con EXCEPT ![t] = NULL]
  /\ UNCHANGED <<connList, lock, reserve, counters, handles, destroyed>>

TestNotEmpty(t) ==
  /\ connList # <<>>
  /\ Goto(t, "test", "wait")
  /\ UNCHANGED <<connList, lock, reserve, counters, handles, destroyed, con>>

\* Mutation of Wait: the semaphore is only looked at.
WaitAndLeave(t) ==
  /\ reserve > 0
  /\ Goto(t, "wait", "lock")
  /\ UNCHANGED <<connList, lock, reserve, counters, handles, destroyed, con>>

Wait(t) ==
  /\ reserve > 0
  /\ Goto(t, "wait", "lock")
  /\ reserve' = reserve - 1
  /\ UNCHANGED <<connList, lock, counters, handles, destroyed, con>>

Lock(t) ==
  /\ lock = Nobody
  /\ lock' = t
  /\ \/ Goto(t, "lock", "pop")
     \/ Goto(t, "relock", "push")
  /\ UNCHANGED <<connList, reserve, counters, handles, destroyed, con>>

\* Mutation of Pop: front() without pop_front().
PopNothing(t) ==
  /\ connList # <<>>
  /\ Goto(t, "pop", "count")
  /\ con' = [con EXCEPT ![t] = Head(connList)]
  /\ UNCHANGED <<connList, lock, reserve, counters, handles, destroyed>>

\* front() and pop_front(); PopFindsOne says that the list is not empty.
Pop(t) ==
  /\ connList # <<>>
  /\ Goto(t, "pop", "count")
  /\ con' = [con EXCEPT ![t] = Head(connList)]
  /\ connList' = Tail(connList)
  /\ UNCHANGED <<lock, reserve, counters, handles, destroyed>>

Count(t) ==
  /\ Goto(t, "count", "unlock")
  /\ m_FreeConn' = m_FreeConn - 1 /\ m_CurConn' = m_CurConn + 1
  /\ UNCHANGED <<connList, lock, reserve, handles, destroyed, con>>

Unlock(t) ==
  /\ \/ Goto(t, "unlock", "use")
     \/ Goto(t, "reunlock", "post")
  /\ lock' = Nobody
  /\ UNCHANGED <<connList, reserve, counters, handles, destroyed, con>>

-----------------------------------------------------------------------------
(* ReleaseConnection.                                                      *)

ReleaseNull(t) ==
  /\ con[t] = NULL
  /\ Goto(t, "use", "out")
  /\ UNCHANGED <<connList, lock, reserve, counters, handles, destroyed, con>>

Release(t) ==
  /\ con[t] # NULL
  /\ Goto(t, "use", "relock")
  /\ UNCHANGED <<connList, lock, reserve, counters, handles, destroyed, con>>

Push(t) ==
  /\ Goto(t, "push", "recount")
  /\ connList' = Append(connList, con[t])
  /\ UNCHANGED <<lock, reserve, counters, handles, destroyed, con>>

\* Mutation of Recount: the connection stays counted as used.
RecountFree(t) ==
  /\ Goto(t, "recount", "reunlock")
  /\ m_FreeConn' = m_FreeConn + 1
  /\ UNCHANGED <<connList, lock, reserve, m_CurConn, handles, destroyed, con>>

Recount(t) ==
  /\ Goto(t, "recount", "reunlock")
  /\ m_FreeConn' = m_FreeConn + 1 /\ m_CurConn' = m_CurConn - 1
  /\ UNCHANGED <<connList, lock, reserve, handles, destroyed, con>>

\* Mutation of Post: the semaphore is not told.
PostNothing(t) ==
  /\ Goto(t, "post", "out")
  /\ UNCHANGED <<connList, lock, reserve, counters, handles, destroyed, con>>

Post(t) ==
  /\ Goto(t, "post", "out")
  /\ reserve' = reserve + 1
  /\ UNCHANGED <<connList, lock, counters, handles, destroyed, con>>

\* ~connection_pool, when the program exits: the threads that used the pool
\* have been joined.  The semaphore keeps its value.
DestroyPool ==
  /\ ~destroyed /\ \A t \in Threads : pc[t] = "out"
  /\ destroyed' = TRUE
  /\ IF connList # <<>>
     THEN /\ handles' = handles - Len(connList)
          /\ m_FreeConn' = 0 /\ m_CurConn' = 0 /\ connList' = <<>>
     ELSE UNCHANGED <<connList, counters, handles>>
  /\ UNCHANGED <<lock, reserve, pc, con>>

Getting(t) ==
  TestEmpty(t) \/ TestNotEmpty(t) \/ Wait(t) \/ Lock(t) \/ Pop(t) \/ Count(t)
    \/ Unlock(t)

Releasing(t) ==
  ReleaseNull(t) \/ Release(t) \/ Push(t) \/ Recount(t) \/ Post(t)

Next ==
  \/ \E t \in Threads : Call(t) \/ Getting(t) \/ Releasing(t)
  \/ DestroyPool

Spec == Init /\ [][Next]_vars

\* The scheduler runs every thread, and the queries return.
Fairness == \A t \in Threads : WF_vars(Getting(t) \/ Releasing(t))

FairSpec == Spec /\ Fairness

-----------------------------------------------------------------------------
(* Properties.                                                             *)

\* The semaphore never promises a connection the list does not have: who has
\* got past reserve.wait() finds the list not empty, although list and
\* semaphore are updated one after the other (sql_connection_pool.cpp 73-78,
\* 95-101).
PopFindsOne == \A t \in Threads : pc[t] = "pop" => connList # <<>>

\* Whenever the lock is free the two counters say how many connections are in
\* the list and how many are out (sql_connection_pool.cpp 80-81, 96-97).
CountersAgree ==
  lock = Nobody /\ ~destroyed =>
    /\ m_FreeConn = Len(connList)
    /\ m_FreeConn + m_CurConn = MaxConn

\* A connection has one holder, none is lost, and nobody is refused while one
\* is free (sql_connection_pool.cpp 66-103).
Pool == INSTANCE ConnectionPool WITH
  free <- {connList[i] : i \in 1..Len(connList)},
  got <- [t \in Threads |->
            IF pc[t] \in {"count", "unlock", "use", "relock", "push"}
            THEN con[t] ELSE Nothing]
ImplementsPool == Pool!Spec

\* As long as threads wait for a connection, one of them gets one
\* (sql_connection_pool.cpp 73-85, 101).
WaitersServed ==
  (\E t \in Threads : pc[t] = "wait") ~> (\E t \in Threads : pc[t] = "unlock")
=============================================================================
