----------------------------- MODULE ThreadPool -----------------------------
(***************************************************************************)
(* threadpool<http_conn>: the event loop appends connections, detached     *)
(* worker threads take them from the front and execute them.  One          *)
(* std::mutex guards the list, one std::condition_variable is notified     *)
(* once per task; wait() may also return without a notification.           *)
(***************************************************************************)
EXTENDS Naturals, Sequences, FiniteSets

CONSTANTS
  Tasks,        \* the shared_ptr<http_conn> values appended
  Empty,        \* a shared_ptr that points to nothing
  Workers,      \* the threads
  Loop,         \* the thread of the event loop
  Nobody,       \* m_mutex is free
  MaxRequests,  \* m_max_requests
  MaxAppends,   \* how often append is called (bound)
  LoopEnds      \* may epoll_wait fail, which ends the loop and the pool?

ASSUME ThreadPoolAssumption ==
  /\ Empty \notin Tasks
  /\ Workers # {} /\ IsFiniteSet(Workers)
  /\ Loop \notin Workers /\ Nobody \notin Workers \cup {Loop}
  /\ MaxRequests \in Nat \ {0} /\ MaxAppends \in Nat
  /\ LoopEnds \in BOOLEAN

VARIABLES
  m_workqueue,
  m_mutex,      \* the thread that holds it
  waiters,      \* threads asleep in cv.wait
  m_stop,
  lpc,          \* the loop, in append: "out", "lock", "size", "push",
                \* "notify", "unlock"; "ended"
  arg,          \* the argument of append
  appends,      \* calls of append so far
  wpc,          \* a worker, in run: "lock", "test", "wait", "front", "pop",
                \* "run", "execute"
  request       \* the local variable of run

vars == <<m_workqueue, m_mutex, waiters, m_stop, lpc, arg, appends, wpc,
          request>>

TypeOK ==
  /\ m_workqueue \in Seq(Tasks)
  /\ m_mutex \in Workers \cup {Loop, Nobody}
  /\ waiters \subseteq Workers
  /\ m_stop \in BOOLEAN
  /\ lpc \in {"out", "lock", "size", "push", "notify", "unlock", "ended"}
  /\ arg \in Tasks \cup {Empty}
  /\ appends \in 0..MaxAppends
  /\ wpc \in [Workers -> {"lock", "test", "wait", "front", "pop", "run",
                          "execute"}]
  /\ request \in [Workers -> Tasks \cup {Empty}]

Init ==
  /\ m_workqueue = <<>> /\ m_mutex = Nobody /\ waiters = {}
  /\ m_stop = FALSE
  /\ lpc = "out" /\ arg = Empty /\ appends = 0
  /\ wpc = [w \in Workers |-> "lock"]
  /\ request = [w \in Workers |-> Empty]

-----------------------------------------------------------------------------
(* append, run by the event loop.                                          *)

Call(t) ==
  /\ lpc = "out" /\ appends < MaxAppends
  /\ lpc' = "lock" /\ arg' = t /\ appends' = appends + 1
  /\ UNCHANGED <<m_workqueue, m_mutex, waiters, m_stop, wpc, request>>

LoopLocks ==
  /\ lpc = "lock" /\ m_mutex = Nobody
  /\ m_mutex' = Loop /\ lpc' = "size"
  /\ UNCHANGED <<m_workqueue, waiters, m_stop, arg, appends, wpc, request>>

\* Mutation of HasRoom: one task too many.
HasRoomForOneMore == Len(m_workqueue) <= MaxRequests

HasRoom == Len(m_workqueue) < MaxRequests

\* m_workqueue.size() >= m_max_requests: return false; else go on.
TestSize ==
  /\ lpc = "size"
  /\ IF HasRoom
     THEN lpc' = "push" /\ UNCHANGED <<m_mutex, arg>>
     ELSE lpc' = "out" /\ m_mutex' = Nobody /\ arg' = Empty
  /\ UNCHANGED <<m_workqueue, waiters, m_stop, appends, wpc, request>>

Push ==
  /\ lpc = "push"
  /\ m_workqueue' = Append(m_workqueue, arg)
  /\ arg' = Empty /\ lpc' = "notify"
  /\ UNCHANGED <<m_mutex, waiters, m_stop, appends, wpc, request>>

\* Thread w leaves the condition variable; it must lock m_mutex again.
Wake(w) ==
  /\ waiters' = waiters \ {w}
  /\ wpc' = [wpc EXCEPT ![w] = "lock"]

\* Mutation of NotifyOne: only the first task of an empty queue is notified.
NotifyFirst ==
  /\ lpc = "notify"
  /\ lpc' = "unlock"
  /\ \/ Len(m_workqueue) = 1 /\ \E w \in waiters : Wake(w)
     \/ (Len(m_workqueue) > 1 \/ waiters = {}) /\ UNCHANGED <<waiters, wpc>>
  /\ UNCHANGED <<m_workqueue, m_mutex, m_stop, arg, appends, request>>

\* Mutation of NotifyOne: no notification at all.
NotifyNobody ==
  /\ lpc = "notify"
  /\ lpc' = "unlock"
  /\ UNCHANGED <<m_workqueue, m_mutex, waiters, m_stop, arg, appends, wpc,
                 request>>

NotifyOne ==
  /\ lpc = "notify"
  /\ lpc' = "unlock"
  /\ \/ \E w \in waiters : Wake(w)
     \/ waiters = {} /\ UNCHANGED <<waiters, wpc>>
  /\ UNCHANGED <<m_workqueue, m_mutex, m_stop, arg, appends, request>>

LoopUnlocks ==
  /\ lpc = "unlock"
  /\ m_mutex' = Nobody /\ lpc' = "out"
  /\ UNCHANGED <<m_workqueue, waiters, m_stop, arg, appends, wpc, request>>

\* The loop ends and ~TinyWebServer deletes the pool: the body of the
\* destructor.  What the destruction of the list, the mutex and the condition
\* variable does to workers that still use them is left out.
Destroy ==
  /\ LoopEnds /\ lpc = "out"
  /\ m_stop' = TRUE /\ lpc' = "ended"
  /\ UNCHANGED <<m_workqueue, m_mutex, waiters, arg, appends, wpc, request>>

-----------------------------------------------------------------------------
(* run, the workers' loop.                                                 *)

Lock(w) ==
  /\ wpc[w] = "lock" /\ m_mutex = Nobody
  /\ m_mutex' = w
  /\ wpc' = [wpc EXCEPT ![w] = "test"]
  /\ UNCHANGED <<m_workqueue, waiters, m_stop, lpc, arg, appends, request>>

\* cv.wait tests its predicate, and sleeps, letting m_mutex go, if it fails.
Test(w) ==
  /\ wpc[w] = "test"
  /\ IF m_workqueue # <<>>
     THEN /\ wpc' = [wpc EXCEPT ![w] = "front"]
          /\ UNCHANGED <<m_mutex, waiters>>
     ELSE /\ wpc' = [wpc EXCEPT ![w] = "wait"]
          /\ waiters' = waiters \cup {w} /\ m_mutex' = Nobody
  /\ UNCHANGED <<m_workqueue, m_stop, lpc, arg, appends, request>>

\* wait() returns though nobody notified.
SpuriousWakeup(w) ==
  /\ w \in waiters
  /\ Wake(w)
  /\ UNCHANGED <<m_workqueue, m_mutex, m_stop, lpc, arg, appends, request>>

Front(w) ==
  /\ wpc[w] = "front"
  /\ request' = [request EXCEPT ![w] = Head(m_workqueue)]
  /\ wpc' = [wpc EXCEPT ![w] = "pop"]
  /\ UNCHANGED <<m_workqueue, m_mutex, waiters, m_stop, lpc, arg, appends>>

\* pop_front, and the end of the scope of the lock.
Pop(w) ==
  /\ wpc[w] = "pop" /\ m_workqueue # <<>>
  /\ m_workqueue' = Tail(m_workqueue)
  /\ m_mutex' = Nobody
  /\ wpc' = [wpc EXCEPT ![w] = "run"]
  /\ UNCHANGED <<waiters, m_stop, lpc, arg, appends, request>>

\* An empty pointer is skipped, anything else is executed.
Run(w) ==
  /\ wpc[w] = "run"
  /\ wpc' = [wpc EXCEPT ![w] = IF request[w] = Empty THEN "lock" ELSE "execute"]
  /\ UNCHANGED <<m_workqueue, m_mutex, waiters, m_stop, lpc, arg, appends,
                 request>>

\* execute() returns; request goes out of scope.
Return(w) ==
  /\ wpc[w] = "execute"
  /\ request' = [request EXCEPT ![w] = Empty]
  /\ wpc' = [wpc EXCEPT ![w] = "lock"]
  /\ UNCHANGED <<m_workqueue, m_mutex, waiters, m_stop, lpc, arg, appends>>

Appending == LoopLocks \/ TestSize \/ Push \/ NotifyOne \/ LoopUnlocks

Running(w) ==
  Lock(w) \/ Test(w) \/ Front(w) \/ Pop(w) \/ Run(w) \/ Return(w)

Next ==
  \/ \E t \in Tasks : Call(t)
  \/ Appending \/ Destroy
  \/ \E w \in Workers : Running(w) \/ SpuriousWakeup(w)

Spec == Init /\ [][Next]_vars

\* The scheduler runs the loop and every worker; execute() returns.
Fairness == WF_vars(Appending) /\ \A w \in Workers : WF_vars(Running(w))

FairSpec == Spec /\ Fairness

-----------------------------------------------------------------------------
(* Properties.                                                             *)

\* Nobody sleeps while a task has nobody coming for it: as long as a worker
\* waits, there is an awake worker on its way to the queue for every task in
\* it, but for the one whose notification is due (threadpool.h 145-153,
\* 183-194).
Coming == {w \in Workers : wpc[w] \in {"lock", "test", "front", "pop"}}

NoSleepOverWork ==
  waiters # {} =>
    Len(m_workqueue) <= Cardinality(Coming) + (IF lpc = "notify" THEN 1 ELSE 0)

\* The list behind the mutex is a bounded first-in first-out queue: no task is
\* lost, taken twice or overtaken, and only a full queue refuses one
\* (threadpool.h 145-153, 183-194).
Queue == INSTANCE TaskQueue WITH
  Nothing <- Empty,
  queue <- m_workqueue,
  asked <- arg,
  held <- [w \in Workers |-> IF wpc[w] \in {"run", "execute"}
                             THEN request[w] ELSE Empty]
ImplementsQueue == Queue!Spec

\* An accepted connection comes to a worker, whatever the order in which the
\* threads get the mutex, unless the pool is deleted first (threadpool.h
\* 145-153, 183-199).
TasksExecuted ==
  \A t \in Tasks :
    (\E i \in 1..Len(m_workqueue) : m_workqueue[i] = t)
      ~> \/ \E w \in Workers : wpc[w] = "execute" /\ request[w] = t
         \/ m_stop
=============================================================================
