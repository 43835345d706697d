-------------------------- MODULE ThreadPoolProofs --------------------------
(***************************************************************************)
(* What ThreadPool guarantees for any number of tasks and workers and any  *)
(* bound on the queue: the mutex makes the steps of append and run atomic, *)
(* so that the list is a bounded queue, and no worker sleeps over a task.  *)
(***************************************************************************)
EXTENDS ThreadPool, FiniteSetTheorems, SequenceTheorems, TLAPS

\* Who holds the mutex.
LockInv ==
  /\ \A w \in Workers : wpc[w] \in {"test", "front", "pop"} <=> m_mutex = w
  /\ lpc \in {"size", "push", "notify", "unlock"} <=> m_mutex = Loop

\* Who sleeps, and what the threads inside the critical sections know.
RunInv ==
  \A w \in Workers :
    /\ wpc[w] = "wait" <=> w \in waiters
    /\ wpc[w] \in {"front", "pop"} => m_workqueue # <<>>
    /\ wpc[w] = "pop" => request[w] = Head(m_workqueue)
    /\ wpc[w] \in {"run", "execute"} => request[w] \in Tasks

AppendInv ==
  /\ lpc \in {"lock", "size", "push"} <=> arg # Empty
  /\ Len(m_workqueue) <= MaxRequests
  /\ lpc = "push" => Len(m_workqueue) < MaxRequests

PoolInv == TypeOK /\ LockInv /\ RunInv /\ AppendInv /\ NoSleepOverWork

-----------------------------------------------------------------------------
(* The workers that are awake and not executing.                           *)

LEMMA ComingFinite ==
  /\ IsFiniteSet(Coming) /\ Cardinality(Coming) \in Nat
BY ThreadPoolAssumption, FS_Subset, FS_CardinalityType DEF Coming

LEMMA ComingJoins ==
  ASSUME wpc \in [Workers -> {"lock", "test", "wait", "front", "pop", "run",
                              "execute"}],
         NEW w \in Workers, w \notin Coming, wpc' = [wpc EXCEPT ![w] = "lock"]
  PROVE  /\ Cardinality(Coming') = Cardinality(Coming) + 1
         /\ IsFiniteSet(Coming') /\ Cardinality(Coming') \in Nat
<1>1. Coming' = Coming \cup {w}
  BY DEF Coming
<1> QED BY <1>1, ComingFinite, FS_AddElement

LEMMA ComingStays ==
  ASSUME \A w \in Workers : wpc'[w] \in {"lock", "test", "front", "pop"}
                              <=> wpc[w] \in {"lock", "test", "front", "pop"}
  PROVE  Coming' = Coming
BY DEF Coming

LEMMA ComingLeaves ==
  ASSUME wpc \in [Workers -> {"lock", "test", "wait", "front", "pop", "run",
                              "execute"}],
         NEW w \in Coming, wpc' = [wpc EXCEPT ![w] = "run"]
  PROVE  /\ Cardinality(Coming') = Cardinality(Coming) - 1
         /\ IsFiniteSet(Coming') /\ Cardinality(Coming') \in Nat
<1>1. Coming' = Coming \ {w}
  BY DEF Coming
<1> QED BY <1>1, ComingFinite, FS_RemoveElement, FS_CardinalityType

-----------------------------------------------------------------------------
LEMMA PoolInit == Init => PoolInv
<1> SUFFICES ASSUME Init PROVE PoolInv
  OBVIOUS
<1>1. TypeOK
  <2>1. m_workqueue \in Seq(Tasks)
    BY EmptySeq DEF Init
  <2>2. m_stop \in BOOLEAN
    BY Zenon DEF Init
  <2>3. /\ m_mutex \in Workers \cup {Loop, Nobody} /\ waiters \subseteq Workers
        /\ arg \in Tasks \cup {Empty}
        /\ request \in [Workers -> Tasks \cup {Empty}]
    BY DEF Init
  <2>4. appends \in 0..MaxAppends
    BY ThreadPoolAssumption DEF Init
  <2>5. /\ lpc \in {"out", "lock", "size", "push", "notify", "unlock", "ended"}
        /\ wpc \in [Workers -> {"lock", "test", "wait", "front", "pop", "run",
                                "execute"}]
    BY DEF Init
  <2> QED BY <2>1, <2>2, <2>3, <2>4, <2>5 DEF TypeOK
<1>2. LockInv
  BY ThreadPoolAssumption DEF Init, LockInv
<1>3. RunInv /\ AppendInv
  BY ThreadPoolAssumption DEF Init, RunInv, AppendInv
<1>4. NoSleepOverWork
  BY DEF Init, NoSleepOverWork
<1> QED BY <1>1, <1>2, <1>3, <1>4 DEF PoolInv

LEMMA PoolNext == PoolInv /\ [Next]_vars => PoolInv'
<1> SUFFICES ASSUME PoolInv, [Next]_vars PROVE PoolInv'
  OBVIOUS
<1> USE ThreadPoolAssumption
<1>1. TypeOK /\ LockInv /\ RunInv /\ AppendInv /\ NoSleepOverWork
  BY DEF PoolInv
<1>2. /\ m_workqueue \in Seq(Tasks) /\ Len(m_workqueue) \in Nat
      /\ wpc \in [Workers -> {"lock", "test", "wait", "front", "pop", "run",
                              "execute"}]
      /\ request \in [Workers -> Tasks \cup {Empty}]
      /\ Cardinality(Coming) \in Nat
  BY <1>1, ComingFinite DEF TypeOK
<1>3. ASSUME NEW t \in Tasks, Call(t) PROVE PoolInv'
  <2>1. TypeOK'
    BY <1>1, <1>3 DEF Call, TypeOK
  <2>2. LockInv' /\ RunInv' /\ AppendInv'
    BY <1>1, <1>3 DEF Call, LockInv, RunInv, AppendInv
  <2>3. NoSleepOverWork'
    BY <1>1, <1>3 DEF Call, NoSleepOverWork, Coming
  <2> QED BY <2>1, <2>2, <2>3 DEF PoolInv
<1>4. CASE LoopLocks
  <2>1. TypeOK'
    BY <1>1, <1>4 DEF LoopLocks, TypeOK
  <2>2. LockInv' /\ RunInv' /\ AppendInv'
    BY <1>1, <1>4 DEF LoopLocks, LockInv, RunInv, AppendInv
  <2>3. NoSleepOverWork'
    BY <1>1, <1>4 DEF LoopLocks, NoSleepOverWork, Coming
  <2> QED BY <2>1, <2>2, <2>3 DEF PoolInv
<1>5. CASE TestSize
  <2>1. TypeOK'
    BY <1>1, <1>5 DEF TestSize, TypeOK
  <2>2. LockInv' /\ RunInv'
    BY <1>1, <1>5 DEF TestSize, LockInv, RunInv
  <2>3. AppendInv'
    BY <1>1, <1>5 DEF TestSize, AppendInv, HasRoom
  <2>4. NoSleepOverWork'
    BY <1>1, <1>5 DEF TestSize, NoSleepOverWork, Coming
  <2> QED BY <2>1, <2>2, <2>3, <2>4 DEF PoolInv
<1>6. CASE Push
  <2>1. /\ arg \in Tasks /\ m_workqueue' = Append(m_workqueue, arg)
        /\ lpc = "push" /\ lpc' = "notify" /\ arg' = Empty
        /\ UNCHANGED <<m_mutex, waiters, m_stop, appends, wpc, request>>
    BY <1>1, <1>6 DEF Push, AppendInv, TypeOK
  <2>2. /\ m_workqueue' \in Seq(Tasks) /\ Len(m_workqueue') = Len(m_workqueue) + 1
        /\ m_workqueue' # <<>>
        /\ m_workqueue # <<>> => Head(m_workqueue') = Head(m_workqueue)
    BY <1>2, <2>1, AppendProperties
  <2>3. TypeOK'
    BY <1>1, <2>1, <2>2 DEF TypeOK
  <2>4. LockInv' /\ RunInv'
    BY <1>1, <2>1, <2>2 DEF LockInv, RunInv
  <2>5. AppendInv'
    BY <1>1, <1>2, <2>1, <2>2 DEF AppendInv
  <2>6. NoSleepOverWork'
    BY <1>1, <1>2, <2>1, <2>2 DEF NoSleepOverWork, Coming
  <2> QED BY <2>3, <2>4, <2>5, <2>6 DEF PoolInv
<1>7. CASE NotifyOne
  <2>1. /\ lpc = "notify" /\ lpc' = "unlock"
        /\ UNCHANGED <<m_workqueue, m_mutex, m_stop, arg, appends, request>>
    BY <1>7 DEF NotifyOne
  <2>2. CASE waiters = {} /\ UNCHANGED <<waiters, wpc>>
    <3>1. TypeOK' /\ LockInv' /\ RunInv' /\ AppendInv'
      BY <1>1, <2>1, <2>2 DEF TypeOK, LockInv, RunInv, AppendInv
    <3>2. NoSleepOverWork'
      BY <2>2 DEF NoSleepOverWork
    <3> QED BY <3>1, <3>2 DEF PoolInv
  <2>3. ASSUME NEW w \in waiters, Wake(w) PROVE PoolInv'
    <3>1. w \in Workers /\ wpc[w] = "wait" /\ wpc' = [wpc EXCEPT ![w] = "lock"]
          /\ waiters' = waiters \ {w}
      BY <1>1, <2>3 DEF TypeOK, RunInv, Wake
    <3>2. TypeOK'
      BY <1>1, <2>1, <3>1 DEF TypeOK
    <3>3. LockInv' /\ AppendInv'
      BY <1>1, <1>2, <2>1, <3>1 DEF LockInv, AppendInv
    <3>4. RunInv'
      BY <1>1, <1>2, <2>1, <3>1 DEF RunInv
    <3>5. Cardinality(Coming') = Cardinality(Coming) + 1
      BY <1>2, <3>1, ComingJoins DEF Coming
    <3>6. NoSleepOverWork'
      BY <1>1, <1>2, <2>1, <2>3, <3>1, <3>5 DEF NoSleepOverWork
    <3> QED BY <3>2, <3>3, <3>4, <3>6 DEF PoolInv
  <2> QED BY <1>7, <2>2, <2>3 DEF NotifyOne
<1>8. CASE LoopUnlocks
  <2>1. TypeOK'
    BY <1>1, <1>8 DEF LoopUnlocks, TypeOK
  <2>2. LockInv' /\ RunInv' /\ AppendInv'
    BY <1>1, <1>8 DEF LoopUnlocks, LockInv, RunInv, AppendInv
  <2>3. NoSleepOverWork'
    BY <1>1, <1>8 DEF LoopUnlocks, NoSleepOverWork, Coming
  <2> QED BY <2>1, <2>2, <2>3 DEF PoolInv
<1>9. CASE Destroy
  <2>1. TypeOK'
    BY <1>1, <1>9 DEF Destroy, TypeOK
  <2>2. LockInv' /\ RunInv' /\ AppendInv'
    BY <1>1, <1>9 DEF Destroy, LockInv, RunInv, AppendInv
  <2>3. NoSleepOverWork'
    BY <1>1, <1>9 DEF Destroy, NoSleepOverWork, Coming
  <2> QED BY <2>1, <2>2, <2>3 DEF PoolInv
<1>10. ASSUME NEW w \in Workers, Lock(w) PROVE PoolInv'
  <2>1. TypeOK'
    BY <1>1, <1>10 DEF Lock, TypeOK
  <2>2. LockInv'
    BY <1>1, <1>2, <1>10 DEF Lock, LockInv
  <2>3. RunInv' /\ AppendInv'
    BY <1>1, <1>2, <1>10 DEF Lock, RunInv, AppendInv
  <2>4. Coming' = Coming
    BY <1>2, <1>10, ComingStays DEF Lock
  <2>5. NoSleepOverWork'
    BY <1>1, <1>10, <2>4 DEF Lock, NoSleepOverWork
  <2> QED BY <2>1, <2>2, <2>3, <2>5 DEF PoolInv
<1>11. ASSUME NEW w \in Workers, Test(w) PROVE PoolInv'
  <2>1. TypeOK'
    BY <1>1, <1>11 DEF Test, TypeOK
  <2>2. LockInv'
    BY <1>1, <1>2, <1>11 DEF Test, LockInv
  <2>3. RunInv' /\ AppendInv'
    BY <1>1, <1>2, <1>11 DEF Test, RunInv, AppendInv
  <2>4. CASE m_workqueue # <<>>
    <3>1. Coming' = Coming
      BY <1>2, <1>11, <2>4, ComingStays DEF Test
    <3>2. NoSleepOverWork'
      BY <1>1, <1>11, <2>4, <3>1 DEF Test, NoSleepOverWork
    <3> QED BY <2>1, <2>2, <2>3, <3>2 DEF PoolInv
  <2>5. CASE m_workqueue = <<>>
    <3>1. Len(m_workqueue') = 0
      BY <1>11, <2>5 DEF Test
    <3>2. Cardinality(Coming') \in Nat
      BY <1>11, ThreadPoolAssumption, FS_Subset, FS_CardinalityType
        DEF Coming
    <3>3. NoSleepOverWork'
      BY <3>1, <3>2 DEF NoSleepOverWork
    <3> QED BY <2>1, <2>2, <2>3, <3>3 DEF PoolInv
  <2> QED BY <2>4, <2>5
<1>12. ASSUME NEW w \in Workers, SpuriousWakeup(w) PROVE PoolInv'
  <2>1. /\ w \in waiters /\ wpc[w] = "wait" /\ waiters' = waiters \ {w}
        /\ wpc' = [wpc EXCEPT ![w] = "lock"]
        /\ UNCHANGED <<m_workqueue, m_mutex, m_stop, lpc, arg, appends, request>>
    BY <1>1, <1>12 DEF SpuriousWakeup, Wake, RunInv
  <2>2. TypeOK'
    BY <1>1, <2>1 DEF TypeOK
  <2>3. LockInv' /\ AppendInv'
    BY <1>1, <1>2, <2>1 DEF LockInv, AppendInv
  <2>4. RunInv'
    BY <1>1, <1>2, <2>1 DEF RunInv
  <2>5. Cardinality(Coming') = Cardinality(Coming) + 1
    BY <1>2, <2>1, ComingJoins DEF Coming
  <2>6. NoSleepOverWork'
    BY <1>1, <1>2, <2>1, <2>5 DEF NoSleepOverWork
  <2> QED BY <2>2, <2>3, <2>4, <2>6 DEF PoolInv
<1>13. ASSUME NEW w \in Workers, Front(w) PROVE PoolInv'
  <2>1. m_workqueue # <<>> /\ Head(m_workqueue) \in Tasks
    BY <1>1, <1>2, <1>13, HeadTailProperties DEF Front, RunInv
  <2>2. TypeOK'
    BY <1>1, <1>13, <2>1 DEF Front, TypeOK
  <2>3. LockInv' /\ AppendInv'
    BY <1>1, <1>2, <1>13 DEF Front, LockInv, AppendInv
  <2>4. RunInv'
    BY <1>1, <1>2, <1>13, <2>1 DEF Front, RunInv
  <2>5. Coming' = Coming
    BY <1>2, <1>13, ComingStays DEF Front
  <2>6. NoSleepOverWork'
    BY <1>1, <1>13, <2>5 DEF Front, NoSleepOverWork
  <2> QED BY <2>2, <2>3, <2>4, <2>6 DEF PoolInv
<1>14. ASSUME NEW w \in Workers, Pop(w) PROVE PoolInv'
  <2>1. /\ m_workqueue # <<>> /\ m_workqueue' = Tail(m_workqueue)
        /\ wpc[w] = "pop" /\ wpc' = [wpc EXCEPT ![w] = "run"]
        /\ m_mutex = w /\ m_mutex' = Nobody /\ request[w] \in Tasks
        /\ lpc \notin {"size", "push", "notify", "unlock"}
        /\ UNCHANGED <<waiters, m_stop, lpc, arg, appends, request>>
    BY <1>1, <1>2, <1>14, HeadTailProperties DEF Pop, RunInv, LockInv
  <2>2. /\ m_workqueue' \in Seq(Tasks)
        /\ Len(m_workqueue') = Len(m_workqueue) - 1
    BY <1>2, <2>1, HeadTailProperties
  <2>3. TypeOK'
    BY <1>1, <2>1, <2>2 DEF TypeOK
  <2>4. LockInv'
    BY <1>1, <1>2, <2>1 DEF LockInv
  <2>5. RunInv'
    BY <1>1, <1>2, <2>1 DEF RunInv, LockInv
  <2>6. AppendInv'
    BY <1>1, <1>2, <2>1, <2>2 DEF AppendInv
  <2>7. Cardinality(Coming') = Cardinality(Coming) - 1
    BY <1>2, <2>1, ComingLeaves DEF Coming
  <2>8. NoSleepOverWork'
    BY <1>1, <1>2, <2>1, <2>2, <2>7 DEF NoSleepOverWork
  <2> QED BY <2>3, <2>4, <2>5, <2>6, <2>8 DEF PoolInv
<1>15. ASSUME NEW w \in Workers, Run(w) PROVE PoolInv'
  <2>1. request[w] \in Tasks /\ wpc' = [wpc EXCEPT ![w] = "execute"]
    BY <1>1, <1>15 DEF Run, RunInv
  <2>2. TypeOK'
    BY <1>1, <1>15, <2>1 DEF Run, TypeOK
  <2>3. LockInv' /\ AppendInv'
    BY <1>1, <1>2, <1>15, <2>1 DEF Run, LockInv, AppendInv
  <2>4. RunInv'
    BY <1>1, <1>2, <1>15, <2>1 DEF Run, RunInv
  <2>5. Coming' = Coming
    BY <1>2, <1>15, <2>1, ComingStays DEF Run
  <2>6. NoSleepOverWork'
    BY <1>1, <1>15, <2>5 DEF Run, NoSleepOverWork
  <2> QED BY <2>2, <2>3, <2>4, <2>6 DEF PoolInv
<1>16. ASSUME NEW w \in Workers, Return(w) PROVE PoolInv'
  <2>1. TypeOK'
    BY <1>1, <1>16 DEF Return, TypeOK
  <2>2. LockInv' /\ AppendInv'
    BY <1>1, <1>2, <1>16 DEF Return, LockInv, AppendInv
  <2>3. RunInv'
    BY <1>1, <1>2, <1>16 DEF Return, RunInv
  <2>4. Cardinality(Coming') = Cardinality(Coming) + 1
    BY <1>2, <1>16, ComingJoins DEF Return, Coming
  <2>5. NoSleepOverWork'
    BY <1>1, <1>2, <1>16, <2>4 DEF Return, NoSleepOverWork
  <2> QED BY <2>1, <2>2, <2>3, <2>5 DEF PoolInv
<1>17. CASE UNCHANGED vars
  <2>1. TypeOK' /\ LockInv' /\ RunInv' /\ AppendInv'
    BY <1>1, <1>17 DEF vars, TypeOK, LockInv, RunInv, AppendInv
  <2>2. NoSleepOverWork'
    BY <1>1, <1>17 DEF vars, NoSleepOverWork, Coming
  <2> QED BY <2>1, <2>2 DEF PoolInv
<1> QED BY <1>3, <1>4, <1>5, <1>6, <1>7, <1>8, <1>9, <1>10, <1>11, <1>12,
           <1>13, <1>14, <1>15, <1>16, <1>17 DEF Next, Appending, Running

LEMMA Invariance == Spec => []PoolInv
BY PoolInit, PoolNext, PTL DEF Spec

\* Type invariant of the pool (threadpool.h 26-68).
THEOREM TypeCorrect == Spec => []TypeOK
<1>1. PoolInv => TypeOK
  BY DEF PoolInv
<1> QED BY <1>1, Invariance, PTL

\* However many workers there are and however their wake-ups interleave, none
\* sleeps while a task has nobody coming for it (threadpool.h 145-153,
\* 183-194).
THEOREM NobodySleepsOverWork == Spec => []NoSleepOverWork
<1>1. PoolInv => NoSleepOverWork
  BY DEF PoolInv
<1> QED BY <1>1, Invariance, PTL

-----------------------------------------------------------------------------
(* The refinement: Pop is Get, Return is Drop; a worker that has read the   *)
(* front of the list and not yet removed it has not got the task.           *)

Held == [w \in Workers |-> IF wpc[w] \in {"run", "execute"}
                           THEN request[w] ELSE Empty]

LEMMA QueueInit == Init => Queue!Init
BY DEF Init, Queue!Init

\* What is got is visible only in the steps "run" and "execute".
LEMMA HeldStays ==
  ASSUME \A w \in Workers :
           /\ wpc'[w] \in {"run", "execute"} <=> wpc[w] \in {"run", "execute"}
           /\ wpc[w] \in {"run", "execute"} => request'[w] = request[w]
  PROVE  Held' = Held
BY DEF Held

LEMMA QueueNext == PoolInv /\ [Next]_vars => [Queue!Next]_(Queue!vars)
<1> SUFFICES ASSUME PoolInv, [Next]_vars PROVE [Queue!Next]_(Queue!vars)
  OBVIOUS
<1> USE ThreadPoolAssumption
<1>1. TypeOK /\ LockInv /\ RunInv /\ AppendInv
  BY DEF PoolInv
<1>2. /\ wpc \in [Workers -> {"lock", "test", "wait", "front", "pop", "run",
                              "execute"}]
      /\ request \in [Workers -> Tasks \cup {Empty}]
      /\ m_workqueue \in Seq(Tasks) /\ Len(m_workqueue) \in Nat
      /\ MaxRequests \in Nat
  BY <1>1 DEF TypeOK
<1>3. Queue!vars = <<m_workqueue, arg, Held>>
  BY DEF Queue!vars, Held
<1>4. ASSUME Held' = Held, UNCHANGED <<m_workqueue, arg>>
      PROVE  [Queue!Next]_(Queue!vars)
  BY <1>4 DEF Queue!vars, Held
<1>5. ASSUME NEW t \in Tasks, Call(t) PROVE Queue!Next
  <2>1. arg = Empty /\ arg' = t /\ UNCHANGED m_workqueue
    BY <1>1, <1>5 DEF Call, AppendInv
  <2>2. Held' = Held
    BY <1>5, HeldStays DEF Call
  <2>3. Queue!Ask(t)
    BY <2>1, <2>2 DEF Queue!Ask, Held
  <2> QED BY <2>3 DEF Queue!Next
<1>6. CASE LoopLocks
  BY <1>4, <1>6, HeldStays DEF LoopLocks
<1>7. CASE TestSize
  <2>1. Held' = Held
    BY <1>7, HeldStays DEF TestSize
  <2>2. CASE HasRoom
    BY <1>4, <1>7, <2>1, <2>2 DEF TestSize
  <2>3. CASE ~HasRoom
    <3>1. arg # Empty /\ arg' = Empty /\ UNCHANGED m_workqueue
      BY <1>1, <1>7, <2>3 DEF TestSize, AppendInv
    <3>2. Len(m_workqueue) = MaxRequests
      BY <1>1, <1>2, <2>3 DEF HasRoom, AppendInv
    <3>3. Queue!Refuse
      BY <2>1, <3>1, <3>2 DEF Queue!Refuse, Held
    <3> QED BY <3>3 DEF Queue!Next
  <2> QED BY <2>2, <2>3
<1>8. CASE Push
  <2>1. /\ arg # Empty /\ Len(m_workqueue) < MaxRequests
        /\ m_workqueue' = Append(m_workqueue, arg) /\ arg' = Empty
    BY <1>1, <1>8 DEF Push, AppendInv
  <2>2. Held' = Held
    BY <1>8, HeldStays DEF Push
  <2>3. Queue!Put
    BY <2>1, <2>2 DEF Queue!Put, Held
  <2> QED BY <2>3 DEF Queue!Next
<1>9. CASE NotifyOne
  <2>1. UNCHANGED <<m_workqueue, arg, request>>
    BY <1>9 DEF NotifyOne
  <2>2. CASE UNCHANGED wpc
    BY <1>4, <2>1, <2>2, HeldStays
  <2>3. ASSUME NEW w \in waiters, Wake(w) PROVE Held' = Held
    <3>1. w \in Workers /\ wpc[w] = "wait"
      BY <1>1, <2>3 DEF RunInv, TypeOK
    <3> QED BY <1>2, <2>1, <2>3, <3>1, HeldStays DEF Wake
  <2> QED BY <1>4, <1>9, <2>1, <2>2, <2>3 DEF NotifyOne
<1>10. CASE LoopUnlocks
  BY <1>4, <1>10, HeldStays DEF LoopUnlocks
<1>11. CASE Destroy
  BY <1>4, <1>11, HeldStays DEF Destroy
<1>12. ASSUME NEW w \in Workers, Lock(w) \/ Test(w)
       PROVE  [Queue!Next]_(Queue!vars)
  <2>1. Held' = Held /\ UNCHANGED <<m_workqueue, arg>>
    BY <1>2, <1>12, HeldStays DEF Lock, Test
  <2> QED BY <1>4, <2>1
<1>13. ASSUME NEW w \in Workers, SpuriousWakeup(w)
       PROVE  [Queue!Next]_(Queue!vars)
  <2>1. wpc[w] = "wait"
    BY <1>1, <1>13 DEF SpuriousWakeup, RunInv
  <2>2. Held' = Held /\ UNCHANGED <<m_workqueue, arg>>
    BY <1>2, <1>13, <2>1, HeldStays DEF SpuriousWakeup, Wake
  <2> QED BY <1>4, <2>2
<1>14. ASSUME NEW w \in Workers, Front(w) PROVE [Queue!Next]_(Queue!vars)
  <2>1. Held' = Held /\ UNCHANGED <<m_workqueue, arg>>
    BY <1>2, <1>14, HeldStays DEF Front
  <2> QED BY <1>4, <2>1
<1>15. ASSUME NEW w \in Workers, Pop(w) PROVE Queue!Next
  <2>1. /\ wpc[w] = "pop" /\ m_workqueue # <<>>
        /\ request[w] = Head(m_workqueue)
        /\ m_workqueue' = Tail(m_workqueue)
        /\ wpc' = [wpc EXCEPT ![w] = "run"] /\ request' = request /\ arg' = arg
    BY <1>1, <1>15 DEF Pop, RunInv
  <2>2. Held[w] = Empty
    BY <2>1 DEF Held
  <2>3. Held' = [Held EXCEPT ![w] = Head(m_workqueue)]
    BY <1>2, <2>1 DEF Held
  <2>4. Queue!Get(w)
    BY <2>1, <2>2, <2>3 DEF Queue!Get, Held
  <2> QED BY <2>4 DEF Queue!Next
<1>16. ASSUME NEW w \in Workers, Run(w) PROVE [Queue!Next]_(Queue!vars)
  <2>1. request[w] # Empty
    BY <1>1, <1>16 DEF Run, RunInv
  <2>2. Held' = Held /\ UNCHANGED <<m_workqueue, arg>>
    BY <1>2, <1>16, <2>1, HeldStays DEF Run
  <2> QED BY <1>4, <2>2
<1>17. ASSUME NEW w \in Workers, Return(w) PROVE Queue!Next
  <2>1. /\ wpc[w] = "execute" /\ request[w] # Empty
        /\ UNCHANGED <<m_workqueue, arg>>
    BY <1>1, <1>17 DEF Return, RunInv
  <2>2. Held[w] # Empty
    BY <2>1 DEF Held
  <2>3. Held' = [Held EXCEPT ![w] = Empty]
    BY <1>2, <1>17 DEF Return, Held
  <2>4. Queue!Drop(w)
    BY <2>1, <2>2, <2>3 DEF Queue!Drop, Held
  <2> QED BY <2>4 DEF Queue!Next
<1>18. CASE UNCHANGED vars
  BY <1>4, <1>18, HeldStays DEF vars
<1> QED BY <1>5, <1>6, <1>7, <1>8, <1>9, <1>10, <1>11, <1>12, <1>13, <1>14,
           <1>15, <1>16, <1>17, <1>18 DEF Next, Appending, Running

\* With any number of workers the list behind the mutex is a bounded queue: no
\* task is lost, taken twice or overtaken, only a full queue refuses one
\* (threadpool.h 145-153, 183-194).
THEOREM PoolIsQueue == Spec => ImplementsQueue
BY QueueInit, QueueNext, Invariance, PTL DEF Spec, ImplementsQueue, Queue!Spec
=============================================================================
