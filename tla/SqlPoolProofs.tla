---------------------------- MODULE SqlPoolProofs ---------------------------
(***************************************************************************)
(* What SqlPool guarantees for any number of threads and connections: list *)
(* and semaphore agree up to the threads that are between the two, the     *)
(* counters are exact, and the whole implements ConnectionPool.            *)
(***************************************************************************)
EXTENDS SqlPool, FiniteSetTheorems, SequenceTheorems, TLAPS

At(S) == {t \in Threads : pc[t] \in S}

\* Past reserve.wait() and not yet in possession of a connection.
Taking == {"lock", "pop"}
\* The connection is in the list, the semaphore does not know it yet.
Posting == {"recount", "reunlock", "post"}
Locking == {"pop", "count", "unlock", "push", "recount", "reunlock"}
Holding == {"count", "unlock", "use", "relock", "push"}

Elements(s) == {s[i] : i \in 1..Len(s)}

LockInv == \A t \in Threads : pc[t] \in Locking <=> lock = t

SemaphoreInv ==
  ~destroyed => Len(connList) = reserve + Cardinality(At(Taking))
                                        + Cardinality(At(Posting))

CountInv ==
  ~destroyed =>
    /\ m_FreeConn + m_CurConn = MaxConn
    /\ \A t \in Threads :
         /\ pc[t] = "count" => m_FreeConn = Len(connList) + 1
         /\ pc[t] = "recount" => m_FreeConn = Len(connList) - 1
    /\ (\A t \in Threads : pc[t] \notin {"count", "recount"}) =>
         m_FreeConn = Len(connList)

HolderInv ==
  /\ \A i, j \in 1..Len(connList) : connList[i] = connList[j] => i = j
  /\ \A t \in Threads :
       pc[t] \in Holding /\ con[t] # NULL => con[t] \notin Elements(connList)
  /\ \A t \in Threads : pc[t] \in Holding \ {"use"} => con[t] # NULL
  /\ \A t, u \in Threads :
       /\ pc[t] \in Holding /\ pc[u] \in Holding
       /\ con[t] # NULL /\ con[t] = con[u]
       => t = u

DestroyInv == destroyed => \A t \in Threads : pc[t] = "out"

PoolInv ==
  TypeOK /\ LockInv /\ SemaphoreInv /\ CountInv /\ HolderInv /\ DestroyInv

-----------------------------------------------------------------------------
(* Counting the threads in some of the steps.                              *)

LEMMA MaxConnType == MaxConn \in Nat
BY SqlPoolAssumption, FS_CardinalityType DEF MaxConn

LEMMA AtFinite ==
  ASSUME NEW S
  PROVE  IsFiniteSet(At(S)) /\ Cardinality(At(S)) \in Nat
BY SqlPoolAssumption, FS_Subset, FS_CardinalityType DEF At

LEMMA AtJoins ==
  ASSUME NEW S, NEW t \in Threads, NEW to \in S,
         pc \in [Threads -> Steps], pc[t] \notin S,
         pc' = [pc EXCEPT ![t] = to]
  PROVE  Cardinality(At(S)') = Cardinality(At(S)) + 1
<1>1. At(S)' = At(S) \cup {t} /\ t \notin At(S)
  BY DEF At
<1> QED BY <1>1, AtFinite, FS_AddElement

LEMMA AtLeaves ==
  ASSUME NEW S, NEW t \in Threads, NEW to, to \notin S,
         pc \in [Threads -> Steps], pc[t] \in S,
         pc' = [pc EXCEPT ![t] = to]
  PROVE  Cardinality(At(S)') = Cardinality(At(S)) - 1
<1>1. At(S)' = At(S) \ {t} /\ t \in At(S)
  BY DEF At
<1> QED BY <1>1, AtFinite, FS_RemoveElement

LEMMA AtStays ==
  ASSUME NEW S, NEW t \in Threads, NEW to,
         pc \in [Threads -> Steps], pc[t] \in S <=> to \in S,
         pc' = [pc EXCEPT ![t] = to]
  PROVE  At(S)' = At(S)
BY DEF At

\* Who is at one of some steps is counted.
LEMMA AtPositive ==
  ASSUME NEW S, NEW t \in Threads, pc[t] \in S
  PROVE  Cardinality(At(S)) > 0
<1>1. t \in At(S)
  BY DEF At
<1> QED BY <1>1, AtFinite, FS_EmptySet

LEMMA ElementsTail ==
  ASSUME NEW S, NEW s \in Seq(S), s # <<>>,
         \A i, j \in 1..Len(s) : s[i] = s[j] => i = j
  PROVE  /\ Tail(s) \in Seq(S) /\ Len(Tail(s)) = Len(s) - 1
         /\ Head(s) \in S /\ Head(s) \in Elements(s)
         /\ Elements(Tail(s)) = Elements(s) \ {Head(s)}
         /\ \A i, j \in 1..Len(Tail(s)) : Tail(s)[i] = Tail(s)[j] => i = j
<1>1. /\ Tail(s) \in Seq(S) /\ Len(Tail(s)) = Len(s) - 1 /\ Len(s) \in Nat
      /\ Len(s) > 0 /\ Head(s) = s[1] /\ Head(s) \in S
      /\ \A i \in 1..Len(Tail(s)) : Tail(s)[i] = s[i + 1]
  BY HeadTailProperties
<1>2. Head(s) \in Elements(s)
  BY <1>1 DEF Elements
<1>3. Elements(Tail(s)) \subseteq Elements(s) \ {Head(s)}
  <2> SUFFICES ASSUME NEW i \in 1..Len(Tail(s))
               PROVE  Tail(s)[i] \in Elements(s) \ {Head(s)}
    BY DEF Elements
  <2>1. i + 1 \in 1..Len(s) /\ 1 \in 1..Len(s) /\ i + 1 # 1
    BY <1>1
  <2> QED BY <1>1, <2>1 DEF Elements
<1>4. Elements(s) \ {Head(s)} \subseteq Elements(Tail(s))
  <2> SUFFICES ASSUME NEW i \in 1..Len(s), s[i] # Head(s)
               PROVE  s[i] \in Elements(Tail(s))
    BY DEF Elements
  <2>1. i - 1 \in 1..Len(Tail(s)) /\ (i - 1) + 1 = i
    BY <1>1
  <2> QED BY <1>1, <2>1 DEF Elements
<1>5. ASSUME NEW i \in 1..Len(Tail(s)), NEW j \in 1..Len(Tail(s)),
             Tail(s)[i] = Tail(s)[j]
      PROVE  i = j
  <2>1. i + 1 \in 1..Len(s) /\ j + 1 \in 1..Len(s)
    BY <1>1
  <2>2. i + 1 = j + 1
    BY <1>1, <1>5, <2>1
  <2> QED BY <2>2
<1> QED BY <1>1, <1>2, <1>3, <1>4, <1>5

LEMMA ElementsAppend ==
  ASSUME NEW S, NEW s \in Seq(S), NEW e \in S, e \notin Elements(s),
         \A i, j \in 1..Len(s) : s[i] = s[j] => i = j
  PROVE  /\ Append(s, e) \in Seq(S) /\ Len(Append(s, e)) = Len(s) + 1
         /\ Elements(Append(s, e)) = Elements(s) \cup {e}
         /\ \A i, j \in 1..Len(Append(s, e)) :
              Append(s, e)[i] = Append(s, e)[j] => i = j
<1>1. /\ Append(s, e) \in Seq(S) /\ Len(Append(s, e)) = Len(s) + 1
      /\ Len(s) \in Nat /\ Append(s, e)[Len(s) + 1] = e
      /\ \A i \in 1..Len(s) : Append(s, e)[i] = s[i]
  BY AppendProperties
<1>2. \A i \in 1..Len(Append(s, e)) : i \in 1..Len(s) \/ i = Len(s) + 1
  BY <1>1
<1>3. Elements(Append(s, e)) = Elements(s) \cup {e}
  <2>1. Len(s) + 1 \in 1..Len(Append(s, e))
        /\ \A i \in 1..Len(s) : i \in 1..Len(Append(s, e))
    BY <1>1
  <2> QED BY <1>1, <1>2, <2>1 DEF Elements
<1>4. \A i \in 1..Len(s) : s[i] # e
  BY DEF Elements
<1>5. ASSUME NEW i \in 1..Len(Append(s, e)), NEW j \in 1..Len(Append(s, e)),
             Append(s, e)[i] = Append(s, e)[j]
      PROVE  i = j
  BY <1>1, <1>2, <1>4, <1>5
<1> QED BY <1>1, <1>3, <1>5

-----------------------------------------------------------------------------
LEMMA ListInit ==
  ASSUME connList \in SetToSeqs(Connections)
  PROVE  /\ connList \in Seq(Connections) /\ Len(connList) = MaxConn
         /\ Elements(connList) = Connections
         /\ \A i, j \in 1..Len(connList) : connList[i] = connList[j] => i = j
<1>1. /\ connList \in [1..MaxConn -> Connections]
      /\ \A i, j \in 1..MaxConn : i # j => connList[i] # connList[j]
  BY DEF SetToSeqs, MaxConn
<1>2. connList \in Seq(Connections) /\ Len(connList) = MaxConn
  BY <1>1, MaxConnType, LenProperties, SeqDef
<1>3. connList \in Injection(1..MaxConn, Connections)
  BY <1>1 DEF Injection, IsInjective
<1>4. Cardinality(1..MaxConn) = MaxConn
  BY MaxConnType, FS_Interval
<1>5. connList \in Surjection(1..MaxConn, Connections)
  BY <1>3, <1>4, SqlPoolAssumption, FS_Injection DEF MaxConn
<1>6. Elements(connList) = Connections
  BY <1>1, <1>2, <1>5 DEF Elements, Surjection
<1> QED BY <1>1, <1>2, <1>6

LEMMA PoolInit == Init => PoolInv
<1> SUFFICES ASSUME Init PROVE PoolInv
  OBVIOUS
<1>1. /\ connList \in Seq(Connections) /\ Len(connList) = MaxConn
      /\ \A i, j \in 1..Len(connList) : connList[i] = connList[j] => i = j
  BY ListInit DEF Init
<1>2. TypeOK
  <2>1. destroyed \in BOOLEAN
    BY Zenon DEF Init
  <2>2. pc \in [Threads -> Steps] /\ con \in [Threads -> Connections \cup {NULL}]
    BY DEF Init, Steps
  <2>3. /\ lock \in Threads \cup {Nobody} /\ reserve \in Nat
        /\ m_FreeConn \in Int /\ m_CurConn \in Int /\ handles \in Int
    BY MaxConnType DEF Init
  <2> QED BY <1>1, <2>1, <2>2, <2>3 DEF TypeOK
<1>3. LockInv /\ DestroyInv
  BY SqlPoolAssumption DEF Init, LockInv, DestroyInv, Locking
<1>4. SemaphoreInv
  <2>1. At(Taking) = {} /\ At(Posting) = {}
    BY DEF Init, At, Taking, Posting
  <2> QED BY <1>1, <2>1, MaxConnType, FS_EmptySet DEF Init, SemaphoreInv
<1>5. CountInv
  BY <1>1, MaxConnType DEF Init, CountInv
<1>6. HolderInv
  BY <1>1 DEF Init, HolderInv, Holding
<1> QED BY <1>2, <1>3, <1>4, <1>5, <1>6 DEF PoolInv

\* How a thread's step from one place to the next changes the counts.

LEMMA PoolNext == PoolInv /\ [Next]_vars => PoolInv'
<1> SUFFICES ASSUME PoolInv, [Next]_vars PROVE PoolInv'
  OBVIOUS
<1> USE SqlPoolAssumption
<1>1. TypeOK /\ LockInv /\ SemaphoreInv /\ CountInv /\ HolderInv /\ DestroyInv
  BY DEF PoolInv
<1>2. /\ pc \in [Threads -> Steps] /\ con \in [Threads -> Connections \cup {NULL}]
      /\ connList \in Seq(Connections) /\ Len(connList) \in Nat
      /\ reserve \in Nat /\ m_FreeConn \in Int /\ m_CurConn \in Int
      /\ Cardinality(At(Taking)) \in Nat /\ Cardinality(At(Posting)) \in Nat
      /\ MaxConn \in Nat
  BY <1>1, AtFinite, MaxConnType DEF TypeOK
<1>3. \A t \in Threads : pc[t] # "out" => ~destroyed
  BY <1>1 DEF DestroyInv
<1>4. ASSUME NEW t \in Threads, TestEmpty(t) PROVE PoolInv'
  <2>1. /\ pc[t] = "test" /\ pc' = [pc EXCEPT ![t] = "use"]
        /\ ~destroyed /\ ~destroyed'
    BY <1>3, <1>4 DEF TestEmpty, Goto
  <2>2. Cardinality(At(Taking)') = Cardinality(At(Taking))
    BY <1>2, <2>1, AtStays DEF Taking
  <2>3. Cardinality(At(Posting)') = Cardinality(At(Posting))
    BY <1>2, <2>1, AtStays DEF Posting
  <2>4. TypeOK'
    BY <1>1, <1>2, <1>4, <2>1 DEF TestEmpty, TypeOK, Steps, counters
  <2>5. LockInv'
    BY <1>1, <1>2, <1>4, <2>1 DEF TestEmpty, LockInv, Locking
  <2>6. SemaphoreInv'
    BY <1>1, <1>2, <1>4, <2>1, <2>2, <2>3 DEF TestEmpty, SemaphoreInv
  <2>7. CountInv'
    BY <1>1, <1>2, <1>4, <2>1 DEF TestEmpty, CountInv, LockInv, Locking, counters, MaxConn
  <2>8. HolderInv'
    BY <1>1, <1>2, <1>4, <2>1 DEF TestEmpty, HolderInv, Holding, Elements
  <2> QED BY <2>1, <2>4, <2>5, <2>6, <2>7, <2>8
        DEF PoolInv, DestroyInv
<1>5. ASSUME NEW t \in Threads, TestNotEmpty(t) PROVE PoolInv'
  <2>1. /\ pc[t] = "test" /\ pc' = [pc EXCEPT ![t] = "wait"]
        /\ ~destroyed /\ ~destroyed'
    BY <1>3, <1>5 DEF TestNotEmpty, Goto
  <2>2. Cardinality(At(Taking)') = Cardinality(At(Taking))
    BY <1>2, <2>1, AtStays DEF Taking
  <2>3. Cardinality(At(Posting)') = Cardinality(At(Posting))
    BY <1>2, <2>1, AtStays DEF Posting
  <2>4. TypeOK'
    BY <1>1, <1>2, <1>5, <2>1 DEF TestNotEmpty, TypeOK, Steps, counters
  <2>5. LockInv'
    BY <1>1, <1>2, <1>5, <2>1 DEF TestNotEmpty, LockInv, Locking
  <2>6. SemaphoreInv'
    BY <1>1, <1>2, <1>5, <2>1, <2>2, <2>3 DEF TestNotEmpty, SemaphoreInv
  <2>7. CountInv'
    BY <1>1, <1>2, <1>5, <2>1 DEF TestNotEmpty, CountInv, LockInv, Locking, counters, MaxConn
  <2>8. HolderInv'
    BY <1>1, <1>2, <1>5, <2>1 DEF TestNotEmpty, HolderInv, Holding, Elements
  <2> QED BY <2>1, <2>4, <2>5, <2>6, <2>7, <2>8
        DEF PoolInv, DestroyInv
<1>6. ASSUME NEW t \in Threads, Wait(t) PROVE PoolInv'
  <2>1. /\ pc[t] = "wait" /\ pc' = [pc EXCEPT ![t] = "lock"]
        /\ ~destroyed /\ ~destroyed'
    BY <1>3, <1>6 DEF Wait, Goto
  <2>2. Cardinality(At(Taking)') = Cardinality(At(Taking)) + 1
    BY <1>2, <2>1, AtJoins DEF Taking
  <2>3. Cardinality(At(Posting)') = Cardinality(At(Posting))
    BY <1>2, <2>1, AtStays DEF Posting
  <2>4. TypeOK'
    BY <1>1, <1>2, <1>6, <2>1 DEF Wait, TypeOK, Steps, counters
  <2>5. LockInv'
    BY <1>1, <1>2, <1>6, <2>1 DEF Wait, LockInv, Locking
  <2>6. SemaphoreInv'
    BY <1>1, <1>2, <1>6, <2>1, <2>2, <2>3 DEF Wait, SemaphoreInv
  <2>7. CountInv'
    BY <1>1, <1>2, <1>6, <2>1 DEF Wait, CountInv, LockInv, Locking, counters, MaxConn
  <2>8. HolderInv'
    BY <1>1, <1>2, <1>6, <2>1 DEF Wait, HolderInv, Holding, Elements
  <2> QED BY <2>1, <2>4, <2>5, <2>6, <2>7, <2>8
        DEF PoolInv, DestroyInv
<1>7. ASSUME NEW t \in Threads, Lock(t), pc[t] = "lock" PROVE PoolInv'
  <2>1. /\ pc[t] = "lock" /\ pc' = [pc EXCEPT ![t] = "pop"]
        /\ ~destroyed /\ ~destroyed'
    BY <1>3, <1>7 DEF Lock, Goto
  <2>2. Cardinality(At(Taking)') = Cardinality(At(Taking))
    BY <1>2, <2>1, AtStays DEF Taking
  <2>3. Cardinality(At(Posting)') = Cardinality(At(Posting))
    BY <1>2, <2>1, AtStays DEF Posting
  <2>4. TypeOK'
    BY <1>1, <1>2, <1>7, <2>1 DEF Lock, TypeOK, Steps, counters
  <2>5. LockInv'
    BY <1>1, <1>2, <1>7, <2>1 DEF Lock, LockInv, Locking
  <2>6. SemaphoreInv'
    BY <1>1, <1>2, <1>7, <2>1, <2>2, <2>3 DEF Lock, SemaphoreInv
  <2>7. CountInv'
    BY <1>1, <1>2, <1>7, <2>1 DEF Lock, CountInv, LockInv, Locking, counters, MaxConn
  <2>8. HolderInv'
    BY <1>1, <1>2, <1>7, <2>1 DEF Lock, HolderInv, Holding, Elements
  <2> QED BY <2>1, <2>4, <2>5, <2>6, <2>7, <2>8
        DEF PoolInv, DestroyInv
<1>8. ASSUME NEW t \in Threads, Lock(t), pc[t] = "relock" PROVE PoolInv'
  <2>1. /\ pc[t] = "relock" /\ pc' = [pc EXCEPT ![t] = "push"]
        /\ ~destroyed /\ ~destroyed'
    BY <1>3, <1>8 DEF Lock, Goto
  <2>2. Cardinality(At(Taking)') = Cardinality(At(Taking))
    BY <1>2, <2>1, AtStays DEF Taking
  <2>3. Cardinality(At(Posting)') = Cardinality(At(Posting))
    BY <1>2, <2>1, AtStays DEF Posting
  <2>4. TypeOK'
    BY <1>1, <1>2, <1>8, <2>1 DEF Lock, TypeOK, Steps, counters
  <2>5. LockInv'
    BY <1>1, <1>2, <1>8, <2>1 DEF Lock, LockInv, Locking
  <2>6. SemaphoreInv'
    BY <1>1, <1>2, <1>8, <2>1, <2>2, <2>3 DEF Lock, SemaphoreInv
  <2>7. CountInv'
    BY <1>1, <1>2, <1>8, <2>1 DEF Lock, CountInv, LockInv, Locking, counters, MaxConn
  <2>8. HolderInv'
    BY <1>1, <1>2, <1>8, <2>1 DEF Lock, HolderInv, Holding, Elements
  <2> QED BY <2>1, <2>4, <2>5, <2>6, <2>7, <2>8
        DEF PoolInv, DestroyInv
<1>9. ASSUME NEW t \in Threads, Pop(t) PROVE PoolInv'
  <2>1. /\ pc[t] = "pop" /\ pc' = [pc EXCEPT ![t] = "count"]
        /\ ~destroyed /\ ~destroyed'
    BY <1>3, <1>9 DEF Pop, Goto
  <2>2. Cardinality(At(Taking)') = Cardinality(At(Taking)) - 1
    BY <1>2, <2>1, AtLeaves DEF Taking
  <2>3. Cardinality(At(Posting)') = Cardinality(At(Posting))
    BY <1>2, <2>1, AtStays DEF Posting
  <2>4. /\ connList' = Tail(connList) /\ con' = [con EXCEPT ![t] = Head(connList)]
        /\ UNCHANGED <<lock, reserve, m_FreeConn, m_CurConn, handles>>
        /\ connList' \in Seq(Connections) /\ Len(connList') = Len(connList) - 1
        /\ Head(connList) \in Connections /\ Head(connList) \in Elements(connList)
        /\ Elements(connList') = Elements(connList) \ {Head(connList)}
        /\ \A i, j \in 1..Len(connList') : connList'[i] = connList'[j] => i = j
    BY <1>1, <1>2, <1>9, ElementsTail DEF Pop, HolderInv, counters
  <2>5. TypeOK'
    BY <1>1, <1>2, <1>9, <2>1, <2>4 DEF Pop, TypeOK, Steps, counters
  <2>6. LockInv'
    BY <1>1, <1>2, <1>9, <2>1, <2>4 DEF Pop, LockInv, Locking
  <2>7. SemaphoreInv'
    <3>1. reserve' = reserve /\ Len(connList') = Len(connList) - 1
      BY <2>4
    <3>2. Len(connList) = reserve + Cardinality(At(Taking))
                                  + Cardinality(At(Posting))
      BY <1>1, <2>1 DEF SemaphoreInv
    <3>3. Len(connList') = reserve' + Cardinality(At(Taking)')
                                    + Cardinality(At(Posting)')
      BY <1>2, <2>2, <2>3, <3>1, <3>2
    <3> QED BY <3>3 DEF SemaphoreInv
  <2>8. CountInv'
    <3>1. \A u \in Threads : pc[u] \notin {"count", "recount"}
      BY <1>1, <2>1 DEF LockInv, Locking
    <3>2. m_FreeConn = Len(connList) /\ m_FreeConn + m_CurConn = MaxConn
      BY <1>1, <2>1, <3>1 DEF CountInv
    <3>3. /\ m_FreeConn' = m_FreeConn /\ m_CurConn' = m_CurConn
          /\ Len(connList') = Len(connList) - 1
      BY <2>4
    <3>4. \A u \in Threads : pc'[u] \in {"count", "recount"} <=> u = t
      BY <1>2, <2>1, <3>1
    <3>5. pc'[t] = "count" /\ m_FreeConn' = Len(connList') + 1
      BY <1>2, <2>1, <3>2, <3>3
    <3> QED BY <3>2, <3>3, <3>4, <3>5 DEF CountInv, MaxConn
  <2>9. HolderInv'
    BY <1>1, <1>2, <1>9, <2>1, <2>4 DEF HolderInv, Holding
  <2> QED BY <2>1, <2>5, <2>6, <2>7, <2>8, <2>9
        DEF PoolInv, DestroyInv
<1>10. ASSUME NEW t \in Threads, Count(t) PROVE PoolInv'
  <2>1. /\ pc[t] = "count" /\ pc' = [pc EXCEPT ![t] = "unlock"]
        /\ ~destroyed /\ ~destroyed'
    BY <1>3, <1>10 DEF Count, Goto
  <2>2. Cardinality(At(Taking)') = Cardinality(At(Taking))
    BY <1>2, <2>1, AtStays DEF Taking
  <2>3. Cardinality(At(Posting)') = Cardinality(At(Posting))
    BY <1>2, <2>1, AtStays DEF Posting
  <2>4. TypeOK'
    BY <1>1, <1>2, <1>10, <2>1 DEF Count, TypeOK, Steps, counters
  <2>5. LockInv'
    BY <1>1, <1>2, <1>10, <2>1 DEF Count, LockInv, Locking
  <2>6. SemaphoreInv'
    BY <1>1, <1>2, <1>10, <2>1, <2>2, <2>3 DEF Count, SemaphoreInv
  <2>7. CountInv'
    BY <1>1, <1>2, <1>10, <2>1 DEF Count, CountInv, LockInv, Locking, counters, MaxConn
  <2>8. HolderInv'
    BY <1>1, <1>2, <1>10, <2>1 DEF Count, HolderInv, Holding, Elements
  <2> QED BY <2>1, <2>4, <2>5, <2>6, <2>7, <2>8
        DEF PoolInv, DestroyInv
<1>11. ASSUME NEW t \in Threads, Unlock(t), pc[t] = "unlock" PROVE PoolInv'
  <2>1. /\ pc[t] = "unlock" /\ pc' = [pc EXCEPT ![t] = "use"]
        /\ ~destroyed /\ ~destroyed'
    BY <1>3, <1>11 DEF Unlock, Goto
  <2>2. Cardinality(At(Taking)') = Cardinality(At(Taking))
    BY <1>2, <2>1, AtStays DEF Taking
  <2>3. Cardinality(At(Posting)') = Cardinality(At(Posting))
    BY <1>2, <2>1, AtStays DEF Posting
  <2>4. TypeOK'
    BY <1>1, <1>2, <1>11, <2>1 DEF Unlock, TypeOK, Steps, counters
  <2>5. LockInv'
    BY <1>1, <1>2, <1>11, <2>1 DEF Unlock, LockInv, Locking
  <2>6. SemaphoreInv'
    BY <1>1, <1>2, <1>11, <2>1, <2>2, <2>3 DEF Unlock, SemaphoreInv
  <2>7. CountInv'
    BY <1>1, <1>2, <1>11, <2>1 DEF Unlock, CountInv, LockInv, Locking, counters, MaxConn
  <2>8. HolderInv'
    BY <1>1, <1>2, <1>11, <2>1 DEF Unlock, HolderInv, Holding, Elements
  <2> QED BY <2>1, <2>4, <2>5, <2>6, <2>7, <2>8
        DEF PoolInv, DestroyInv
<1>12. ASSUME NEW t \in Threads, Unlock(t), pc[t] = "reunlock" PROVE PoolInv'
  <2>1. /\ pc[t] = "reunlock" /\ pc' = [pc EXCEPT ![t] = "post"]
        /\ ~destroyed /\ ~destroyed'
    BY <1>3, <1>12 DEF Unlock, Goto
  <2>2. Cardinality(At(Taking)') = Cardinality(At(Taking))
    BY <1>2, <2>1, AtStays DEF Taking
  <2>3. Cardinality(At(Posting)') = Cardinality(At(Posting))
    BY <1>2, <2>1, AtStays DEF Posting
  <2>4. TypeOK'
    BY <1>1, <1>2, <1>12, <2>1 DEF Unlock, TypeOK, Steps, counters
  <2>5. LockInv'
    BY <1>1, <1>2, <1>12, <2>1 DEF Unlock, LockInv, Locking
  <2>6. SemaphoreInv'
    BY <1>1, <1>2, <1>12, <2>1, <2>2, <2>3 DEF Unlock, SemaphoreInv
  <2>7. CountInv'
    BY <1>1, <1>2, <1>12, <2>1 DEF Unlock, CountInv, LockInv, Locking, counters, MaxConn
  <2>8. HolderInv'
    BY <1>1, <1>2, <1>12, <2>1 DEF Unlock, HolderInv, Holding, Elements
  <2> QED BY <2>1, <2>4, <2>5, <2>6, <2>7, <2>8
        DEF PoolInv, DestroyInv
<1>13. ASSUME NEW t \in Threads, ReleaseNull(t) PROVE PoolInv'
  <2>1. /\ pc[t] = "use" /\ pc' = [pc EXCEPT ![t] = "out"]
        /\ ~destroyed /\ ~destroyed'
    BY <1>3, <1>13 DEF ReleaseNull, Goto
  <2>2. Cardinality(At(Taking)') = Cardinality(At(Taking))
    BY <1>2, <2>1, AtStays DEF Taking
  <2>3. Cardinality(At(Posting)') = Cardinality(At(Posting))
    BY <1>2, <2>1, AtStays DEF Posting
  <2>4. TypeOK'
    BY <1>1, <1>2, <1>13, <2>1 DEF ReleaseNull, TypeOK, Steps, counters
  <2>5. LockInv'
    BY <1>1, <1>2, <1>13, <2>1 DEF ReleaseNull, LockInv, Locking
  <2>6. SemaphoreInv'
    BY <1>1, <1>2, <1>13, <2>1, <2>2, <2>3 DEF ReleaseNull, SemaphoreInv
  <2>7. CountInv'
    BY <1>1, <1>2, <1>13, <2>1 DEF ReleaseNull, CountInv, LockInv, Locking, counters, MaxConn
  <2>8. HolderInv'
    BY <1>1, <1>2, <1>13, <2>1 DEF ReleaseNull, HolderInv, Holding, Elements
  <2> QED BY <2>1, <2>4, <2>5, <2>6, <2>7, <2>8
        DEF PoolInv, DestroyInv
<1>14. ASSUME NEW t \in Threads, Release(t) PROVE PoolInv'
  <2>1. /\ pc[t] = "use" /\ pc' = [pc EXCEPT ![t] = "relock"]
        /\ ~destroyed /\ ~destroyed'
    BY <1>3, <1>14 DEF Release, Goto
  <2>2. Cardinality(At(Taking)') = Cardinality(At(Taking))
    BY <1>2, <2>1, AtStays DEF Taking
  <2>3. Cardinality(At(Posting)') = Cardinality(At(Posting))
    BY <1>2, <2>1, AtStays DEF Posting
  <2>4. TypeOK'
    BY <1>1, <1>2, <1>14, <2>1 DEF Release, TypeOK, Steps, counters
  <2>5. LockInv'
    BY <1>1, <1>2, <1>14, <2>1 DEF Release, LockInv, Locking
  <2>6. SemaphoreInv'
    BY <1>1, <1>2, <1>14, <2>1, <2>2, <2>3 DEF Release, SemaphoreInv
  <2>7. CountInv'
    BY <1>1, <1>2, <1>14, <2>1 DEF Release, CountInv, LockInv, Locking, counters, MaxConn
  <2>8. HolderInv'
    BY <1>1, <1>2, <1>14, <2>1 DEF Release, HolderInv, Holding, Elements
  <2> QED BY <2>1, <2>4, <2>5, <2>6, <2>7, <2>8
        DEF PoolInv, DestroyInv
<1>15. ASSUME NEW t \in Threads, Push(t) PROVE PoolInv'
  <2>1. /\ pc[t] = "push" /\ pc' = [pc EXCEPT ![t] = "recount"]
        /\ ~destroyed /\ ~destroyed'
    BY <1>3, <1>15 DEF Push, Goto
  <2>2. Cardinality(At(Taking)') = Cardinality(At(Taking))
    BY <1>2, <2>1, AtStays DEF Taking
  <2>3. Cardinality(At(Posting)') = Cardinality(At(Posting)) + 1
    BY <1>2, <2>1, AtJoins DEF Posting
  <2>4. /\ connList' = Append(connList, con[t])
        /\ con[t] \in Connections /\ con[t] \notin Elements(connList)
        /\ UNCHANGED <<lock, reserve, m_FreeConn, m_CurConn, handles, con>>
    BY <1>1, <1>2, <2>1, <1>15 DEF Push, HolderInv, Holding, counters
  <2>5. /\ connList' \in Seq(Connections) /\ Len(connList') = Len(connList) + 1
        /\ Elements(connList') = Elements(connList) \cup {con[t]}
        /\ \A i, j \in 1..Len(connList') : connList'[i] = connList'[j] => i = j
    BY <1>1, <1>2, <2>4, ElementsAppend DEF HolderInv
  <2>6. TypeOK'
    BY <1>1, <1>2, <1>15, <2>1, <2>4, <2>5 DEF Push, TypeOK, Steps, counters
  <2>7. LockInv'
    BY <1>1, <1>2, <1>15, <2>1, <2>4, <2>5 DEF Push, LockInv, Locking
  <2>8. SemaphoreInv'
    <3>1. reserve' = reserve /\ Len(connList') = Len(connList) + 1
      BY <2>4, <2>5
    <3>2. Len(connList) = reserve + Cardinality(At(Taking))
                                  + Cardinality(At(Posting))
      BY <1>1, <2>1 DEF SemaphoreInv
    <3>3. Len(connList') = reserve' + Cardinality(At(Taking)')
                                    + Cardinality(At(Posting)')
      BY <1>2, <2>2, <2>3, <3>1, <3>2
    <3> QED BY <3>3 DEF SemaphoreInv
  <2>9. CountInv'
    <3>1. \A u \in Threads : pc[u] \notin {"count", "recount"}
      BY <1>1, <2>1 DEF LockInv, Locking
    <3>2. m_FreeConn = Len(connList) /\ m_FreeConn + m_CurConn = MaxConn
      BY <1>1, <2>1, <3>1 DEF CountInv
    <3>3. /\ m_FreeConn' = m_FreeConn /\ m_CurConn' = m_CurConn
          /\ Len(connList') = Len(connList) + 1
      BY <2>4, <2>5
    <3>4. \A u \in Threads : pc'[u] \in {"count", "recount"} <=> u = t
      BY <1>2, <2>1, <3>1
    <3>5. pc'[t] = "recount" /\ m_FreeConn' = Len(connList') - 1
      BY <1>2, <2>1, <3>2, <3>3
    <3> QED BY <3>2, <3>3, <3>4, <3>5 DEF CountInv, MaxConn
  <2>10. HolderInv'
    BY <1>1, <1>2, <1>15, <2>1, <2>4, <2>5 DEF HolderInv, Holding
  <2> QED BY <2>1, <2>6, <2>7, <2>8, <2>9, <2>10
        DEF PoolInv, DestroyInv
<1>16. ASSUME NEW t \in Threads, Recount(t) PROVE PoolInv'
  <2>1. /\ pc[t] = "recount" /\ pc' = [pc EXCEPT ![t] = "reunlock"]
        /\ ~destroyed /\ ~destroyed'
    BY <1>3, <1>16 DEF Recount, Goto
  <2>2. Cardinality(At(Taking)') = Cardinality(At(Taking))
    BY <1>2, <2>1, AtStays DEF Taking
  <2>3. Cardinality(At(Posting)') = Cardinality(At(Posting))
    BY <1>2, <2>1, AtStays DEF Posting
  <2>4. TypeOK'
    BY <1>1, <1>2, <1>16, <2>1 DEF Recount, TypeOK, Steps, counters
  <2>5. LockInv'
    BY <1>1, <1>2, <1>16, <2>1 DEF Recount, LockInv, Locking
  <2>6. SemaphoreInv'
    BY <1>1, <1>2, <1>16, <2>1, <2>2, <2>3 DEF Recount, SemaphoreInv
  <2>7. CountInv'
    BY <1>1, <1>2, <1>16, <2>1 DEF Recount, CountInv, LockInv, Locking, counters, MaxConn
  <2>8. HolderInv'
    BY <1>1, <1>2, <1>16, <2>1 DEF Recount, HolderInv, Holding, Elements
  <2> QED BY <2>1, <2>4, <2>5, <2>6, <2>7, <2>8
        DEF PoolInv, DestroyInv
<1>17. ASSUME NEW t \in Threads, Post(t) PROVE PoolInv'
  <2>1. /\ pc[t] = "post" /\ pc' = [pc EXCEPT ![t] = "out"]
        /\ ~destroyed /\ ~destroyed'
    BY <1>3, <1>17 DEF Post, Goto
  <2>2. Cardinality(At(Taking)') = Cardinality(At(Taking))
    BY <1>2, <2>1, AtStays DEF Taking
  <2>3. Cardinality(At(Posting)') = Cardinality(At(Posting)) - 1
    BY <1>2, <2>1, AtLeaves DEF Posting
  <2>4. TypeOK'
    BY <1>1, <1>2, <1>17, <2>1 DEF Post, TypeOK, Steps, counters
  <2>5. LockInv'
    BY <1>1, <1>2, <1>17, <2>1 DEF Post, LockInv, Locking
  <2>6. SemaphoreInv'
    BY <1>1, <1>2, <1>17, <2>1, <2>2, <2>3 DEF Post, SemaphoreInv
  <2>7. CountInv'
    BY <1>1, <1>2, <1>17, <2>1 DEF Post, CountInv, LockInv, Locking, counters, MaxConn
  <2>8. HolderInv'
    BY <1>1, <1>2, <1>17, <2>1 DEF Post, HolderInv, Holding, Elements
  <2> QED BY <2>1, <2>4, <2>5, <2>6, <2>7, <2>8
        DEF PoolInv, DestroyInv
<1>18. ASSUME NEW t \in Threads, Call(t) PROVE PoolInv'
  <2>1. /\ pc[t] = "out" /\ pc' = [pc EXCEPT ![t] = "test"]
        /\ ~destroyed /\ ~destroyed'
    BY <1>3, <1>18 DEF Call, Goto
  <2>2. Cardinality(At(Taking)') = Cardinality(At(Taking))
    BY <1>2, <2>1, AtStays DEF Taking
  <2>3. Cardinality(At(Posting)') = Cardinality(At(Posting))
    BY <1>2, <2>1, AtStays DEF Posting
  <2>4. TypeOK'
    BY <1>1, <1>2, <1>18, <2>1 DEF Call, TypeOK, Steps, counters
  <2>5. LockInv'
    BY <1>1, <1>2, <1>18, <2>1 DEF Call, LockInv, Locking
  <2>6. SemaphoreInv'
    BY <1>1, <1>2, <1>18, <2>1, <2>2, <2>3 DEF Call, SemaphoreInv
  <2>7. CountInv'
    BY <1>1, <1>2, <1>18, <2>1 DEF Call, CountInv, LockInv, Locking, counters, MaxConn
  <2>8. HolderInv'
    BY <1>1, <1>2, <1>18, <2>1 DEF Call, HolderInv, Holding, Elements
  <2> QED BY <2>1, <2>4, <2>5, <2>6, <2>7, <2>8
        DEF PoolInv, DestroyInv
<1>19. CASE DestroyPool
  <2>1. /\ destroyed' = TRUE /\ connList' = <<>>
        /\ \A t \in Threads : pc[t] = "out"
        /\ UNCHANGED <<lock, reserve, pc, con>>
    BY <1>19 DEF DestroyPool
  <2>2. TypeOK'
    <3>1. connList' \in Seq(Connections)
      BY <2>1, EmptySeq
    <3>2. destroyed' \in BOOLEAN
      BY <2>1, Zenon
    <3>3. m_FreeConn' \in Int /\ m_CurConn' \in Int /\ handles' \in Int
      BY <1>1, <1>2, <1>19 DEF DestroyPool, TypeOK, counters
    <3> QED BY <1>1, <2>1, <3>1, <3>2, <3>3 DEF TypeOK
  <2>3. LockInv' /\ DestroyInv'
    BY <1>1, <2>1 DEF LockInv, DestroyInv
  <2>4. SemaphoreInv' /\ CountInv'
    BY <2>1 DEF SemaphoreInv, CountInv
  <2>5. HolderInv'
    BY <2>1 DEF HolderInv, Holding
  <2> QED BY <2>2, <2>3, <2>4, <2>5 DEF PoolInv
<1>20. CASE UNCHANGED vars
  <2>1. TypeOK' /\ LockInv' /\ HolderInv' /\ DestroyInv'
    BY <1>1, <1>20 DEF vars, TypeOK, LockInv, HolderInv, DestroyInv
  <2>2. SemaphoreInv' /\ CountInv'
    BY <1>1, <1>20 DEF vars, counters, SemaphoreInv, CountInv, At
  <2> QED BY <2>1, <2>2 DEF PoolInv
<1>21. ASSUME NEW t \in Threads, Lock(t) \/ Unlock(t) PROVE PoolInv'
  <2>1. \/ Lock(t) /\ (pc[t] = "lock" \/ pc[t] = "relock")
        \/ Unlock(t) /\ (pc[t] = "unlock" \/ pc[t] = "reunlock")
    BY <1>21 DEF Lock, Unlock, Goto
  <2> QED BY <2>1, <1>7, <1>8, <1>11, <1>12
<1> QED BY <1>4, <1>5, <1>6, <1>9, <1>10, <1>13, <1>14, <1>15, <1>16, <1>17, <1>18, <1>19, <1>20,
           <1>21 DEF Next, Getting, Releasing

LEMMA Invariance == Spec => []PoolInv
BY PoolInit, PoolNext, PTL DEF Spec

-----------------------------------------------------------------------------
(* The refinement: Pop takes a connection, Push gives it back.             *)

Got == [t \in Threads |->
          IF pc[t] \in {"count", "unlock", "use", "relock", "push"}
          THEN con[t] ELSE Nothing]

LEMMA AbstractInit == Init => Pool!Init
<1> SUFFICES ASSUME Init PROVE Pool!Init
  OBVIOUS
<1>1. Elements(connList) = Connections
  BY ListInit DEF Init
<1>2. Got = [t \in Threads |-> Nothing]
  BY DEF Init, Got
<1> QED BY <1>1, <1>2 DEF Pool!Init, Elements, Got

\* What a thread has got changes only when it enters or leaves Holding.
LEMMA GotStays ==
  ASSUME \A t \in Threads :
           /\ pc'[t] \in Holding <=> pc[t] \in Holding
           /\ pc[t] \in Holding => con'[t] = con[t]
  PROVE  Got' = Got
BY DEF Got, Holding

LEMMA AbstractNext == PoolInv /\ [Next]_vars => [Pool!Next]_(Pool!vars)
<1> SUFFICES ASSUME PoolInv, [Next]_vars PROVE [Pool!Next]_(Pool!vars)
  OBVIOUS
<1> USE SqlPoolAssumption
<1>1. TypeOK /\ HolderInv
  BY DEF PoolInv
<1>2. /\ pc \in [Threads -> Steps] /\ con \in [Threads -> Connections \cup {NULL}]
      /\ connList \in Seq(Connections)
  BY <1>1 DEF TypeOK
<1>3. Pool!vars = <<Elements(connList), Got>>
  BY DEF Pool!vars, Elements, Got
<1>4. ASSUME Got' = Got, connList' = connList
      PROVE  [Pool!Next]_(Pool!vars)
  BY <1>4 DEF Pool!vars, Got
<1>5. ASSUME NEW t \in Threads, Call(t) PROVE [Pool!Next]_(Pool!vars)
  <2>1. Got' = Got /\ connList' = connList
    BY <1>2, <1>5, GotStays DEF Call, Goto, Holding
  <2> QED BY <1>4, <2>1
<1>6. ASSUME NEW t \in Threads, TestEmpty(t) PROVE Pool!Next
  <2>1. pc[t] = "test" /\ connList = <<>> /\ connList' = connList
    BY <1>6 DEF TestEmpty, Goto
  <2>2. Got[t] = Nothing /\ Elements(connList) = {}
    BY <2>1 DEF Got, Elements
  <2>3. Got' = [Got EXCEPT ![t] = NULL]
    BY <1>2, <1>6 DEF Got, TestEmpty, Goto
  <2>4. Pool!Refuse(t)
    BY <2>1, <2>2, <2>3 DEF Pool!Refuse, Got, Elements
  <2> QED BY <2>4 DEF Pool!Next
<1>7. ASSUME NEW t \in Threads, TestNotEmpty(t) \/ Wait(t) \/ Count(t)
      PROVE  [Pool!Next]_(Pool!vars)
  <2>1. Got' = Got /\ connList' = connList
    BY <1>2, <1>7, GotStays DEF TestNotEmpty, Wait, Count, Goto, Holding
  <2> QED BY <1>4, <2>1
<1>8. ASSUME NEW t \in Threads, Lock(t) \/ Unlock(t)
      PROVE  [Pool!Next]_(Pool!vars)
  <2>1. Got' = Got /\ connList' = connList
    BY <1>2, <1>8, GotStays DEF Lock, Unlock, Goto, Holding
  <2> QED BY <1>4, <2>1
<1>9. ASSUME NEW t \in Threads, Pop(t) PROVE Pool!Next
  <2> DEFINE c == Head(connList)
  <2>1. /\ pc[t] = "pop" /\ pc' = [pc EXCEPT ![t] = "count"]
        /\ connList # <<>> /\ connList' = Tail(connList)
        /\ con' = [con EXCEPT ![t] = c]
    BY <1>9 DEF Pop, Goto
  <2>2. c \in Elements(connList) /\ Elements(connList') = Elements(connList) \ {c}
    BY <1>1, <1>2, <2>1, ElementsTail DEF HolderInv
  <2>3. Got[t] = Nothing /\ Got' = [Got EXCEPT ![t] = c]
    BY <1>2, <2>1 DEF Got
  <2>4. Pool!Take(t)
    BY <2>2, <2>3 DEF Pool!Take, Got, Elements
  <2> QED BY <2>4 DEF Pool!Next
<1>10. ASSUME NEW t \in Threads, ReleaseNull(t) PROVE Pool!Next
  <2>1. Got[t] = NULL /\ Got' = [Got EXCEPT ![t] = Nothing] /\ connList' = connList
    BY <1>2, <1>10 DEF Got, ReleaseNull, Goto
  <2>2. Pool!Leave(t)
    BY <2>1 DEF Pool!Leave, Got
  <2> QED BY <2>2 DEF Pool!Next
<1>11. ASSUME NEW t \in Threads, Release(t) \/ Recount(t) \/ Post(t)
       PROVE  [Pool!Next]_(Pool!vars)
  <2>1. Got' = Got /\ connList' = connList
    BY <1>2, <1>11, GotStays DEF Release, Recount, Post, Goto, Holding
  <2> QED BY <1>4, <2>1
<1>12. ASSUME NEW t \in Threads, Push(t) PROVE Pool!Next
  <2>1. /\ pc[t] = "push" /\ pc' = [pc EXCEPT ![t] = "recount"]
        /\ connList' = Append(connList, con[t]) /\ con' = con
    BY <1>12 DEF Push, Goto
  <2>2. con[t] \in Connections /\ con[t] \notin Elements(connList)
    BY <1>1, <1>2, <2>1 DEF HolderInv, Holding
  <2>3. Elements(connList') = Elements(connList) \cup {con[t]}
    BY <1>1, <1>2, <2>1, <2>2, ElementsAppend DEF HolderInv
  <2>4. Got[t] = con[t] /\ Got' = [Got EXCEPT ![t] = Nothing]
    BY <1>2, <2>1 DEF Got
  <2>5. Pool!Give(t)
    BY <2>2, <2>3, <2>4 DEF Pool!Give, Got, Elements
  <2> QED BY <2>5 DEF Pool!Next
<1>13. CASE DestroyPool
  <2>1. connList' = <<>> /\ UNCHANGED <<pc, con>>
        /\ \A t \in Threads : pc[t] = "out"
    BY <1>13 DEF DestroyPool
  <2>2. Got' = Got /\ Elements(connList') = {} /\ \A t \in Threads : Got[t] = Nothing
    BY <2>1 DEF Got, Elements
  <2>3. Pool!Close
    BY <2>2 DEF Pool!Close, Got, Elements
  <2> QED BY <2>3 DEF Pool!Next
<1>14. CASE UNCHANGED vars
  BY <1>4, <1>14, GotStays DEF vars
<1> QED BY <1>5, <1>6, <1>7, <1>8, <1>9, <1>10, <1>11, <1>12, <1>13, <1>14
        DEF Next, Getting, Releasing

-----------------------------------------------------------------------------
\* Type invariant of the connection pool (sql_connection_pool.h 33-38).
THEOREM TypeCorrect == Spec => []TypeOK
<1>1. PoolInv => TypeOK
  BY DEF PoolInv
<1> QED BY <1>1, Invariance, PTL

\* However many threads use the pool, front() is never called on an empty list
\* (sql_connection_pool.cpp 73-78, 95-101).
THEOREM PopsFindOne == Spec => []PopFindsOne
<1>1. PoolInv => PopFindsOne
  <2> SUFFICES ASSUME PoolInv, NEW t \in Threads, pc[t] = "pop"
               PROVE  connList # <<>>
    BY DEF PopFindsOne
  <2>1. ~destroyed
    BY DEF PoolInv, DestroyInv
  <2>2. Len(connList) = reserve + Cardinality(At(Taking))
                                + Cardinality(At(Posting))
    BY <2>1 DEF PoolInv, SemaphoreInv
  <2>3. Cardinality(At(Taking)) > 0
    BY AtPositive DEF Taking
  <2>4. Len(connList) > 0
    BY <2>2, <2>3, AtFinite DEF PoolInv, TypeOK
  <2> QED BY <2>4
<1> QED BY <1>1, Invariance, PTL

\* The counters say how many connections are free and how many are out
\* whenever the lock is free (sql_connection_pool.cpp 80-81, 96-97).
THEOREM CountersAreExact == Spec => []CountersAgree
<1>1. PoolInv => CountersAgree
  <2> SUFFICES ASSUME PoolInv, lock = Nobody, ~destroyed
               PROVE  /\ m_FreeConn = Len(connList)
                      /\ m_FreeConn + m_CurConn = MaxConn
    BY DEF CountersAgree
  <2>1. \A t \in Threads : pc[t] \notin {"count", "recount"}
    BY SqlPoolAssumption DEF PoolInv, LockInv, Locking
  <2> QED BY <2>1 DEF PoolInv, CountInv
<1> QED BY <1>1, Invariance, PTL

\* List, mutex, semaphore and counters are a pool of connections: each has one
\* holder, none is lost, nobody is refused while one is free
\* (sql_connection_pool.cpp 66-103).
THEOREM ListIsPool == Spec => ImplementsPool
BY AbstractInit, AbstractNext, Invariance, PTL
  DEF Spec, ImplementsPool, Pool!Spec
=============================================================================
