--------------------------- MODULE AccountsProofs ---------------------------
(***************************************************************************)
(* What Accounts guarantees for any number of users, connections, workers, *)
(* starts and requests: an acknowledged registration is in the table, one  *)
(* client at most is told of it, workers do not meet on a handle, and a    *)
(* password that is settled stays.                                         *)
(***************************************************************************)
EXTENDS Accounts, SequenceTheorems, TLAPS

Holding == {"query", "reply", "insert", "linked", "unlock"}

\* The result set is within the table; the loop has a handle of the pool.
LoopInv ==
  /\ rows \subseteq DOMAIN table
  /\ lpc # "wait" => accepting \in Conns /\ mysql[accepting] \in Handles

\* A connection that is served is open, and nobody else serves it.
ServeInv ==
  /\ \A w \in Workers : wpc[w] # "idle" =>
       /\ req[w].conn \in open /\ req[w].conn # accepting
       /\ req[w].name \in Names /\ req[w].passwd \in Passwords
  /\ \A v, w \in Workers :
       /\ wpc[v] # "idle" /\ wpc[w] # "idle" /\ req[v].conn = req[w].conn
       => v = w

MutexInv == \A w \in Workers : wpc[w] \in Holding => m_lock = w

\* The INSERT of w has been answered with success, and w will act on that.
Pending(w) ==
  /\ res[w] = TRUE
  /\ \/ wpc[w] \in {"insert", "linked", "unlock"}
     \/ wpc[w] = "reply" /\ w \notin clash

PendingInv ==
  \A w \in Workers :
    Pending(w) /\ req[w].name \notin spoilt => req[w].passwd \in StoredFor(req[w].name)

AtStart(n) == \E i \in DOMAIN Stored : Stored[i].name = n

OneInv ==
  UniqueKey => \A n \in Names \ spoilt :
    /\ AtStart(n) => acked[n] = <<>> /\ StoredFor(n) # {}
    /\ Len(acked[n]) <= 1
    /\ \A w \in Workers :
         Pending(w) /\ req[w].name = n => acked[n] = <<>> /\ ~AtStart(n)

UniqInv ==
  UniqueKey => \A i, j \in DOMAIN table :
    table[i].name = table[j].name /\ table[i].name \notin spoilt => i = j

BaseInv == TypeOK /\ LoopInv /\ ServeInv

-----------------------------------------------------------------------------
(* Types, and who serves what.                                             *)

LEMMA InitBase == Init => BaseInv
<1> SUFFICES ASSUME Init PROVE BaseInv
  OBVIOUS
<1> USE AccountsAssumption
<1>1. /\ table \in Seq(Row) /\ rows \subseteq DOMAIN table
      /\ connList \in Seq(Handles)
  BY DEF Init, Row
<1>2. acked \in [Names -> Seq(Passwords)]
  BY EmptySeq DEF Init
<1>3. /\ req \in [Workers -> Request] /\ res \in [Workers -> BOOLEAN]
      /\ wpc \in [Workers -> Steps]
  BY DEF Init, Request, NoRequest, Steps
<1>4. TypeOK
  BY <1>1, <1>2, <1>3 DEF Init, TypeOK
<1>5. QED
  BY <1>1, <1>4 DEF Init, BaseInv, LoopInv, ServeInv

\* What Link may do.
LEMMA LinkTypes ==
  ASSUME TypeOK, NEW t \in Threads, NEW n \in Names, NEW p \in Passwords,
         Link(t, n, p)
  PROVE  /\ linking' \in [Threads -> Names \cup {None}]
         /\ users' \in [Names -> Passwords \cup {Absent}]
         /\ spoilt \subseteq spoilt' /\ spoilt' \subseteq Names
<1> DEFINE others == {linking[u] : u \in Threads \ {t}} \ {None}
<1>1. others \subseteq Names
  BY DEF TypeOK
<1>2. linking' \in [Threads -> Names \cup {None}]
  BY DEF Link, TypeOK
<1>3. /\ users' \in [Names -> Passwords \cup {Absent}]
      /\ spoilt \subseteq spoilt' /\ spoilt' \subseteq Names
  BY <1>1 DEF Link, TypeOK
<1>4. QED
  BY <1>2, <1>3

\* The two outcomes of a search before an insertion.
LEMMA InsertCases ==
  ASSUME NEW w \in Workers, Insert(w)
  PROVE  /\ wpc[w] = "insert"
         /\ \/ Goto(w, "insert", "unlock") /\ UNCHANGED <<map, spoilt>>
            \/ Goto(w, "insert", "linked") /\ Link(w, req[w].name, req[w].passwd)
         /\ UNCHANGED <<db, loop, m_lock, open, req, res, clash, acked, bounds>>
BY DEF Insert

LEMMA CopyCases ==
  ASSUME Copy
  PROVE  \E i \in left :
           /\ lpc = "copy" /\ left' = left \ {i}
           /\ \/ /\ Assign(table[i].name, table[i].passwd)
                 /\ UNCHANGED <<lpc, linking, spoilt>>
              \/ Link(Loop, table[i].name, table[i].passwd) /\ lpc' = "linked"
           /\ UNCHANGED <<db, work, accepting, rows, m_lock, open, clash, acked,
                          bounds>>
BY DEF Copy

LEMMA GotoTypes ==
  ASSUME TypeOK, NEW w \in Workers, NEW from, NEW to \in Steps, Goto(w, from, to)
  PROVE  wpc' \in [Workers -> Steps]
BY DEF Goto, TypeOK

\* What a worker does, one step at a time.
LEMMA InsertTypes ==
  ASSUME BaseInv, NEW w \in Workers, Insert(w)
  PROVE  TypeOK'
<1>1. wpc[w] = "insert" /\ req[w].name \in Names /\ req[w].passwd \in Passwords
  BY InsertCases DEF BaseInv, ServeInv
<1>2. wpc' \in [Workers -> Steps]
  BY InsertCases, GotoTypes DEF BaseInv, Steps
<1>3. /\ linking' \in [Threads -> Names \cup {None}]
      /\ users' \in [Names -> Passwords \cup {Absent}]
      /\ spoilt' \subseteq Names
  <2>1. CASE UNCHANGED <<map, spoilt>>
    BY <2>1 DEF map, BaseInv, TypeOK
  <2>2. CASE Link(w, req[w].name, req[w].passwd)
    BY <1>1, <2>2, LinkTypes DEF BaseInv, Threads
  <2>3. QED
    BY <2>1, <2>2, InsertCases
<1>4. UNCHANGED <<db, loop, m_lock, open, req, res, clash, acked, bounds>>
  BY InsertCases
<1>5. QED
  BY <1>2, <1>3, <1>4 DEF BaseInv, TypeOK, db, loop, bounds

LEMMA RowTypes ==
  ASSUME TypeOK, NEW i \in DOMAIN table
  PROVE  table[i].name \in Names /\ table[i].passwd \in Passwords
<1>1. table[i] \in Row
  BY DEF TypeOK
<1>2. QED
  BY <1>1 DEF Row

LEMMA CopyTypes ==
  ASSUME BaseInv, Copy
  PROVE  TypeOK'
<1>1. PICK i \in left :
           /\ lpc = "copy" /\ left' = left \ {i}
           /\ \/ /\ Assign(table[i].name, table[i].passwd)
                 /\ UNCHANGED <<lpc, linking, spoilt>>
              \/ Link(Loop, table[i].name, table[i].passwd) /\ lpc' = "linked"
           /\ UNCHANGED <<db, work, accepting, rows, m_lock, open, clash, acked,
                          bounds>>
  BY CopyCases
<1>2. table[i].name \in Names /\ table[i].passwd \in Passwords
  BY RowTypes DEF BaseInv, LoopInv, TypeOK
<1>3. /\ linking' \in [Threads -> Names \cup {None}]
      /\ users' \in [Names -> Passwords \cup {Absent}]
      /\ spoilt' \subseteq Names
      /\ lpc' \in {"wait", "select", "fetch", "copy", "linked", "release"}
  <2>1. CASE Assign(table[i].name, table[i].passwd) /\ UNCHANGED <<lpc, linking, spoilt>>
    BY <1>2, <2>1 DEF Assign, BaseInv, TypeOK
  <2>2. CASE Link(Loop, table[i].name, table[i].passwd) /\ lpc' = "linked"
    BY <1>2, <2>2, LinkTypes DEF BaseInv, Threads
  <2>3. QED
    BY <1>1, <2>1, <2>2
<1>4. QED
  BY <1>1, <1>3 DEF BaseInv, TypeOK, db, work, bounds

LEMMA QueryTypes ==
  ASSUME BaseInv, NEW w \in Workers, Query(w)
  PROVE  TypeOK'
<1>1. wpc[w] = "query" /\ req[w].name \in Names /\ req[w].passwd \in Passwords
  BY DEF Query, BaseInv, ServeInv
<1>2. wpc' \in [Workers -> Steps]
  BY GotoTypes DEF Query, BaseInv, Steps
<1>3. table' \in Seq(Row)
  <2>1. [name |-> req[w].name, passwd |-> req[w].passwd] \in Row
    BY <1>1 DEF Row
  <2>2. Append(table, [name |-> req[w].name, passwd |-> req[w].passwd]) \in Seq(Row)
    BY <2>1, AppendProperties DEF BaseInv, TypeOK
  <2>3. QED
    BY <2>2 DEF Query, BaseInv, TypeOK
<1>4. res' \in [Workers -> BOOLEAN]
  BY DEF Query, Accepted, BaseInv, TypeOK, AccountsAssumption
<1>5. clash' \subseteq Threads /\ spoilt' \subseteq Names
  BY <1>1 DEF Query, Clashing, BaseInv, TypeOK, Threads
<1>6. QED
  BY <1>2, <1>3, <1>4, <1>5 DEF Query, BaseInv, TypeOK, map, loop, bounds

LEMMA WorkerTypes ==
  ASSUME BaseInv, NEW w \in Workers, WorkerStep(w)
  PROVE  TypeOK'
<1>1. CASE Check(w) \/ Find(w)
  <2>1. wpc' \in [Workers -> Steps]
    BY <1>1, GotoTypes DEF Check, Find, BaseInv, Steps, Pages
  <2>2. QED
    BY <1>1, <2>1 DEF Check, Find, BaseInv, TypeOK, db, map, loop, bounds
<1>2. CASE Lock(w)
  <2>1. wpc' \in [Workers -> Steps]
    BY <1>2, GotoTypes DEF Lock, BaseInv, Steps
  <2>2. QED
    BY <1>2, <2>1 DEF Lock, BaseInv, TypeOK, db, map, loop, bounds
<1>3. CASE Reply(w)
  <2>1. wpc' \in [Workers -> Steps]
    BY <1>3, GotoTypes DEF Reply, BaseInv, Steps
  <2>2. res' \in [Workers -> BOOLEAN]
    BY <1>3 DEF Reply, BaseInv, TypeOK
  <2>3. clash' \subseteq Threads /\ spoilt' \subseteq Names
    <3>1. req[w].name \in Names
      BY <1>3 DEF Reply, Goto, BaseInv, ServeInv
    <3>2. QED
      BY <1>3, <3>1 DEF Reply, BaseInv, TypeOK
  <2>4. QED
    BY <1>3, <2>1, <2>2, <2>3 DEF Reply, BaseInv, TypeOK, db, map, loop, bounds
<1>4. CASE Linked(w)
  <2>1. wpc' \in [Workers -> Steps]
    BY <1>4, GotoTypes DEF Linked, BaseInv, Steps
  <2>2. QED
    BY <1>4, <2>1 DEF Linked, BaseInv, TypeOK, db, loop, bounds
<1>5. CASE Unlock(w)
  <2>1. wpc' \in [Workers -> Steps]
    BY <1>5, GotoTypes DEF Unlock, BaseInv, Steps, Pages
  <2>2. acked' \in [Names -> Seq(Passwords)]
    <3>1. req[w].name \in Names /\ req[w].passwd \in Passwords
      BY <1>5 DEF Unlock, Goto, BaseInv, ServeInv
    <3>2. Append(acked[req[w].name], req[w].passwd) \in Seq(Passwords)
      BY <3>1, AppendProperties DEF BaseInv, TypeOK
    <3>3. QED
      BY <1>5, <3>2 DEF Unlock, BaseInv, TypeOK
  <2>3. QED
    BY <1>5, <2>1, <2>2 DEF Unlock, BaseInv, TypeOK, db, map, loop, bounds
<1>6. ASSUME NEW keep \in BOOLEAN, Finish(w, keep)
      PROVE  TypeOK'
  <2>1. wpc' \in [Workers -> Steps] /\ req' \in [Workers -> Request]
    BY <1>6 DEF Finish, BaseInv, TypeOK, Steps, Request, NoRequest
  <2>2. res' \in [Workers -> BOOLEAN] /\ open' \subseteq Conns
    BY <1>6 DEF Finish, BaseInv, TypeOK
  <2>3. mysql' \in [Conns -> Handles \cup {Unconnected}]
    BY <1>6 DEF Finish, BaseInv, TypeOK
  <2>4. QED
    BY <1>6, <2>1, <2>2, <2>3 DEF Finish, BaseInv, TypeOK, map, loop, bounds
<1>7. QED
  BY <1>1, <1>2, <1>3, <1>4, <1>5, <1>6, InsertTypes, QueryTypes DEF WorkerStep

LEMMA StartTypes ==
  ASSUME BaseInv, NEW w \in Workers, NEW c \in Conns, NEW kind \in {"find", "check"},
         Start(w, c, kind)
  PROVE  TypeOK'
<1>1. wpc' \in [Workers -> Steps]
  BY GotoTypes DEF Start, BaseInv, Steps
<1>2. req' \in [Workers -> Request]
  BY DEF Start, BaseInv, TypeOK, Request
<1>3. QED
  BY <1>1, <1>2 DEF Start, BaseInv, TypeOK, db, map, loop

LEMMA LoopTypes ==
  ASSUME BaseInv, Select \/ Fetch \/ CopyLinked \/ Release
  PROVE  TypeOK'
<1>1. DOMAIN table \subseteq Nat
  BY DEF BaseInv, TypeOK
<1>2. CASE Select
  BY <1>1, <1>2 DEF Select, Clashing, BaseInv, LoopInv, TypeOK, Threads, db, map, work, bounds
<1>3. CASE Fetch
  BY <1>3 DEF Fetch, BaseInv, TypeOK, db, map, work, bounds
<1>4. CASE CopyLinked
  BY <1>4 DEF CopyLinked, BaseInv, TypeOK, db, work, bounds
<1>5. CASE Release
  <2>1. mysql[accepting] \in Handles
    BY <1>5 DEF Release, BaseInv, LoopInv
  <2>2. connList' \in Seq(Handles)
    BY <1>5, <2>1, AppendProperties DEF Release, BaseInv, TypeOK
  <2>3. QED
    BY <1>5, <2>2 DEF Release, BaseInv, TypeOK, map, work, bounds
<1>6. QED
  BY <1>2, <1>3, <1>4, <1>5

LEMMA ConnTypes ==
  ASSUME BaseInv, NEW c \in Conns, Accept(c) \/ Page(c) \/ Leave(c)
  PROVE  TypeOK'
<1>1. CASE Accept(c)
  <2>1. Head(connList) \in Handles /\ Tail(connList) \in Seq(Handles)
    BY <1>1, HeadTailProperties DEF Accept, BaseInv, TypeOK
  <2>2. QED
    BY <1>1, <2>1 DEF Accept, BaseInv, TypeOK, map, work
<1>2. CASE Page(c) \/ Leave(c)
  BY <1>2 DEF Page, Leave, BaseInv, TypeOK, db, map, work, loop, bounds
<1>3. QED
  BY <1>1, <1>2

LEMMA RestartTypes ==
  ASSUME BaseInv, Restart
  PROVE  TypeOK'
<1>1. connList' \in Seq(Handles)
  BY AccountsAssumption DEF Restart
<1>2. wpc' \in [Workers -> Steps] /\ req' \in [Workers -> Request]
  BY DEF Restart, Steps, Request, NoRequest
<1>3. QED
  BY <1>1, <1>2, AccountsAssumption DEF Restart, BaseInv, TypeOK, Threads

LEMMA TypeStep ==
  ASSUME BaseInv, [Next]_vars
  PROVE  TypeOK'
<1>1. CASE UNCHANGED vars
  BY <1>1 DEF vars, BaseInv, TypeOK
<1>2. CASE Next
  BY <1>2, WorkerTypes, StartTypes, LoopTypes, CopyTypes, ConnTypes, RestartTypes
     DEF Next, LoopStep
<1>3. QED
  BY <1>1, <1>2

\* Rows are only added at the end.
LEMMA TableGrows ==
  ASSUME TypeOK, [Next]_vars
  PROVE  \/ UNCHANGED table
         \/ \E w \in Workers :
              /\ Query(w)
              /\ table' = Append(table, [name |-> req[w].name, passwd |-> req[w].passwd])
<1>1. CASE UNCHANGED vars
  BY <1>1 DEF vars
<1>2. ASSUME NEW w \in Workers, WorkerStep(w), ~Query(w)
      PROVE  UNCHANGED table
  BY <1>2 DEF WorkerStep, Check, Find, Lock, Reply, Insert, Linked, Unlock, Finish, db
<1>3. ASSUME NEW w \in Workers, Query(w)
      PROVE  \/ UNCHANGED table
             \/ table' = Append(table, [name |-> req[w].name, passwd |-> req[w].passwd])
  BY <1>3 DEF Query
<1>4. ASSUME NEW w \in Workers, NEW c \in Conns, NEW kind, Start(w, c, kind)
      PROVE  UNCHANGED table
  BY <1>4 DEF Start, db
<1>5. ASSUME LoopStep
      PROVE  UNCHANGED table
  BY <1>5 DEF LoopStep, Select, Fetch, Copy, CopyLinked, Release, db
<1>6. ASSUME NEW c \in Conns, Accept(c) \/ Page(c) \/ Leave(c)
      PROVE  UNCHANGED table
  BY <1>6 DEF Accept, Page, Leave, db
<1>7. ASSUME Restart
      PROVE  UNCHANGED table
  BY <1>7 DEF Restart
<1>8. QED
  BY <1>1, <1>2, <1>3, <1>4, <1>5, <1>6, <1>7 DEF Next

LEMMA RowsStay ==
  ASSUME BaseInv, [Next]_vars
  PROVE  /\ DOMAIN table \subseteq DOMAIN table'
         /\ \A i \in DOMAIN table : table'[i] = table[i]
<1>1. CASE UNCHANGED table
  BY <1>1
<1>2. ASSUME NEW w \in Workers, Query(w),
             table' = Append(table, [name |-> req[w].name, passwd |-> req[w].passwd])
      PROVE  /\ DOMAIN table \subseteq DOMAIN table'
             /\ \A i \in DOMAIN table : table'[i] = table[i]
  <2>1. [name |-> req[w].name, passwd |-> req[w].passwd] \in Row /\ table \in Seq(Row)
    BY <1>2 DEF Query, BaseInv, ServeInv, TypeOK, Row
  <2>2. QED
    BY <1>2, <2>1, AppendProperties
<1>3. QED
  BY <1>1, <1>2, TableGrows DEF BaseInv

LEMMA StoredForGrows ==
  ASSUME BaseInv, [Next]_vars, NEW n
  PROVE  StoredFor(n) \subseteq StoredFor(n)'
BY RowsStay DEF StoredFor

LEMMA LoopStepInv ==
  ASSUME BaseInv, [Next]_vars
  PROVE  LoopInv'
<1>1. DOMAIN table \subseteq DOMAIN table'
  BY RowsStay
<1>2. rows \subseteq DOMAIN table /\ (lpc # "wait" => accepting \in Conns /\ mysql[accepting] \in Handles)
  BY DEF BaseInv, LoopInv
<1>3. ASSUME NEW w \in Workers, WorkerStep(w)
      PROVE  LoopInv'
  <2>1. UNCHANGED loop
    BY <1>3 DEF WorkerStep, Check, Find, Lock, Query, Reply, Insert, Linked, Unlock, Finish
  <2>2. accepting \in Conns => mysql'[accepting] = mysql[accepting]
    <3>1. CASE \E keep \in BOOLEAN : Finish(w, keep)
      <4>1. req[w].conn # accepting
        BY <3>1 DEF Finish, Pages, BaseInv, ServeInv
      <4>2. QED
        BY <3>1, <4>1 DEF Finish, BaseInv, TypeOK
    <3>2. CASE ~\E keep \in BOOLEAN : Finish(w, keep)
      BY <1>3, <3>2 DEF WorkerStep, Check, Find, Lock, Query, Reply, Insert, Linked, Unlock, db
    <3>3. QED
      BY <3>1, <3>2
  <2>3. QED
    BY <1>1, <1>2, <2>1, <2>2 DEF LoopInv, loop
<1>4. ASSUME NEW w \in Workers, NEW c \in Conns, NEW kind, Start(w, c, kind)
      PROVE  LoopInv'
  BY <1>1, <1>2, <1>4 DEF Start, LoopInv, loop, db
<1>5. CASE Select \/ Fetch
  BY <1>1, <1>2, <1>5 DEF Select, Fetch, LoopInv, db
<1>6. CASE CopyLinked \/ Release
  BY <1>1, <1>2, <1>6 DEF CopyLinked, Release, LoopInv, db
<1>7. CASE Copy
  <2>1. UNCHANGED <<accepting, rows, mysql>> /\ lpc = "copy"
    BY <1>7 DEF Copy, db
  <2>2. QED
    BY <1>1, <1>2, <2>1 DEF LoopInv
<1>8. ASSUME NEW c \in Conns, Accept(c)
      PROVE  LoopInv'
  <2>1. Head(connList) \in Handles
    BY <1>8, HeadTailProperties DEF Accept, BaseInv, TypeOK
  <2>2. QED
    BY <1>1, <1>2, <1>8, <2>1 DEF Accept, LoopInv, BaseInv, TypeOK
<1>9. ASSUME NEW c \in Conns, Page(c) \/ Leave(c)
      PROVE  LoopInv'
  <2>1. c # accepting
    BY <1>9 DEF Page, Leave, Served
  <2>2. QED
    BY <1>1, <1>2, <1>9, <2>1 DEF Page, Leave, LoopInv, BaseInv, TypeOK, loop, db
<1>10. CASE Restart
  BY <1>10 DEF Restart, LoopInv
<1>11. CASE UNCHANGED vars
  BY <1>11 DEF vars, BaseInv, LoopInv
<1>12. QED
  BY <1>3, <1>4, <1>5, <1>6, <1>7, <1>8, <1>9, <1>10, <1>11 DEF Next, LoopStep

LEMMA ServeStep ==
  ASSUME BaseInv, [Next]_vars
  PROVE  ServeInv'
<1>1. ASSUME NEW w \in Workers, wpc[w] # "idle",
             NEW to, wpc' = [wpc EXCEPT ![w] = to],
             UNCHANGED <<req, open, accepting>>
      PROVE  ServeInv'
  BY <1>1 DEF BaseInv, ServeInv, TypeOK
<1>2. ASSUME NEW w \in Workers, WorkerStep(w), ~\E keep \in BOOLEAN : Finish(w, keep)
      PROVE  ServeInv'
  <2>1. UNCHANGED <<req, open, accepting>>
    BY <1>2 DEF WorkerStep, Check, Find, Lock, Query, Reply, Insert, Linked, Unlock, loop
  <2>2. wpc[w] # "idle" /\ \E to : wpc' = [wpc EXCEPT ![w] = to]
    BY <1>2 DEF WorkerStep, Check, Find, Lock, Query, Reply, Insert, Linked, Unlock, Goto
  <2>3. QED
    BY <1>1, <2>1, <2>2
<1>3. ASSUME NEW w \in Workers, NEW keep \in BOOLEAN, Finish(w, keep)
      PROVE  ServeInv'
  <2>1. wpc[w] # "idle" /\ open' \in {open, open \ {req[w].conn}} /\ UNCHANGED accepting
    BY <1>3 DEF Finish, Pages, loop
  <2>2. wpc' = [wpc EXCEPT ![w] = "idle"] /\ req' = [req EXCEPT ![w] = NoRequest]
    BY <1>3 DEF Finish
  <2>3. QED
    BY <2>1, <2>2 DEF BaseInv, ServeInv, TypeOK
<1>4. ASSUME NEW w \in Workers, NEW c \in Conns, NEW kind \in {"find", "check"},
             Start(w, c, kind)
      PROVE  ServeInv'
  <2>1. c \in open /\ c # accepting /\ \A v \in Workers : req[v].conn # c
    BY <1>4 DEF Start, Served
  <2>2. PICK n \in Names, p \in Passwords :
          req' = [req EXCEPT ![w] = [conn |-> c, name |-> n, passwd |-> p]]
    BY <1>4 DEF Start
  <2>3. wpc' = [wpc EXCEPT ![w] = kind] /\ UNCHANGED <<open, accepting>>
    BY <1>4 DEF Start, Goto, loop
  <2>4. QED
    BY <2>1, <2>2, <2>3 DEF BaseInv, ServeInv, TypeOK
<1>5. CASE LoopStep
  <2>1. UNCHANGED <<wpc, req, open>> /\ accepting' \in {accepting, None}
    BY <1>5 DEF LoopStep, Select, Fetch, Copy, CopyLinked, Release, work
  <2>2. \A c \in open : c # None
    BY AccountsAssumption DEF BaseInv, TypeOK
  <2>3. QED
    BY <2>1, <2>2 DEF BaseInv, ServeInv
<1>6. ASSUME NEW c \in Conns, Accept(c) \/ Page(c) \/ Leave(c)
      PROVE  ServeInv'
  BY <1>6 DEF Accept, Page, Leave, Served, BaseInv, ServeInv, work, loop
<1>7. CASE Restart
  BY <1>7 DEF Restart, ServeInv
<1>8. CASE UNCHANGED vars
  BY <1>8 DEF vars, BaseInv, ServeInv
<1>9. QED
  BY <1>2, <1>3, <1>4, <1>5, <1>6, <1>7, <1>8 DEF Next

LEMMA BaseStep == BaseInv /\ [Next]_vars => BaseInv'
BY TypeStep, LoopStepInv, ServeStep DEF BaseInv

-----------------------------------------------------------------------------
(* What is taken over from the steps, once and for all.                    *)

\* Names are spoilt for good.
LEMMA SpoiltStays ==
  ASSUME BaseInv, [Next]_vars
  PROVE  spoilt \subseteq spoilt'
<1>1. ASSUME NEW w \in Workers, Insert(w)
      PROVE  spoilt \subseteq spoilt'
  <2>1. req[w].name \in Names /\ req[w].passwd \in Passwords
    BY <1>1, InsertCases DEF BaseInv, ServeInv
  <2>2. QED
    BY <1>1, <2>1, InsertCases, LinkTypes DEF BaseInv, Threads
<1>2. ASSUME Copy
      PROVE  spoilt \subseteq spoilt'
  <2>1. PICK i \in left :
          UNCHANGED spoilt \/ Link(Loop, table[i].name, table[i].passwd)
    BY <1>2, CopyCases
  <2>2. table[i].name \in Names /\ table[i].passwd \in Passwords
    BY RowTypes DEF BaseInv, LoopInv, TypeOK
  <2>3. QED
    BY <2>1, <2>2, LinkTypes DEF BaseInv, Threads
<1>3. ASSUME NEW w \in Workers, WorkerStep(w), ~Insert(w)
      PROVE  spoilt \subseteq spoilt'
  BY <1>3 DEF WorkerStep, Check, Find, Lock, Query, Reply, Linked, Unlock, Finish
<1>4. ASSUME LoopStep, ~Copy
      PROVE  spoilt \subseteq spoilt'
  BY <1>4 DEF LoopStep, Select, Fetch, CopyLinked, Release
<1>5. ASSUME NEW w \in Workers, NEW c \in Conns, NEW kind, Start(w, c, kind)
      PROVE  spoilt \subseteq spoilt'
  BY <1>5 DEF Start
<1>6. ASSUME NEW c \in Conns, Accept(c) \/ Page(c) \/ Leave(c)
      PROVE  spoilt \subseteq spoilt'
  BY <1>6 DEF Accept, Page, Leave
<1>7. CASE Restart \/ UNCHANGED vars
  BY <1>7 DEF Restart, vars
<1>8. QED
  BY <1>1, <1>2, <1>3, <1>4, <1>5, <1>6, <1>7 DEF Next

\* What each worker's own step and the steps of the others leave of it.
LEMMA OthersStay ==
  ASSUME BaseInv, Next, ~Restart
  PROVE  \/ UNCHANGED <<wpc, req, res, m_lock>> /\ UNCHANGED acked
         \/ \E w \in Workers :
              /\ WorkerStep(w) \/ \E c \in Conns, kind \in {"find", "check"} : Start(w, c, kind)
              /\ \A v \in Workers \ {w} :
                   wpc'[v] = wpc[v] /\ req'[v] = req[v] /\ res'[v] = res[v]
<1>1. ASSUME NEW w \in Workers, WorkerStep(w)
      PROVE  \A v \in Workers \ {w} :
               wpc'[v] = wpc[v] /\ req'[v] = req[v] /\ res'[v] = res[v]
  <2>1. \A v \in Workers \ {w} : wpc'[v] = wpc[v]
    BY <1>1 DEF BaseInv, TypeOK, WorkerStep, Check, Find, Lock, Query, Reply, Insert,
                Linked, Unlock, Finish, Goto
  <2>2. \A v \in Workers \ {w} : req'[v] = req[v] /\ res'[v] = res[v]
    BY <1>1 DEF BaseInv, TypeOK, WorkerStep, Check, Find, Lock, Query, Reply, Insert,
                Linked, Unlock, Finish
  <2>3. QED
    BY <2>1, <2>2
<1>2. ASSUME NEW w \in Workers, NEW c \in Conns, NEW kind \in {"find", "check"},
             Start(w, c, kind)
      PROVE  \A v \in Workers \ {w} :
               wpc'[v] = wpc[v] /\ req'[v] = req[v] /\ res'[v] = res[v]
  BY <1>2 DEF BaseInv, TypeOK, Start, Goto
<1>3. CASE LoopStep
  BY <1>3 DEF LoopStep, Select, Fetch, Copy, CopyLinked, Release, work
<1>4. ASSUME NEW c \in Conns, Accept(c) \/ Page(c) \/ Leave(c)
      PROVE  UNCHANGED <<wpc, req, res, m_lock>> /\ UNCHANGED acked
  BY <1>4 DEF Accept, Page, Leave, work
<1>5. QED
  BY <1>1, <1>2, <1>3, <1>4 DEF Next

LEMMA MutexStep ==
  ASSUME BaseInv, MutexInv, [Next]_vars
  PROVE  MutexInv'
<1>1. CASE Restart
  BY <1>1 DEF Restart, MutexInv, Holding
<1>2. CASE UNCHANGED <<wpc, m_lock>>
  BY <1>2 DEF MutexInv
<1>3. ASSUME NEW w \in Workers, WorkerStep(w),
             \A v \in Workers \ {w} : wpc'[v] = wpc[v]
      PROVE  MutexInv'
  <2>1. CASE Lock(w)
    <3>1. \A v \in Workers : wpc[v] \notin Holding
      BY <2>1, AccountsAssumption DEF Lock, MutexInv
    <3>2. QED
      BY <1>3, <2>1, <3>1 DEF Lock, MutexInv
  <2>2. CASE Unlock(w)
    <3>1. wpc[w] \in Holding /\ wpc'[w] \notin Holding
      BY <2>2 DEF Unlock, Goto, Holding, BaseInv, TypeOK
    <3>2. QED
      BY <1>3, <3>1 DEF MutexInv
  <2>3. CASE Check(w) \/ Find(w)
    <3>1. wpc'[w] \notin Holding /\ UNCHANGED m_lock
      BY <2>3 DEF Check, Find, Goto, Holding, BaseInv, TypeOK
    <3>2. QED
      BY <1>3, <3>1 DEF MutexInv
  <2>4. CASE Query(w) \/ Reply(w) \/ Insert(w) \/ Linked(w)
    <3>1. wpc[w] \in Holding /\ UNCHANGED m_lock
      BY <2>4 DEF Query, Reply, Insert, Linked, Goto, Holding
    <3>2. QED
      BY <1>3, <3>1 DEF MutexInv
  <2>5. ASSUME NEW keep \in BOOLEAN, Finish(w, keep)
        PROVE  MutexInv'
    <3>1. wpc'[w] \notin Holding /\ UNCHANGED m_lock
      BY <2>5 DEF Finish, Holding, BaseInv, TypeOK
    <3>2. QED
      BY <1>3, <3>1 DEF MutexInv
  <2>6. QED
    BY <1>3, <2>1, <2>2, <2>3, <2>4, <2>5 DEF WorkerStep
<1>4. ASSUME NEW w \in Workers, NEW c \in Conns, NEW kind \in {"find", "check"},
             Start(w, c, kind), \A v \in Workers \ {w} : wpc'[v] = wpc[v]
      PROVE  MutexInv'
  <2>1. wpc'[w] \notin Holding /\ UNCHANGED m_lock
    BY <1>4 DEF Start, Goto, Holding, BaseInv, TypeOK
  <2>2. QED
    BY <1>4, <2>1 DEF MutexInv
<1>5. QED
  BY <1>1, <1>2, <1>3, <1>4, OthersStay DEF vars

-----------------------------------------------------------------------------
(* Registrations.                                                          *)

\* What the answer to an INSERT says of the table.
LEMMA QueryOutcome ==
  ASSUME BaseInv, NEW w \in Workers, Query(w)
  PROVE  \/ UNCHANGED table /\ res'[w] = FALSE
         \/ /\ table' = Append(table, [name |-> req[w].name, passwd |-> req[w].passwd])
            /\ req[w].name \in spoilt' \/ (UniqueKey => StoredFor(req[w].name) = {})
<1> DEFINE others == Clashing(w, mysql[req[w].conn])
<1>1. PICK ok \in IF others = {} THEN Accepted(w) ELSE BOOLEAN :
        /\ table' = IF ok THEN Append(table, [name |-> req[w].name,
                                              passwd |-> req[w].passwd])
                          ELSE table
        /\ res' = [res EXCEPT ![w] = ok]
  BY DEF Query
<1>2. ok \in BOOLEAN
  BY <1>1, AccountsAssumption DEF Accepted
<1>3. CASE ok = FALSE
  BY <1>1, <1>3 DEF BaseInv, TypeOK
<1>4. CASE ok = TRUE
  <2>1. table' = Append(table, [name |-> req[w].name, passwd |-> req[w].passwd])
    BY <1>1, <1>4
  <2>2. CASE others = {}
    <3>1. ~(UniqueKey /\ StoredFor(req[w].name) # {})
      BY <1>1, <1>4, <2>2 DEF Accepted
    <3>2. QED
      BY <2>1, <3>1
  <2>3. CASE others # {}
    BY <2>1, <2>3 DEF Query
  <2>4. QED
    BY <2>2, <2>3
<1>5. QED
  BY <1>2, <1>3, <1>4

\* The row that is added is found under its name.
LEMMA AddedIsStored ==
  ASSUME TypeOK, NEW n \in Names, NEW p \in Passwords,
         table' = Append(table, [name |-> n, passwd |-> p])
  PROVE  p \in StoredFor(n)'
<1>1. [name |-> n, passwd |-> p] \in Row
  BY DEF Row
<1>2. /\ Len(table) \in Nat /\ Len(table) + 1 \in DOMAIN table'
      /\ table'[Len(table) + 1] = [name |-> n, passwd |-> p]
  BY <1>1, AppendProperties DEF TypeOK
<1>3. QED
  BY <1>2 DEF StoredFor

\* Where a pending success comes from.
LEMMA PendingComesFrom ==
  ASSUME BaseInv, [Next]_vars, NEW v \in Workers, Pending(v)'
  PROVE  /\ req'[v] = req[v]
         /\ \/ Pending(v)
            \/ Query(v)
            \/ wpc[v] = "reply" /\ req[v].name \in spoilt'
<1>1. CASE UNCHANGED vars
  BY <1>1 DEF vars, Pending
<1>2. CASE Restart
  BY <1>2 DEF Restart, Pending
<1>3. ASSUME NEW w \in Workers, WorkerStep(w), w # v
      PROVE  Pending(v) /\ req'[v] = req[v]
  <2>1. wpc'[v] = wpc[v]
    BY <1>3 DEF BaseInv, TypeOK, WorkerStep, Check, Find, Lock, Query, Reply, Insert,
                Linked, Unlock, Finish, Goto
  <2>2. req'[v] = req[v] /\ res'[v] = res[v]
    BY <1>3 DEF BaseInv, TypeOK, WorkerStep, Check, Find, Lock, Query, Reply, Insert,
                Linked, Unlock, Finish
  <2>3. clash \ {w} \subseteq clash'
    BY <1>3 DEF WorkerStep, Check, Find, Lock, Query, Reply, Insert, Linked, Unlock,
                Finish
  <2>4. QED
    BY <1>3, <2>1, <2>2, <2>3 DEF Pending
<1>4. ASSUME NEW w \in Workers, NEW c \in Conns, NEW kind \in {"find", "check"},
             Start(w, c, kind)
      PROVE  Pending(v) /\ req'[v] = req[v]
  <2>1. v # w
    BY <1>4 DEF Start, Goto, Pending, BaseInv, TypeOK
  <2>2. QED
    BY <1>4, <2>1 DEF Start, Goto, Pending, BaseInv, TypeOK
<1>5. CASE LoopStep
  <2>1. UNCHANGED <<wpc, req, res>> /\ clash \ {Loop} \subseteq clash'
    BY <1>5 DEF LoopStep, Select, Fetch, Copy, CopyLinked, Release, work
  <2>2. v # Loop
    BY AccountsAssumption
  <2>3. QED
    BY <2>1, <2>2 DEF Pending
<1>6. ASSUME NEW c \in Conns, Accept(c) \/ Page(c) \/ Leave(c)
      PROVE  Pending(v) /\ req'[v] = req[v]
  BY <1>6 DEF Accept, Page, Leave, work, Pending
<1>7. CASE Reply(v)
  BY <1>7 DEF Reply, Goto, Pending, work, BaseInv, TypeOK
<1>8. CASE Insert(v)
  <2>1. UNCHANGED <<req, res, clash>> /\ wpc[v] = "insert"
    BY <1>8, InsertCases
  <2>2. QED
    BY <2>1 DEF Pending
<1>9. CASE Linked(v)
  BY <1>9 DEF Linked, Goto, Pending
<1>10. CASE Unlock(v) \/ Check(v) \/ Find(v) \/ Lock(v)
  BY <1>10 DEF Unlock, Check, Find, Lock, Goto, Pages, Pending, BaseInv, TypeOK
<1>11. ASSUME NEW keep \in BOOLEAN, Finish(v, keep)
       PROVE  FALSE
  BY <1>11 DEF Finish, Pending, BaseInv, TypeOK
<1>12. CASE Query(v)
  BY <1>12 DEF Query
<1>13. QED
  BY <1>1, <1>2, <1>3, <1>4, <1>5, <1>6, <1>7, <1>8, <1>9, <1>10, <1>11, <1>12
     DEF Next, WorkerStep

\* Who is told of a registration.
LEMMA AckedComesFrom ==
  ASSUME BaseInv, [Next]_vars
  PROVE  \/ UNCHANGED acked
         \/ \E w \in Workers :
              /\ Pending(w) /\ wpc[w] = "unlock" /\ ~Pending(w)'
              /\ acked' = [acked EXCEPT ![req[w].name] = Append(@, req[w].passwd)]
<1>1. ASSUME NEW w \in Workers, Unlock(w), acked' # acked
      PROVE  /\ Pending(w) /\ wpc[w] = "unlock" /\ ~Pending(w)'
             /\ acked' = [acked EXCEPT ![req[w].name] = Append(@, req[w].passwd)]
  <2>1. /\ wpc[w] = "unlock" /\ wpc'[w] \in Pages
        /\ acked' = [acked EXCEPT ![req[w].name] = Append(@, req[w].passwd)]
    BY <1>1 DEF Unlock, Goto, Pages, BaseInv, TypeOK
  <2>2. res[w] = TRUE
    BY <1>1 DEF Unlock, BaseInv, TypeOK
  <2>3. Pending(w)
    BY <2>1, <2>2 DEF Pending
  <2>4. ~Pending(w)'
    BY <2>1 DEF Pending, Pages
  <2>5. QED
    BY <2>1, <2>3, <2>4
<1>2. ASSUME NEW w \in Workers, WorkerStep(w), ~Unlock(w)
      PROVE  UNCHANGED acked
  BY <1>2 DEF WorkerStep, Check, Find, Lock, Query, Reply, Insert, Linked, Finish
<1>3. ASSUME NEW w \in Workers, NEW c \in Conns, NEW kind, Start(w, c, kind)
      PROVE  UNCHANGED acked
  BY <1>3 DEF Start
<1>4. CASE LoopStep
  BY <1>4 DEF LoopStep, Select, Fetch, Copy, CopyLinked, Release
<1>5. ASSUME NEW c \in Conns, Accept(c) \/ Page(c) \/ Leave(c)
      PROVE  UNCHANGED acked
  BY <1>5 DEF Accept, Page, Leave
<1>6. CASE Restart \/ UNCHANGED vars
  BY <1>6 DEF Restart, vars
<1>7. QED
  BY <1>1, <1>2, <1>3, <1>4, <1>5, <1>6 DEF Next

LEMMA PendingStep ==
  ASSUME BaseInv, PendingInv, [Next]_vars
  PROVE  PendingInv'
<1> SUFFICES ASSUME NEW w \in Workers, Pending(w)', NEW n, NEW p,
                    n = req'[w].name, p = req'[w].passwd, n \notin spoilt'
             PROVE  p \in StoredFor(n)'
  BY DEF PendingInv, StoredFor
<1>1. req[w].name = n /\ req[w].passwd = p /\ (Pending(w) \/ Query(w))
  BY PendingComesFrom
<1>2. CASE Pending(w)
  <2>1. p \in StoredFor(n)
    BY <1>1, <1>2, SpoiltStays DEF PendingInv
  <2>2. StoredFor(n) \subseteq StoredFor(n)'
    BY StoredForGrows
  <2>3. QED
    BY <2>1, <2>2
<1>3. CASE Query(w)
  <2>1. n \in Names /\ p \in Passwords
    BY <1>1, <1>3 DEF Query, BaseInv, ServeInv
  <2>2. table' = Append(table, [name |-> n, passwd |-> p])
    BY <1>1, <1>3, QueryOutcome DEF Pending
  <2>3. QED
    BY <2>1, <2>2, AddedIsStored DEF BaseInv
<1>4. QED
  BY <1>1, <1>2, <1>3

LEMMA AckedStep ==
  ASSUME BaseInv, PendingInv, AcknowledgedIsStored, [Next]_vars
  PROVE  AcknowledgedIsStored'
<1> SUFFICES ASSUME NEW n \in Names, n \notin spoilt', NEW i \in DOMAIN acked'[n]
             PROVE  acked'[n][i] \in StoredFor(n)'
  BY DEF AcknowledgedIsStored
<1>1. n \notin spoilt /\ StoredFor(n) \subseteq StoredFor(n)'
  BY SpoiltStays, StoredForGrows
<1>2. CASE UNCHANGED acked
  BY <1>1, <1>2 DEF AcknowledgedIsStored
<1>3. ASSUME NEW w \in Workers, Pending(w),
             acked' = [acked EXCEPT ![req[w].name] = Append(@, req[w].passwd)]
      PROVE  acked'[n][i] \in StoredFor(n)'
  <2>1. req[w].name \in Names /\ req[w].passwd \in Passwords
    BY <1>3 DEF Pending, BaseInv, ServeInv
  <2>2. CASE req[w].name # n
    BY <1>1, <1>3, <2>2 DEF AcknowledgedIsStored, BaseInv, TypeOK
  <2>3. CASE req[w].name = n
    <3>1. req[w].passwd \in StoredFor(n)
      BY <1>1, <1>3, <2>3 DEF PendingInv
    <3>2. acked'[n] = Append(acked[n], req[w].passwd) /\ acked[n] \in Seq(Passwords)
      BY <1>3, <2>3 DEF BaseInv, TypeOK
    <3>3. \/ i \in DOMAIN acked[n] /\ acked'[n][i] = acked[n][i]
          \/ acked'[n][i] = req[w].passwd
      BY <2>1, <3>2, AppendProperties
    <3>4. QED
      BY <1>1, <3>1, <3>3 DEF AcknowledgedIsStored
  <2>4. QED
    BY <2>2, <2>3
<1>4. QED
  BY <1>2, <1>3, AckedComesFrom

LEMMA OneStep ==
  ASSUME BaseInv, MutexInv, AcknowledgedIsStored, OneInv, [Next]_vars
  PROVE  OneInv'
<1> SUFFICES ASSUME UniqueKey, NEW n \in Names, n \notin spoilt'
             PROVE  /\ AtStart(n) => acked'[n] = <<>> /\ StoredFor(n)' # {}
                    /\ Len(acked'[n]) <= 1
                    /\ \A w \in Workers :
                         Pending(w)' /\ req'[w].name = n => acked'[n] = <<>> /\ ~AtStart(n)
  BY DEF OneInv, AtStart
<1>1. n \notin spoilt
  BY SpoiltStays
<1>2. /\ AtStart(n) => acked[n] = <<>> /\ StoredFor(n) # {}
      /\ Len(acked[n]) <= 1
      /\ \A w \in Workers :
           Pending(w) /\ req[w].name = n => acked[n] = <<>> /\ ~AtStart(n)
  BY <1>1 DEF OneInv
<1>3. StoredFor(n) \subseteq StoredFor(n)'
  BY StoredForGrows
<1>4. StoredFor(n) = {} => acked[n] = <<>>
  <2> SUFFICES ASSUME acked[n] # <<>> PROVE StoredFor(n) # {}
    OBVIOUS
  <2>1. acked[n] \in Seq(Passwords)
    BY DEF BaseInv, TypeOK
  <2>2. 1 \in DOMAIN acked[n]
    BY <2>1, EmptySeq
  <2>3. QED
    BY <1>1, <2>2 DEF AcknowledgedIsStored
<1>5. ASSUME NEW w \in Workers, Pending(w)', req'[w].name = n
      PROVE  acked[n] = <<>> /\ ~AtStart(n)
  <2>1. req[w].name = n /\ (Pending(w) \/ Query(w))
    BY <1>5, PendingComesFrom
  <2>2. CASE Pending(w)
    BY <1>2, <2>1, <2>2
  <2>3. CASE Query(w)
    <3>1. StoredFor(n) = {}
      BY <1>5, <2>1, <2>3, QueryOutcome DEF Pending
    <3>2. QED
      BY <1>2, <1>4, <3>1
  <2>4. QED
    BY <2>1, <2>2, <2>3
<1>6. CASE UNCHANGED acked
  BY <1>2, <1>3, <1>5, <1>6
<1>7. ASSUME NEW w \in Workers, Pending(w), wpc[w] = "unlock", ~Pending(w)',
             acked' = [acked EXCEPT ![req[w].name] = Append(@, req[w].passwd)]
      PROVE  /\ AtStart(n) => acked'[n] = <<>>
             /\ Len(acked'[n]) <= 1
             /\ \A v \in Workers : ~(Pending(v)' /\ req'[v].name = n /\ acked'[n] # <<>>)
  <2>1. CASE req[w].name # n
    <3>1. acked'[n] = acked[n]
      BY <1>7, <2>1 DEF BaseInv, TypeOK
    <3>2. QED
      BY <1>2, <1>5, <3>1
  <2>2. CASE req[w].name = n
    <3>1. acked[n] = <<>> /\ ~AtStart(n)
      BY <1>2, <1>7, <2>2
    <3>2. acked'[n] = <<req[w].passwd>>
      BY <1>7, <2>2, <3>1 DEF BaseInv, TypeOK
    <3>3. ASSUME NEW v \in Workers, Pending(v)'
          PROVE  FALSE
      <4>1. v # w
        BY <1>7, <3>3
      <4>2. m_lock = w
        BY <1>7 DEF MutexInv, Holding
      <4>3. wpc[v] \in Holding
        BY <3>3, PendingComesFrom DEF Pending, Query, Goto, Holding
      <4>4. QED
        BY <4>1, <4>2, <4>3 DEF MutexInv
    <3>4. QED
      BY <3>1, <3>2, <3>3
  <2>3. QED
    BY <2>1, <2>2
<1>8. QED
  BY <1>2, <1>3, <1>5, <1>6, <1>7, AckedComesFrom

LEMMA UniqStep ==
  ASSUME BaseInv, UniqInv, [Next]_vars
  PROVE  UniqInv'
<1> SUFFICES ASSUME UniqueKey, NEW i \in DOMAIN table', NEW j \in DOMAIN table',
                    table'[i].name = table'[j].name, table'[i].name \notin spoilt'
             PROVE  i = j
  BY DEF UniqInv
<1>1. spoilt \subseteq spoilt'
  BY SpoiltStays
<1>2. CASE UNCHANGED table
  BY <1>1, <1>2 DEF UniqInv
<1>3. ASSUME NEW w \in Workers, Query(w),
             table' = Append(table, [name |-> req[w].name, passwd |-> req[w].passwd])
      PROVE  i = j
  <2> DEFINE row == [name |-> req[w].name, passwd |-> req[w].passwd]
             last == Len(table) + 1
  <2>1. row \in Row /\ table \in Seq(Row)
    BY <1>3 DEF Query, BaseInv, ServeInv, TypeOK, Row
  <2>2. /\ \A k \in DOMAIN table' : k \in DOMAIN table \/ k = last
        /\ \A k \in DOMAIN table : table'[k] = table[k]
        /\ table'[last] = row
    BY <1>3, <2>1, AppendProperties
  <2>3. row.name \notin spoilt' => StoredFor(row.name) = {}
    <3>1. table' # table
      BY <1>3, <2>1, AppendProperties
    <3>2. QED
      BY <1>3, <3>1, QueryOutcome
  <2>4. \A k \in DOMAIN table : row.name \notin spoilt' => table[k].name # row.name
    BY <2>3 DEF StoredFor
  <2>5. CASE i = last /\ j # last
    BY <2>2, <2>4, <2>5
  <2>6. CASE j = last /\ i # last
    BY <2>2, <2>4, <2>6
  <2>7. CASE i # last /\ j # last
    BY <1>1, <2>2, <2>7 DEF UniqInv
  <2>8. QED
    BY <2>5, <2>6, <2>7
<1>4. QED
  BY <1>2, <1>3, TableGrows DEF BaseInv

-----------------------------------------------------------------------------
(* The theorems.                                                           *)

AccountsInv ==
  BaseInv /\ MutexInv /\ PendingInv /\ AcknowledgedIsStored /\ OneInv /\ UniqInv

LEMMA InitAccounts == Init => AccountsInv
<1> SUFFICES ASSUME Init PROVE AccountsInv
  OBVIOUS
<1>1. MutexInv /\ PendingInv
  BY DEF Init, MutexInv, PendingInv, Pending, Holding
<1>2. AcknowledgedIsStored
  BY DEF Init, AcknowledgedIsStored
<1>3. OneInv
  <2> SUFFICES ASSUME NEW n \in Names
               PROVE  /\ AtStart(n) => acked[n] = <<>> /\ StoredFor(n) # {}
                      /\ Len(acked[n]) <= 1
                      /\ \A w \in Workers : ~Pending(w)
    BY DEF OneInv
  <2>1. AtStart(n) => StoredFor(n) # {}
    BY DEF Init, AtStart, StoredFor
  <2>2. acked[n] = <<>>
    BY DEF Init
  <2>3. Len(acked[n]) <= 1
    BY <2>2
  <2>4. \A w \in Workers : ~Pending(w)
    BY DEF Init, Pending
  <2>5. QED
    BY <2>1, <2>2, <2>3, <2>4
<1>4. UniqInv
  BY AccountsAssumption DEF Init, UniqInv
<1>5. QED
  BY <1>1, <1>2, <1>3, <1>4, InitBase DEF AccountsInv

LEMMA NextAccounts == AccountsInv /\ [Next]_vars => AccountsInv'
BY BaseStep, MutexStep, PendingStep, AckedStep, OneStep, UniqStep DEF AccountsInv

LEMMA Inductive == Spec => []AccountsInv
BY InitAccounts, NextAccounts, PTL DEF Spec

\* The variables of the model have their types: in particular a thread links
\* a name of a request or of a row, and the pool gets back what it gave
\* (http_conn.cpp:866-897).
THEOREM TypeCorrect == Spec => []TypeOK
<1>1. AccountsInv => TypeOK
  BY DEF AccountsInv, BaseInv
<1>2. QED
  BY <1>1, Inductive, PTL

\* A registration the client was told of is in the table, for any number of
\* workers, requests and starts (http_conn.cpp:412-422).
THEOREM AcknowledgedStay == Spec => []AcknowledgedIsStored
<1>1. AccountsInv => AcknowledgedIsStored
  BY DEF AccountsInv
<1>2. QED
  BY <1>1, Inductive, PTL

\* With a unique key one client at most is told that it has registered a
\* name (http_conn.cpp:406).
THEOREM OneIsTold == Spec => []OneAcknowledged
<1>1. AccountsInv => OneAcknowledged
  <2> SUFFICES ASSUME AccountsInv, UniqueKey, NEW n \in Names \ spoilt
               PROVE  Len(acked[n]) <= IF AtStart(n) THEN 0 ELSE 1
    BY DEF OneAcknowledged, AtStart
  <2>1. /\ AtStart(n) => acked[n] = <<>>
        /\ Len(acked[n]) <= 1
    BY DEF AccountsInv, OneInv
  <2>2. QED
    BY <2>1
<1>2. QED
  BY <1>1, Inductive, PTL

\* Two workers never have a query under way on the same handle
\* (http_conn.cpp:409-415).
THEOREM QueriesApart == Spec => []HandlesApart
<1>1. AccountsInv => HandlesApart
  BY DEF AccountsInv, MutexInv, HandlesApart, Holding
<1>2. QED
  BY <1>1, Inductive, PTL

LEMMA SettledStep ==
  ASSUME AccountsInv, [Next]_vars, UniqueKey, crashes' = crashes,
         NEW n \in Names, n \notin spoilt', users[n] \in StoredFor(n)
  PROVE  users'[n] = users[n]
<1>1. users[n] # Absent /\ n \notin spoilt
  <2>1. \A i \in DOMAIN table : table[i].passwd \in Passwords
    BY RowTypes DEF AccountsInv, BaseInv
  <2>2. users[n] \in Passwords
    BY <2>1 DEF StoredFor
  <2>3. QED
    BY <2>2, AccountsAssumption, SpoiltStays DEF AccountsInv
<1>2. ASSUME NEW t \in Threads, NEW m \in Names, NEW p \in Passwords, Link(t, m, p)
      PROVE  users'[n] = users[n]
  <2>1. CASE m = n
    BY <1>1, <1>2, <2>1 DEF Link
  <2>2. CASE m # n
    BY <1>2, <2>2 DEF Link, AccountsInv, BaseInv, TypeOK
  <2>3. QED
    BY <2>1, <2>2
<1>3. ASSUME NEW w \in Workers, Insert(w)
      PROVE  users'[n] = users[n]
  <2>1. req[w].name \in Names /\ req[w].passwd \in Passwords
    BY <1>3, InsertCases DEF AccountsInv, BaseInv, ServeInv
  <2>2. CASE UNCHANGED <<map, spoilt>>
    BY <2>2 DEF map
  <2>3. CASE Link(w, req[w].name, req[w].passwd)
    BY <1>2, <2>1, <2>3 DEF Threads
  <2>4. QED
    BY <1>3, <2>2, <2>3, InsertCases
<1>4. ASSUME Copy
      PROVE  users'[n] = users[n]
  <2>1. PICK i \in left :
          \/ Assign(table[i].name, table[i].passwd)
          \/ Link(Loop, table[i].name, table[i].passwd)
    BY <1>4, CopyCases
  <2>2. i \in DOMAIN table
    BY DEF AccountsInv, BaseInv, TypeOK, LoopInv
  <2>3. table[i].name \in Names /\ table[i].passwd \in Passwords
    BY <2>2, RowTypes DEF AccountsInv, BaseInv
  <2>4. CASE Assign(table[i].name, table[i].passwd)
    <3>1. CASE table[i].name = n
      <4>1. PICK j \in DOMAIN table : table[j].name = n /\ table[j].passwd = users[n]
        BY DEF StoredFor
      <4>2. j = i
        BY <1>1, <2>2, <3>1, <4>1 DEF AccountsInv, UniqInv
      <4>3. QED
        BY <2>4, <3>1, <4>1, <4>2 DEF Assign, AccountsInv, BaseInv, TypeOK
    <3>2. CASE table[i].name # n
      BY <2>4, <3>2 DEF Assign, AccountsInv, BaseInv, TypeOK
    <3>3. QED
      BY <3>1, <3>2
  <2>5. CASE Link(Loop, table[i].name, table[i].passwd)
    BY <1>2, <2>3, <2>5 DEF Threads
  <2>6. QED
    BY <2>1, <2>4, <2>5
<1>5. CASE Restart
  BY <1>5 DEF Restart, AccountsInv, BaseInv, TypeOK
<1>6. ASSUME NEW w \in Workers, WorkerStep(w), ~Insert(w)
      PROVE  UNCHANGED users
  BY <1>6 DEF WorkerStep, Check, Find, Lock, Query, Reply, Linked, Unlock, Finish, map
<1>7. ASSUME LoopStep, ~Copy
      PROVE  UNCHANGED users
  BY <1>7 DEF LoopStep, Select, Fetch, CopyLinked, Release, map
<1>8. ASSUME NEW w \in Workers, NEW c \in Conns, NEW kind, Start(w, c, kind)
      PROVE  UNCHANGED users
  BY <1>8 DEF Start, map
<1>9. ASSUME NEW c \in Conns, Accept(c) \/ Page(c) \/ Leave(c)
      PROVE  UNCHANGED users
  BY <1>9 DEF Accept, Page, Leave, map
<1>10. CASE UNCHANGED vars
  BY <1>10 DEF vars
<1>11. QED
  BY <1>3, <1>4, <1>5, <1>6, <1>7, <1>8, <1>9, <1>10 DEF Next

\* With a unique key a password the map and the table agree on stays as long
\* as the server runs: a second INSERT is refused, users.insert does not
\* overwrite, and a reload finds the same row (http_conn.cpp:414, 895).
THEOREM PasswordsSettle == Spec => SettledForGood
<1>1. AccountsInv /\ [Next]_vars =>
        [UniqueKey /\ crashes' = crashes =>
           \A n \in Names \ spoilt' :
             users[n] \in StoredFor(n) => users'[n] = users[n]]_vars
  BY SettledStep
<1>2. QED
  BY <1>1, Inductive, PTL DEF Spec, SettledForGood
=============================================================================
