------------------------------ MODULE Accounts ------------------------------
(***************************************************************************)
(* The user administration: the map users, the table labuser behind it,    *)
(* m_lock, and the MYSQL handles of the connections.  Workers register and *)
(* log in; the event loop reloads the map at every accept.  Only the       *)
(* INSERT and the insertion that follows are under m_lock.                 *)
(*                                                                         *)
(* The map is no concurrent one: a search while another thread links a     *)
(* node may miss what is there, and of two nodes linked at the same time   *)
(* one may be lost.  A handle used by two threads at once may answer       *)
(* anything.  Names touched by either of the last two are spoilt.          *)
(***************************************************************************)
EXTENDS Integers, Sequences

CONSTANTS
  Names, Passwords,
  Conns,        \* the http_conn objects
  Workers,      \* threads of the pool
  Loop,         \* the thread of the event loop
  Handles,      \* MYSQL objects of the connection pool
  Opened,       \* the handles in the order in which the pool opens them
  Unconnected,  \* a fresh mysql_init(nullptr)
  Absent,       \* no entry in users
  Nobody, None,
  Stored,       \* the rows of the table before the first start
  UniqueKey,    \* whether the table refuses a second row for a name
  DbFails,      \* whether a query may fail
  LogsInfo,     \* http_logger->getLevel() <= INFO
  MaxAccepts, MaxRequests, MaxCrashes    \* bounds

ASSUME AccountsAssumption ==
  /\ Loop \notin Workers /\ Nobody \notin Workers
  /\ Unconnected \notin Handles /\ None \notin Names \cup Conns
  /\ Absent \notin Passwords
  /\ Opened \in Seq(Handles)
  /\ Stored \in Seq([name : Names, passwd : Passwords])
  /\ UniqueKey => \A i, j \in DOMAIN Stored : Stored[i].name = Stored[j].name => i = j
  /\ UniqueKey \in BOOLEAN /\ DbFails \in BOOLEAN /\ LogsInfo \in BOOLEAN
  /\ MaxAccepts \in Nat /\ MaxRequests \in Nat /\ MaxCrashes \in Nat

VARIABLES
  table,        \* labuser: its rows, in the order of insertion
  users, m_lock,
  connList,     \* the handles that are in the connection pool
  mysql,        \* the member mysql of each http_conn
  open,         \* connections with a client
  wpc,          \* where a worker is in do_request; see Steps
  req,          \* its request: connection, name and password
  res,          \* whether its INSERT was answered with success
  lpc, accepting,  \* where the loop is in initmysql_result, and for whom
  rows,         \* the result set it has fetched, as indices into table
  left,         \* the rows it has still to copy
  linking,      \* the name whose node a thread is linking into users
  clash,        \* threads whose query overlaps another on the same handle
  acked,        \* passwords of the registrations a client was told of
  spoilt,
  accepts, requests, crashes

db == <<table, connList, mysql>>
work == <<wpc, req, res>>
loop == <<lpc, accepting, rows, left>>
map == <<users, linking>>
bounds == <<accepts, requests, crashes>>
vars == <<table, users, m_lock, connList, mysql, open, wpc, req, res,
          lpc, accepting, rows, left, linking, clash, acked, spoilt,
          accepts, requests, crashes>>

Threads == Workers \cup {Loop}
Row == [name : Names, passwd : Passwords]
Request == [conn : Conns \cup {None}, name : Names \cup {None},
            passwd : Passwords \cup {Absent}]
NoRequest == [conn |-> None, name |-> None, passwd |-> Absent]

\* What do_request ends with: the page in m_url, which for a failed INSERT
\* is the one that was asked for, and does not exist.
Pages == {"TP2", "logandreg", "logerror", "missing"}

Steps == {"idle", "find", "check", "lock", "query", "reply", "insert",
          "linked", "unlock"} \cup Pages

TypeOK ==
  /\ table \in Seq(Row)
  /\ users \in [Names -> Passwords \cup {Absent}]
  /\ m_lock \in Workers \cup {Nobody}
  /\ connList \in Seq(Handles)
  /\ mysql \in [Conns -> Handles \cup {Unconnected}]
  /\ open \subseteq Conns
  /\ wpc \in [Workers -> Steps]
  /\ req \in [Workers -> Request]
  /\ res \in [Workers -> BOOLEAN]
  /\ lpc \in {"wait", "select", "fetch", "copy", "linked", "release"}
  /\ accepting \in Conns \cup {None}
  /\ rows \subseteq Nat /\ left \subseteq rows
  /\ linking \in [Threads -> Names \cup {None}]
  /\ clash \subseteq Threads
  /\ acked \in [Names -> Seq(Passwords)]
  /\ spoilt \subseteq Names
  /\ accepts \in Nat /\ requests \in Nat /\ crashes \in Nat

\* The passwords the table holds for a name.
StoredFor(n) == {table[i].passwd : i \in {j \in DOMAIN table : table[j].name = n}}

Init ==
  /\ table = Stored
  /\ users = [n \in Names |-> Absent]
  /\ m_lock = Nobody
  /\ connList = Opened
  /\ mysql = [c \in Conns |-> Unconnected]
  /\ open = {}
  /\ wpc = [w \in Workers |-> "idle"]
  /\ req = [w \in Workers |-> NoRequest]
  /\ res = [w \in Workers |-> FALSE]
  /\ lpc = "wait" /\ accepting = None /\ rows = {} /\ left = {}
  /\ linking = [t \in Threads |-> None]
  /\ clash = {} /\ spoilt = {}
  /\ acked = [n \in Names |-> <<>>]
  /\ accepts = 0 /\ requests = 0 /\ crashes = 0

Goto(w, from, to) == wpc[w] = from /\ wpc' = [wpc EXCEPT ![w] = to]

-----------------------------------------------------------------------------
(* The map.                                                                *)

\* Some thread other than t is linking a node.
Racing(t) == \E u \in Threads \ {t} : linking[u] # None

\* users.find: whether n is found.
Found(t, n) == IF Racing(t) THEN {users[n] # Absent, FALSE} ELSE {users[n] # Absent}

\* t links a node for n it has not found.  If another thread is linking one
\* too, either node may get lost; of two nodes for one name either may be seen.
Link(t, n, p) ==
  /\ linking' = [linking EXCEPT ![t] = n]
  /\ LET added == [users EXCEPT ![n] = p]
         others == {linking[u] : u \in Threads \ {t}} \ {None}
     IN \/ /\ users' = added
           /\ spoilt' = IF users[n] = Absent THEN spoilt ELSE spoilt \cup {n}
        \/ \E m \in others : /\ users' = [added EXCEPT ![m] = Absent]
                             /\ spoilt' = spoilt \cup {m, n}
        \/ /\ others # {}
           /\ spoilt' = spoilt \cup {n}
           /\ UNCHANGED users

\* users[n] = p on a node that is there.
Assign(n, p) == users' = [users EXCEPT ![n] = p]

-----------------------------------------------------------------------------
(* The database.                                                           *)

Busy(t, h) ==
  IF t = Loop THEN lpc = "fetch" /\ mysql[accepting] = h
              ELSE wpc[t] = "reply" /\ mysql[req[t].conn] = h

\* The threads that are waiting for an answer on the handle t is about to use.
Clashing(t, h) == {u \in Threads \ {t} : h # Unconnected /\ Busy(u, h)}

\* What the table does with a new row.
Accepted(w) ==
  LET n == req[w].name
  IN IF \/ mysql[req[w].conn] = Unconnected
        \/ UniqueKey /\ StoredFor(n) # {}
     THEN {FALSE}
     ELSE {TRUE, ~DbFails}

-----------------------------------------------------------------------------
(* A worker in do_request.  The connection belongs to it alone.            *)

Served == {req[w].conn : w \in Workers} \cup {accepting}

Start(w, c, kind) ==
  /\ requests < MaxRequests
  /\ c \in open \ Served
  /\ Goto(w, "idle", kind)
  /\ \E n \in Names, p \in Passwords :
       req' = [req EXCEPT ![w] = [conn |-> c, name |-> n, passwd |-> p]]
  /\ requests' = requests + 1
  /\ UNCHANGED <<db, map, loop, m_lock, open, res, clash, acked, spoilt, accepts,
                 crashes>>

\* Login: find, and users[name] == password.
Check(w) ==
  /\ wpc[w] = "check"
  /\ \E hit \in Found(w, req[w].name) :
       Goto(w, "check", IF hit /\ users[req[w].name] = req[w].passwd
                        THEN "TP2" ELSE "logerror")
  /\ UNCHANGED <<db, map, loop, m_lock, open, req, res, clash, acked, spoilt, bounds>>

\* Register: the name is looked up before the lock is taken.
Find(w) ==
  /\ wpc[w] = "find"
  /\ \E hit \in Found(w, req[w].name) :
       Goto(w, "find", IF hit THEN "logerror" ELSE "lock")
  /\ UNCHANGED <<db, map, loop, m_lock, open, req, res, clash, acked, spoilt, bounds>>

\* Mutation of Lock: nobody waits for it.
LockNoWait(w) ==
  /\ Goto(w, "lock", "query")
  /\ m_lock' = w
  /\ UNCHANGED <<db, map, loop, open, req, res, clash, acked, spoilt, bounds>>

Lock(w) ==
  /\ m_lock = Nobody
  /\ Goto(w, "lock", "query")
  /\ m_lock' = w
  /\ UNCHANGED <<db, map, loop, open, req, res, clash, acked, spoilt, bounds>>

\* mysql_query(mysql, sql_insert), up to the answer.
Query(w) ==
  LET h == mysql[req[w].conn]
      others == Clashing(w, h)
      n == req[w].name
  IN /\ wpc[w] = "query"
     /\ Goto(w, "query", "reply")
     /\ \E ok \in IF others = {} THEN Accepted(w) ELSE BOOLEAN :
          /\ table' = IF ok THEN Append(table, [name |-> n, passwd |-> req[w].passwd])
                            ELSE table
          /\ res' = [res EXCEPT ![w] = ok]
     /\ clash' = IF others = {} THEN clash ELSE clash \cup others \cup {w}
     /\ spoilt' = IF others = {} THEN spoilt ELSE spoilt \cup {n}
     /\ UNCHANGED <<connList, mysql, map, loop, m_lock, open, req, acked, bounds>>

\* Mutation of Reply: what mysql_query answers is ignored.
ReplySuccess(w) ==
  /\ Goto(w, "reply", "insert")
  /\ res' = [res EXCEPT ![w] = TRUE]
  /\ clash' = clash \ {w}
  /\ spoilt' = IF w \in clash THEN spoilt \cup {req[w].name} ELSE spoilt
  /\ UNCHANGED <<db, map, loop, m_lock, open, req, acked, bounds>>

Reply(w) ==
  /\ Goto(w, "reply", "insert")
  /\ IF w \in clash THEN \E ok \in BOOLEAN : res' = [res EXCEPT ![w] = ok]
                    ELSE UNCHANGED res
  /\ clash' = clash \ {w}
  /\ spoilt' = IF w \in clash THEN spoilt \cup {req[w].name} ELSE spoilt
  /\ UNCHANGED <<db, map, loop, m_lock, open, req, acked, bounds>>

\* Mutation of Insert: users[name] = password.
InsertOver(w) ==
  /\ wpc[w] = "insert"
  /\ \E hit \in Found(w, req[w].name) :
       IF hit THEN /\ Goto(w, "insert", "unlock")
                   /\ Assign(req[w].name, req[w].passwd)
                   /\ UNCHANGED <<linking, spoilt>>
              ELSE /\ Goto(w, "insert", "linked")
                   /\ Link(w, req[w].name, req[w].passwd)
  /\ UNCHANGED <<db, loop, m_lock, open, req, res, clash, acked, bounds>>

\* users.insert, whatever mysql_query has answered.  It adds a node only if
\* it finds none.
Insert(w) ==
  /\ wpc[w] = "insert"
  /\ \E hit \in Found(w, req[w].name) :
       IF hit THEN /\ Goto(w, "insert", "unlock")
                   /\ UNCHANGED <<map, spoilt>>
              ELSE /\ Goto(w, "insert", "linked")
                   /\ Link(w, req[w].name, req[w].passwd)
  /\ UNCHANGED <<db, loop, m_lock, open, req, res, clash, acked, bounds>>

Linked(w) ==
  /\ Goto(w, "linked", "unlock")
  /\ linking' = [linking EXCEPT ![w] = None]
  /\ UNCHANGED <<db, users, loop, m_lock, open, req, res, clash, acked, spoilt, bounds>>

\* Mutation of Unlock: the page does not depend on the answer.
UnlockWelcome(w) ==
  /\ Goto(w, "unlock", "logandreg")
  /\ m_lock' = Nobody
  /\ acked' = [acked EXCEPT ![req[w].name] = Append(@, req[w].passwd)]
  /\ UNCHANGED <<db, map, loop, open, req, res, clash, spoilt, bounds>>

\* Mutation of Unlock: a failed INSERT returns before the unlock.
UnlockOnSuccess(w) ==
  LET page == IF res[w] THEN "logandreg" ELSE "missing"
  IN /\ Goto(w, "unlock", page)
     /\ m_lock' = IF res[w] THEN Nobody ELSE m_lock
     /\ acked' = IF res[w]
                 THEN [acked EXCEPT ![req[w].name] = Append(@, req[w].passwd)]
                 ELSE acked
     /\ UNCHANGED <<db, map, loop, open, req, res, clash, spoilt, bounds>>

\* unlock, and the choice of the page.  Its else belongs to the test of the
\* level inside RTDM_LOG_FMT_INFO.
Unlock(w) ==
  LET page == IF LogsInfo THEN IF res[w] THEN "logandreg" ELSE "missing"
                          ELSE "logerror"
  IN /\ Goto(w, "unlock", page)
     /\ m_lock' = Nobody
     /\ acked' = IF page = "logandreg"
                 THEN [acked EXCEPT ![req[w].name] = Append(@, req[w].passwd)]
                 ELSE acked
     /\ UNCHANGED <<db, map, loop, open, req, res, clash, spoilt, bounds>>

\* The page is sent.  A client that keeps the connection finds it reset, with
\* a handle that is connected to nothing.
Finish(w, keep) ==
  LET c == req[w].conn
  IN /\ wpc[w] \in Pages
     /\ wpc' = [wpc EXCEPT ![w] = "idle"]
     /\ req' = [req EXCEPT ![w] = NoRequest]
     /\ res' = [res EXCEPT ![w] = FALSE]
     /\ IF keep THEN /\ wpc[w] # "missing"
                     /\ mysql' = [mysql EXCEPT ![c] = Unconnected]
                     /\ UNCHANGED open
                ELSE /\ open' = open \ {c}
                     /\ UNCHANGED mysql
     /\ UNCHANGED <<table, connList, map, loop, m_lock, clash, acked, spoilt, bounds>>

-----------------------------------------------------------------------------
(* The event loop in initmysql_result.                                     *)

\* accept: init() makes a fresh handle, which the one from the pool replaces.
Accept(c) ==
  /\ accepts < MaxAccepts
  /\ lpc = "wait" /\ c \notin open
  /\ connList # <<>>
  /\ lpc' = "select" /\ accepting' = c
  /\ open' = open \cup {c}
  /\ mysql' = [mysql EXCEPT ![c] = Head(connList)]
  /\ connList' = Tail(connList)
  /\ accepts' = accepts + 1
  /\ UNCHANGED <<table, map, work, m_lock, rows, left, clash, acked, spoilt, requests,
                 crashes>>

\* SELECT labusername, labpasswd FROM labuser, up to the answer.
Select ==
  LET others == Clashing(Loop, mysql[accepting])
  IN /\ lpc = "select" /\ lpc' = "fetch"
     /\ rows' = DOMAIN table
     /\ clash' = IF others = {} THEN clash ELSE clash \cup others \cup {Loop}
     /\ UNCHANGED <<db, map, work, accepting, left, m_lock, open, acked, spoilt, bounds>>

\* mysql_store_result.
Fetch ==
  /\ lpc = "fetch" /\ lpc' = "copy"
  /\ rows' \in IF Loop \in clash THEN SUBSET rows ELSE {rows}
  /\ left' = rows'
  /\ clash' = clash \ {Loop}
  /\ UNCHANGED <<db, map, work, accepting, m_lock, open, acked, spoilt, bounds>>

\* users[temp1] = temp2 for one row.
Copy ==
  \E i \in left :
    /\ lpc = "copy"
    /\ left' = left \ {i}
    /\ \E hit \in Found(Loop, table[i].name) :
         IF hit THEN /\ Assign(table[i].name, table[i].passwd)
                     /\ UNCHANGED <<lpc, linking, spoilt>>
                ELSE /\ Link(Loop, table[i].name, table[i].passwd)
                     /\ lpc' = "linked"
    /\ UNCHANGED <<db, work, accepting, rows, m_lock, open, clash, acked, bounds>>

CopyLinked ==
  /\ lpc = "linked" /\ lpc' = "copy"
  /\ linking' = [linking EXCEPT ![Loop] = None]
  /\ UNCHANGED <<db, users, work, accepting, rows, left, m_lock, open, clash, acked,
                 spoilt, bounds>>

\* The connection goes back; the http_conn keeps its pointer.
Release ==
  /\ lpc = "copy" /\ left = {}
  /\ lpc' = "wait" /\ accepting' = None
  /\ rows' = {}
  /\ connList' = Append(connList, mysql[accepting])
  /\ UNCHANGED <<table, mysql, map, work, left, m_lock, open, clash, acked, spoilt, bounds>>

\* A request that leaves the user table alone, on a connection that is kept.
Page(c) ==
  /\ c \in open \ Served
  /\ mysql[c] # Unconnected
  /\ mysql' = [mysql EXCEPT ![c] = Unconnected]
  /\ UNCHANGED <<table, connList, map, work, loop, m_lock, open, clash, acked, spoilt,
                 bounds>>

\* The client goes.
Leave(c) ==
  /\ c \in open \ Served
  /\ open' = open \ {c}
  /\ UNCHANGED <<db, map, work, loop, m_lock, clash, acked, spoilt, bounds>>

\* The process ends and is started again: because it is killed, or because a
\* SELECT has failed and mysql_num_fields is given the NULL that follows.
Restart ==
  /\ crashes < MaxCrashes
  /\ crashes' = crashes + 1
  /\ users' = [n \in Names |-> Absent]
  /\ linking' = [t \in Threads |-> None]
  /\ m_lock' = Nobody
  /\ connList' = Opened
  /\ mysql' = [c \in Conns |-> Unconnected]
  /\ open' = {} /\ clash' = {}
  /\ wpc' = [w \in Workers |-> "idle"]
  /\ req' = [w \in Workers |-> NoRequest]
  /\ res' = [w \in Workers |-> FALSE]
  /\ lpc' = "wait" /\ accepting' = None /\ rows' = {} /\ left' = {}
  /\ UNCHANGED <<table, acked, spoilt, accepts, requests>>

-----------------------------------------------------------------------------
WorkerStep(w) ==
  \/ Check(w) \/ Find(w) \/ Lock(w) \/ Query(w) \/ Reply(w) \/ Insert(w)
  \/ Linked(w) \/ Unlock(w) \/ \E keep \in BOOLEAN : Finish(w, keep)

LoopStep == Select \/ Fetch \/ Copy \/ CopyLinked \/ Release

Next ==
  \/ \E w \in Workers :
       \/ WorkerStep(w)
       \/ \E c \in Conns, kind \in {"find", "check"} : Start(w, c, kind)
  \/ LoopStep
  \/ \E c \in Conns : Accept(c) \/ Page(c) \/ Leave(c)
  \/ Restart

Spec == Init /\ [][Next]_vars

\* Threads run, and queries are answered.
FairSpec == Spec /\ WF_vars(LoopStep) /\ \A w \in Workers : WF_vars(WorkerStep(w))

-----------------------------------------------------------------------------
(* Properties.                                                             *)

\* A registration the client was told of is in the table, also after the
\* server has been started again: the page is chosen by what mysql_query has
\* answered, not by what users.insert did (http_conn.cpp:412-422).
AcknowledgedIsStored ==
  \A n \in Names \ spoilt : \A i \in DOMAIN acked[n] : acked[n][i] \in StoredFor(n)

\* With a unique key at most one client is told that it has registered a
\* name, and none if the name was there at the start, though two workers may
\* both have found the name free before they took the lock (http_conn.cpp:406).
OneAcknowledged ==
  UniqueKey => \A n \in Names \ spoilt :
    Len(acked[n]) <= IF \E i \in DOMAIN Stored : Stored[i].name = n THEN 0 ELSE 1

\* Workers never have two queries under way on one handle, though several
\* http_conn may refer to it: m_lock is held from before the query until its
\* answer (http_conn.cpp:409-415).
HandlesApart ==
  \A v, w \in Workers :
    /\ v # w /\ wpc[v] = "reply" /\ wpc[w] = "reply"
    => mysql[req[v].conn] # mysql[req[w].conn]

\* With a unique key, once the map agrees with the table on a name it does so
\* as long as the server runs: neither a racing registration nor a reload
\* changes the password again (http_conn.cpp:414, 895).
SettledForGood ==
  [][UniqueKey /\ crashes' = crashes =>
       \A n \in Names \ spoilt' :
         users[n] \in StoredFor(n) => users'[n] = users[n]]_vars

\* Every request is answered: no path through do_request keeps m_lock.
RequestsEnd == \A w \in Workers : wpc[w] # "idle" ~> wpc[w] = "idle"
=============================================================================
