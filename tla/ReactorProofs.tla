--------------------------- MODULE ReactorProofs ---------------------------
(***************************************************************************)
(* Proofs about Reactor, for any clients, descriptors and workers and any  *)
(* value of the limits.                                                    *)
(***************************************************************************)
EXTENDS Reactor, FiniteSetTheorems, TLAPS

-----------------------------------------------------------------------------
(* What each kind of step leaves alone.                                    *)

\* The clients and the kernel touch neither the loop nor the workers.
LEMMA EnvironmentFrame ==
  ASSUME Environment
  PROVE  /\ UNCHANGED mainVars /\ UNCHANGED m_workqueue
         /\ UNCHANGED connVars /\ UNCHANGED workerVars
         /\ sock' = sock /\ armed' = armed
BY DEF Environment, Connect, SendSegment, ClientClose, SendBuffer,
       AlarmFires, SigTerm, kernelVars

\* The main thread does not touch the workers.
LEMMA MainFrame ==
  ASSUME Main
  PROVE  UNCHANGED workerVars /\ UNCHANGED <<fin, full, sent, inbox>>
BY DEF Main, EpollWait, AfterReport, HandleSignal, AcceptFirst, AcceptMore,
   AcceptBusy, AcceptEnd, Register, RegisterAt, InitConn, HandleHup,
   CloseConn, DelTimer, CloseFd, HandleIO, AppendRequest, EndOfBatch,
   TickExpire, CbFunc, TickEnd, clientVars

\* A worker touches neither the loop nor the kernel objects other than the
\* epoll interest.
LEMMA WorkerFrame ==
  ASSUME NEW w \in Workers, Worker(w)
  PROVE  /\ UNCHANGED mainVars
         /\ UNCHANGED <<backlog, lisEdge, sock, alarm, pipe, pipeEdge>>
         /\ UNCHANGED <<phase, fin, full, sent, m_sockfd>>
BY DEF Worker, Take, RecvNothing, RecvData, ParseMore, ParseRequest, Rearm,
   RearmFor, Respond, WriteNothing, WriteFails, WriteAgain, WriteDone,
   AfterWrite, TestLinger, Reset, InitConn, clientVars, kernelVars, connVars

-----------------------------------------------------------------------------
(* Types of the operators the actions share.                               *)

LEMMA HeadTailTypes ==
  ASSUME NEW S, NEW s \in Seq(S), s # <<>>
  PROVE  Head(s) \in S /\ Tail(s) \in Seq(S)
OBVIOUS

\* A worker that goes on in its program keeps its connection, one that goes
\* idle gives it up.
LEMMA GotoTypes ==
  ASSUME WorkerTypes, NEW w \in Workers, NEW pc \in WorkerPcs,
         wpc[w] # "idle", Goto(w, pc)
  PROVE  WorkerTypes'
<1>1. CASE pc = "idle"
  BY <1>1 DEF WorkerTypes, Goto
<1>2. CASE pc # "idle"
  BY <1>2 DEF WorkerTypes, Goto
<1>3. QED
  BY <1>1, <1>2

LEMMA ModfdTypes ==
  ASSUME TypeOK, NEW f \in Fds, NEW e \in {"IN", "OUT"}, Modfd(f, e)
  PROVE  armed' \in [Fds -> {"off", "IN", "OUT"}]
BY DEF TypeOK, KernelTypes, ConnTypes, Modfd, Live

LEMMA CloseFdTypes ==
  ASSUME TypeOK, NEW f \in Fds, CloseFd(f)
  PROVE  /\ phase' \in [Clients -> {"idle", "queued", "up", "gone"}]
         /\ rx' \in [Clients -> Nat]
         /\ sock' \in [Fds -> Clients \cup {NoClient}]
         /\ armed' \in [Fds -> {"off", "IN", "OUT"}]
         /\ UNCHANGED <<fin, full, sent, inbox>>
<1>1. phase' \in [Clients -> {"idle", "queued", "up", "gone"}]
  BY DEF TypeOK, ClientTypes, CloseFd
<1>2. rx' \in [Clients -> Nat]
  BY DEF TypeOK, ClientTypes, CloseFd
<1>3. QED
  BY <1>1, <1>2 DEF RegisterAt, InitConn, TypeOK, KernelTypes, CloseFd

\* A worker that runs holds a connection.
LEMMA WorkerHolds ==
  ASSUME TypeOK, NEW w \in Workers, wpc[w] # "idle"
  PROVE  wobj[w] \in Fds
BY DEF TypeOK, WorkerTypes

LEMMA RegisterTypes ==
  ASSUME TypeOK, CanAccept, Register
  PROVE  ClientTypes' /\ KernelTypes' /\ MainTypes' /\ ConnTypes'
<1>1. PICK f \in Fds : RegisterAt(f)
  BY DEF Register, Free
<1>2. /\ Head(backlog) \in Clients
      /\ Tail(backlog) \in Seq(Clients)
  BY HeadTailTypes DEF CanAccept, TypeOK, KernelTypes
<1>3. ClientTypes'
  BY <1>1, <1>2 DEF RegisterAt, InitConn, TypeOK, ClientTypes
<1>4. KernelTypes'
  BY <1>1, <1>2 DEF RegisterAt, InitConn, TypeOK, KernelTypes
<1>5. MainTypes'
  BY <1>1 DEF RegisterAt, InitConn, TypeOK, MainTypes
<1>6. ConnTypes'
  BY <1>1 DEF RegisterAt, InitConn, TypeOK, ConnTypes
<1>7. QED
  BY <1>3, <1>4, <1>5, <1>6

-----------------------------------------------------------------------------
(* Type correctness, one kind of step after the other.                     *)

LEMMA EnvironmentTypes ==
  ASSUME TypeOK, Environment
  PROVE  TypeOK'
<1>1. MainTypes' /\ ConnTypes' /\ WorkerTypes'
  BY EnvironmentFrame DEF TypeOK, MainTypes, ConnTypes, WorkerTypes, mainVars,
     connVars, workerVars
<1>2. ASSUME NEW c \in Clients, Connect(c)
      PROVE  ClientTypes' /\ KernelTypes'
  <2>1. ClientTypes'
    BY <1>2 DEF TypeOK, ClientTypes, Connect
  <2>2. KernelTypes'
    BY <1>2 DEF TypeOK, KernelTypes, Connect
  <2>3. QED
    BY <2>1, <2>2
<1>3. ASSUME NEW c \in Clients, SendSegment(c)
      PROVE  ClientTypes' /\ KernelTypes'
  BY <1>3 DEF TypeOK, ClientTypes, KernelTypes, SendSegment, kernelVars
<1>4. ASSUME NEW c \in Clients, ClientClose(c)
      PROVE  ClientTypes' /\ KernelTypes'
  BY <1>4 DEF TypeOK, ClientTypes, KernelTypes, ClientClose, kernelVars
<1>5. ASSUME NEW c \in Clients, SendBuffer(c)
      PROVE  ClientTypes' /\ KernelTypes'
  BY <1>5 DEF TypeOK, ClientTypes, KernelTypes, SendBuffer, kernelVars
<1>6. CASE AlarmFires \/ SigTerm
  BY <1>1, <1>6 DEF TypeOK, ClientTypes, KernelTypes, AlarmFires, SigTerm,
     clientVars
<1>7. QED
  BY <1>1, <1>2, <1>3, <1>4, <1>5, <1>6 DEF Environment, TypeOK

LEMMA HandleHupTypes ==
  ASSUME TypeOK, NEW f \in Fds, HandleHup(f)
  PROVE  ClientTypes' /\ KernelTypes' /\ MainTypes' /\ ConnTypes'
<1>1. MainTypes'
  BY DEF HandleHup, CloseConn, DelTimer, TypeOK, MainTypes, Events
<1>2. CASE m_sockfd[f] # -1
  <2>1. m_sockfd[f] \in Fds /\ CloseFd(m_sockfd[f])
    BY <1>2 DEF TypeOK, ConnTypes, HandleHup, CloseConn, DelTimer
  <2>2. ClientTypes' /\ KernelTypes'
    BY <2>1, CloseFdTypes DEF HandleHup, CloseConn, DelTimer, TypeOK,
       ClientTypes, KernelTypes
  <2>3. ConnTypes'
    BY <1>2 DEF HandleHup, CloseConn, DelTimer, TypeOK, ConnTypes
  <2>4. QED
    BY <1>1, <2>2, <2>3
<1>3. CASE m_sockfd[f] = -1
  BY <1>1, <1>3 DEF HandleHup, CloseConn, DelTimer, TypeOK, ClientTypes,
     KernelTypes, ConnTypes, clientVars
<1>4. QED
  BY <1>2, <1>3

LEMMA HandleIOTypes ==
  ASSUME TypeOK, NEW f \in Fds, NEW e \in Events,
         NEW state \in {"READ", "WRITE"}, HandleIO(f, e, state)
  PROVE  ClientTypes' /\ KernelTypes' /\ MainTypes' /\ ConnTypes'
<1>1. m_workqueue' \in Seq(Fds)
  BY DEF HandleIO, AppendRequest, TypeOK, MainTypes
<1>2. MainTypes'
  BY <1>1 DEF HandleIO, AppendRequest, TypeOK, MainTypes, Events
<1>3. ConnTypes'
  BY DEF HandleIO, AppendRequest, TypeOK, ConnTypes
<1>4. QED
  BY <1>2, <1>3 DEF HandleIO, AppendRequest, TypeOK, ClientTypes,
     KernelTypes, clientVars, kernelVars

LEMMA TickExpireTypes ==
  ASSUME TypeOK, NEW f \in Fds, TickExpire(f)
  PROVE  ClientTypes' /\ KernelTypes' /\ MainTypes' /\ ConnTypes'
<1>1. MainTypes' /\ ConnTypes'
  BY DEF TickExpire, CbFunc, TypeOK, MainTypes, ConnTypes, connVars
<1>2. CASE timer[f] = "live"
  <2>1. CloseFd(f)
    BY <1>2 DEF TickExpire, CbFunc
  <2>2. QED
    BY <1>1, <2>1, CloseFdTypes DEF TickExpire, CbFunc, TypeOK, ClientTypes,
       KernelTypes
<1>3. CASE timer[f] # "live"
  BY <1>1, <1>3 DEF TickExpire, CbFunc, TypeOK, ClientTypes, KernelTypes,
     clientVars
<1>4. QED
  BY <1>2, <1>3

LEMMA MainTypesStep ==
  ASSUME TypeOK, Main
  PROVE  TypeOK'
<1> DEFINE Goal == ClientTypes' /\ KernelTypes' /\ MainTypes' /\ ConnTypes'
<1>1. WorkerTypes'
  BY MainFrame DEF TypeOK, WorkerTypes, workerVars
<1>2. CASE EpollWait
  <2>1. \A f \in Fds : EventOf(f) \in Events
    BY DEF EventOf, Events
  <2>2. MainTypes'
    BY <1>2, <2>1 DEF EpollWait, AfterReport, TypeOK, MainTypes, KernelTypes
  <2>3. KernelTypes'
    BY <1>2 DEF EpollWait, AfterReport, TypeOK, KernelTypes
  <2>4. QED
    BY <1>1, <1>2, <2>2, <2>3 DEF EpollWait, AfterReport, TypeOK,
       ClientTypes, ConnTypes, clientVars, connVars
<1>3. CASE HandleSignal \/ AcceptEnd \/ EndOfBatch \/ TickEnd
  <2>1. MainTypes' /\ KernelTypes'
    BY <1>3 DEF HandleSignal, AcceptEnd, EndOfBatch, TickEnd, TypeOK,
       MainTypes, KernelTypes, kernelVars
  <2>2. ClientTypes' /\ ConnTypes'
    BY <1>3 DEF HandleSignal, AcceptEnd, EndOfBatch, TickEnd, TypeOK,
       ClientTypes, ConnTypes, clientVars, connVars
  <2>3. QED
    BY <1>1, <2>1, <2>2 DEF TypeOK
<1>4. CASE AcceptFirst \/ AcceptMore
  BY <1>1, <1>4, RegisterTypes DEF AcceptFirst, AcceptMore, TypeOK
<1>5. CASE AcceptBusy
  <2>1. Head(backlog) \in Clients /\ Tail(backlog) \in Seq(Clients)
    BY <1>5, HeadTailTypes DEF AcceptBusy, CanAccept, TypeOK, KernelTypes
  <2>2. ClientTypes'
    BY <1>5, <2>1 DEF AcceptBusy, TypeOK, ClientTypes
  <2>3. KernelTypes' /\ MainTypes' /\ ConnTypes'
    BY <1>5, <2>1 DEF AcceptBusy, TypeOK, KernelTypes, MainTypes, ConnTypes,
       connVars
  <2>4. QED
    BY <1>1, <2>2, <2>3 DEF TypeOK
<1>6. ASSUME NEW f \in Fds,
             HandleHup(f) \/ HandleIO(f, "IN", "READ")
               \/ HandleIO(f, "OUT", "WRITE") \/ TickExpire(f)
      PROVE  Goal
  BY <1>6, HandleHupTypes, HandleIOTypes, TickExpireTypes DEF Events
<1>7. QED
  BY <1>1, <1>2, <1>3, <1>4, <1>5, <1>6 DEF Main, TypeOK

LEMMA RecvDataTypes ==
  ASSUME TypeOK, NEW w \in Workers, RecvData(w)
  PROVE  ClientTypes' /\ ConnTypes' /\ WorkerTypes'
<1> DEFINE f == wobj[w]
           c == sock[m_sockfd[f]]
           room == BufferSize - Len(m_read_buf[f])
           n == Smaller(rx[c], room)
           piece == [i \in 1..n |-> c]
<1>1. wpc[w] = "exec" /\ f \in Fds /\ CanRead(f)
  BY WorkerHolds DEF RecvData
<1>2. WorkerTypes'
  <2>1. Goto(w, "respond") \/ Goto(w, "parse")
    BY DEF RecvData
  <2>2. QED
    BY <1>1, <2>1, GotoTypes DEF TypeOK, WorkerPcs
<1>3. c \in Clients
  <2>1. m_sockfd[f] \in Fds /\ sock[m_sockfd[f]] # NoClient
    BY <1>1 DEF CanRead, Live, TypeOK, ConnTypes
  <2>2. sock[m_sockfd[f]] \in Clients \cup {NoClient}
    BY <2>1 DEF TypeOK, KernelTypes
  <2>3. QED
    BY <2>1, <2>2
<1>4. /\ m_read_buf[f] \in Seq(Clients)
      /\ rx[c] \in Nat /\ Len(m_read_buf[f]) \in Nat
  BY <1>1, <1>3 DEF TypeOK, ClientTypes, ConnTypes
<1>5. n \in Nat /\ rx[c] - n \in Nat
  <2>1. Len(m_read_buf[f]) < BufferSize
    BY <1>1 DEF CanRead
  <2>2. room \in Nat
    BY <1>4, <2>1, ReactorAssumption
  <2>3. QED
    BY <1>4, <2>2 DEF Smaller
<1>6. m_read_buf[f] \o piece \in Seq(Clients)
  <2>1. piece \in Seq(Clients)
    BY <1>3, <1>5
  <2>2. QED
    BY <1>4, <2>1
<1>7. ClientTypes'
  BY <1>3, <1>5 DEF RecvData, TypeOK, ClientTypes
<1>8. ConnTypes'
  BY <1>1, <1>6 DEF RecvData, TypeOK, ConnTypes
<1>9. QED
  BY <1>2, <1>7, <1>8

LEMMA ParseTypes ==
  ASSUME TypeOK, NEW w \in Workers, ParseMore(w) \/ ParseRequest(w)
  PROVE  ConnTypes' /\ WorkerTypes'
<1> DEFINE f == wobj[w]
           next == m_checked_index[f] + 1
           c == m_read_buf[f][next]
<1>1. wpc[w] = "parse" /\ f \in Fds
  BY WorkerHolds DEF ParseMore, ParseRequest
<1>2. WorkerTypes'
  BY <1>1, GotoTypes DEF ParseMore, ParseRequest, TypeOK, WorkerPcs
<1>3. CASE ParseMore(w)
  BY <1>2, <1>3 DEF ParseMore, TypeOK, ConnTypes
<1>4. CASE ParseRequest(w)
  <2>1. m_checked_index[f] \in Nat /\ m_read_buf[f] \in Seq(Clients)
    BY <1>1 DEF TypeOK, ConnTypes
  <2>2. next \in 1..Len(m_read_buf[f])
    BY <1>4, <2>1, ReactorAssumption DEF ParseRequest, Complete
  <2>3. c \in Clients
    BY <2>1, <2>2
  <2>4. m_read_ret' \in [Fds -> Verdicts \cup {"NO_REQUEST"}]
    BY <1>4, ReactorAssumption DEF ParseRequest, TypeOK, ConnTypes
  <2>5. m_checked_index' \in [Fds -> Nat]
    <3>1. m_checked_index[f] + Segments \in Nat
      BY <2>1, ReactorAssumption
    <3>2. QED
      BY <1>4, <3>1 DEF ParseRequest, TypeOK, ConnTypes
  <2>6. m_linger' \in [Fds -> BOOLEAN]
    <3> DEFINE keep == c \in KeepAlive
    <3>1. m_linger' = [m_linger EXCEPT ![f] = keep]
      BY <1>4 DEF ParseRequest
    <3>2. keep \in BOOLEAN
      OBVIOUS
    <3> HIDE DEF keep
    <3>3. QED
      BY <3>1, <3>2 DEF TypeOK, ConnTypes
  <2>7. answer' \in [Fds -> Clients \cup {NoClient}]
    BY <1>4, <2>3 DEF ParseRequest, TypeOK, ConnTypes
  <2>8. QED
    BY <1>2, <1>4, <2>4, <2>5, <2>6, <2>7 DEF ParseRequest, TypeOK, ConnTypes
<1>5. QED
  BY <1>3, <1>4

\* The steps that only call modfd.
LEMMA RearmTypes ==
  ASSUME TypeOK, NEW w \in Workers,
         Rearm(w) \/ WriteNothing(w) \/ AfterWrite(w)
  PROVE  /\ armed' \in [Fds -> {"off", "IN", "OUT"}]
         /\ ConnTypes' /\ WorkerTypes' /\ UNCHANGED clientVars
<1> DEFINE f == wobj[w]
<1>1. /\ wpc[w] # "idle"
      /\ Goto(w, "idle") \/ Goto(w, "reset") \/ Goto(w, "linger")
      /\ armed' = armed \/ Modfd(f, "IN") \/ Modfd(f, "OUT")
      /\ UNCHANGED connVars /\ UNCHANGED clientVars
  BY DEF Rearm, RearmFor, WriteNothing, AfterWrite
<1>2. WorkerTypes'
  BY <1>1, GotoTypes DEF TypeOK, WorkerPcs
<1>3. armed' \in [Fds -> {"off", "IN", "OUT"}]
  <2>1. CASE armed' = armed
    BY <2>1 DEF TypeOK, KernelTypes
  <2>2. CASE Modfd(f, "IN") \/ Modfd(f, "OUT")
    BY <1>1, <2>2, WorkerHolds, ModfdTypes
  <2>3. QED
    BY <1>1, <2>1, <2>2
<1>4. QED
  BY <1>1, <1>2, <1>3 DEF TypeOK, ConnTypes, connVars

\* The steps that write a response or prepare one.
LEMMA RespondTypes ==
  ASSUME TypeOK, NEW w \in Workers,
         Respond(w) \/ WriteFails(w) \/ WriteDone(w) \/ Reset(w)
  PROVE  ClientTypes' /\ ConnTypes' /\ WorkerTypes'
<1> DEFINE f == wobj[w]
<1>1. wpc[w] # "idle" /\ f \in Fds
  BY WorkerHolds DEF Respond, WriteFails, WriteDone, Reset, InitConn
<1>2. WorkerTypes'
  <2>1. Goto(w, "write") \/ Goto(w, "idle") \/ Goto(w, "done")
    BY DEF Respond, WriteFails, WriteDone, Reset, InitConn
  <2>2. QED
    BY <1>1, <2>1, GotoTypes DEF TypeOK, WorkerPcs
<1>3. CASE Respond(w)
  BY <1>1, <1>2, <1>3 DEF Respond, TypeOK, ClientTypes, ConnTypes, clientVars
<1>4. CASE WriteFails(w)
  BY <1>1, <1>2, <1>4 DEF WriteFails, TypeOK, ClientTypes, ConnTypes,
     clientVars
<1>5. CASE WriteDone(w)
  <2>1. answer[f] \in Clients \cup {NoClient}
    BY <1>1 DEF TypeOK, ConnTypes
  <2>2. inbox' \in [Clients -> Seq(Clients \cup {NoClient})]
    <3>1. \A c \in Clients :
            Append(inbox[c], answer[f]) \in Seq(Clients \cup {NoClient})
      BY <2>1 DEF TypeOK, ClientTypes
    <3>2. PICK c : inbox' = [inbox EXCEPT ![c] = Append(@, answer[f])]
      BY <1>5 DEF WriteDone
    <3>3. QED
      BY <3>1, <3>2 DEF TypeOK, ClientTypes
  <2>3. ConnTypes'
    BY <1>1, <1>5 DEF WriteDone, TypeOK, ConnTypes
  <2>4. QED
    BY <1>2, <1>5, <2>2, <2>3 DEF WriteDone, TypeOK, ClientTypes
<1>6. CASE Reset(w)
  BY <1>1, <1>2, <1>6 DEF Reset, InitConn, TypeOK, ClientTypes, ConnTypes,
     clientVars
<1>7. QED
  BY <1>3, <1>4, <1>5, <1>6

LEMMA WorkerTypesStep ==
  ASSUME TypeOK, NEW w \in Workers, Worker(w)
  PROVE  TypeOK'
<1>1. /\ m_workqueue' \in Seq(Fds)
      /\ ClientTypes' /\ ConnTypes' /\ WorkerTypes'
      /\ armed' \in [Fds -> {"off", "IN", "OUT"}]
  <2>1. CASE Take(w)
    <3>1. Head(m_workqueue) \in Fds /\ Tail(m_workqueue) \in Seq(Fds)
      BY <2>1, HeadTailTypes DEF Take, TypeOK, MainTypes
    <3>2. WorkerTypes'
      BY <2>1, <3>1, ReactorAssumption DEF Take, TypeOK, WorkerTypes,
         WorkerPcs
    <3>3. QED
      BY <2>1, <3>1, <3>2 DEF Take, TypeOK, ClientTypes, KernelTypes,
         ConnTypes, clientVars, kernelVars, connVars
  <2>2. CASE RecvData(w)
    BY <2>2, RecvDataTypes DEF RecvData, TypeOK, KernelTypes, MainTypes,
       kernelVars
  <2>3. CASE ParseMore(w) \/ ParseRequest(w)
    <3>1. UNCHANGED clientVars /\ UNCHANGED kernelVars
          /\ UNCHANGED m_workqueue
      BY <2>3 DEF ParseMore, ParseRequest
    <3>2. QED
      BY <2>3, <3>1, ParseTypes DEF TypeOK, ClientTypes, KernelTypes,
         MainTypes, clientVars, kernelVars
  <2>4. CASE Rearm(w) \/ WriteNothing(w) \/ AfterWrite(w)
    <3>1. m_workqueue' = m_workqueue
      BY <2>4 DEF Rearm, RearmFor, WriteNothing, AfterWrite
    <3>2. QED
      BY <2>4, <3>1, RearmTypes DEF TypeOK, ClientTypes, MainTypes,
         clientVars
  <2>5. CASE Respond(w) \/ WriteFails(w) \/ WriteDone(w) \/ Reset(w)
    <3>1. m_workqueue' = m_workqueue /\ armed' = armed
      BY <2>5 DEF Respond, WriteFails, WriteDone, Reset, InitConn, kernelVars
    <3>2. QED
      BY <2>5, <3>1, RespondTypes DEF TypeOK, KernelTypes, MainTypes
  <2>6. CASE RecvNothing(w) \/ WriteAgain(w) \/ TestLinger(w)
    <3>1. WorkerTypes'
      BY <2>6, GotoTypes DEF RecvNothing, WriteAgain, TestLinger, TypeOK,
         WorkerPcs
    <3>2. /\ UNCHANGED clientVars /\ UNCHANGED kernelVars
          /\ UNCHANGED m_workqueue /\ UNCHANGED connVars
      BY <2>6 DEF RecvNothing, WriteAgain, TestLinger
    <3>3. QED
      BY <3>1, <3>2 DEF TypeOK, ClientTypes, KernelTypes, MainTypes,
         ConnTypes, clientVars, kernelVars, connVars
  <2>7. QED
    BY <2>1, <2>2, <2>3, <2>4, <2>5, <2>6 DEF Worker
<1>2. KernelTypes' /\ MainTypes'
  BY <1>1, WorkerFrame DEF TypeOK, KernelTypes, MainTypes, mainVars
<1>3. QED
  BY <1>1, <1>2 DEF TypeOK

LEMMA InitTypes == Init => TypeOK
<1> SUFFICES ASSUME Init PROVE TypeOK
  OBVIOUS
<1>1. ClientTypes
  BY DEF Init, ClientTypes
<1>2. KernelTypes
  <2>1. backlog \in Seq(Clients)
    BY DEF Init
  <2>2. QED
    BY <2>1 DEF Init, KernelTypes
<1>3. MainTypes
  <2>1. m_workqueue \in Seq(Fds)
    BY DEF Init
  <2>2. ev \in [Fds -> Events]
    BY DEF Init, Events
  <2>3. timer \in [Fds -> {"none", "live", "nulled", "freed"}]
    BY DEF Init
  <2>4. /\ mpc = "wait" /\ evListen = FALSE /\ evSignal = FALSE
        /\ timeout = FALSE /\ m_user_count = 0
    BY DEF Init
  <2>5. mpc \in {"wait", "dispatch", "accept", "tick"} /\ m_user_count \in Int
    BY <2>4
  <2>6. evListen \in BOOLEAN /\ evSignal \in BOOLEAN /\ timeout \in BOOLEAN
    BY <2>4
  <2>7. QED
    BY <2>1, <2>2, <2>3, <2>5, <2>6, Zenon DEF MainTypes
<1>4. ConnTypes
  BY DEF Init, ConnTypes
<1>5. WorkerTypes
  BY DEF Init, WorkerTypes, WorkerPcs
<1>6. QED
  BY <1>1, <1>2, <1>3, <1>4, <1>5 DEF TypeOK

LEMMA StepTypes == TypeOK /\ [Next]_vars => TypeOK'
<1> SUFFICES ASSUME TypeOK, [Next]_vars PROVE TypeOK'
  OBVIOUS
<1>1. CASE UNCHANGED vars
  BY <1>1 DEF vars, clientVars, kernelVars, mainVars, connVars, workerVars,
     TypeOK, ClientTypes, KernelTypes, MainTypes, ConnTypes, WorkerTypes
<1>2. QED
  BY <1>1, EnvironmentTypes, MainTypesStep, WorkerTypesStep DEF Next

\* Every variable keeps its type, a worker is idle exactly when it holds no
\* http_conn, and no index of m_read_buf goes negative (http_conn.h,
\* threadpool.h 183-199).
THEOREM TypeCorrect == Spec => []TypeOK
BY InitTypes, StepTypes, PTL DEF Spec

-----------------------------------------------------------------------------
(* Connections, their descriptors and their timers.                        *)

\* users[f] stands for descriptor f or for none, and for f if f is open.
OwnDescriptor ==
  \A f \in Fds : /\ m_sockfd[f] \in {f, -1}
                 /\ sock[f] # NoClient => m_sockfd[f] = f

\* The loop waits and ticks with no event left to handle.
BatchOver ==
  mpc \in {"wait", "tick"} =>
    ~evListen /\ ~evSignal /\ \A f \in Fds : ev[f] = "NONE"

ConnInv == TimerOwnsSocket /\ OwnDescriptor /\ BatchIsFresh /\ BatchOver

LEMMA ConnFrame ==
  ASSUME ConnInv, UNCHANGED mainVars, UNCHANGED <<sock, m_sockfd>>
  PROVE  ConnInv'
BY DEF ConnInv, TimerOwnsSocket, OwnDescriptor, BatchIsFresh, BatchOver,
       mainVars

\* Closing a descriptor together with its live timer and its event.
LEMMA ConnClose ==
  ASSUME TypeOK, ConnInv, NEW f \in Fds, CloseFd(f),
         timer' \in [Fds -> {"none", "live", "nulled", "freed"}],
         timer'[f] # "live", \A g \in Fds \ {f} : timer'[g] = timer[g],
         ev' \in [Fds -> Events],
         ev'[f] = "NONE", \A g \in Fds \ {f} : ev'[g] = ev[g],
         \A g \in Fds \ {f} : m_sockfd'[g] = m_sockfd[g],
         m_sockfd'[f] \in {m_sockfd[f], -1}
  PROVE  TimerOwnsSocket' /\ OwnDescriptor' /\ BatchIsFresh'
<1>1. sock'[f] = NoClient /\ \A g \in Fds \ {f} : sock'[g] = sock[g]
  BY DEF CloseFd, TypeOK, KernelTypes
<1>2. TimerOwnsSocket'
  BY <1>1 DEF ConnInv, TimerOwnsSocket
<1>3. OwnDescriptor'
  BY <1>1 DEF ConnInv, OwnDescriptor
<1>4. BatchIsFresh'
  BY <1>1 DEF ConnInv, BatchIsFresh
<1>5. QED
  BY <1>2, <1>3, <1>4

LEMMA ConnMain ==
  ASSUME TypeOK, ConnInv, Main
  PROVE  ConnInv'
<1> USE DEF TypeOK, MainTypes
<1>1. CASE EpollWait
  <2>1. \A f \in Fds : EventOf(f) # "NONE" => sock[f] # NoClient
    BY DEF EventOf
  <2>2. UNCHANGED <<timer, sock, m_sockfd>> /\ mpc' = "dispatch"
    BY <1>1 DEF EpollWait, AfterReport, connVars
  <2>3. \A f \in Fds : ev'[f] = EventOf(f)
    BY <1>1 DEF EpollWait, AfterReport
  <2>4. QED
    BY <2>1, <2>2, <2>3 DEF ConnInv, TimerOwnsSocket, OwnDescriptor,
       BatchIsFresh, BatchOver
<1>2. CASE HandleSignal \/ AcceptEnd \/ EndOfBatch \/ AcceptBusy \/ TickEnd
  <2>1. UNCHANGED <<ev, timer, sock, m_sockfd>>
    BY <1>2 DEF HandleSignal, AcceptEnd, EndOfBatch, AcceptBusy, TickEnd,
       kernelVars, connVars
  <2>2. BatchOver'
    BY <1>2, <2>1 DEF HandleSignal, AcceptEnd, EndOfBatch, AcceptBusy,
       TickEnd, ConnInv, BatchOver
  <2>3. QED
    BY <2>1, <2>2 DEF ConnInv, TimerOwnsSocket, OwnDescriptor, BatchIsFresh
<1>3. CASE AcceptFirst \/ AcceptMore
  <2>1. PICK f \in Fds : RegisterAt(f)
    BY <1>3 DEF AcceptFirst, AcceptMore, Register, Free
  <2>2. Head(backlog) \in Clients /\ CanAccept
    BY <1>3, HeadTailTypes DEF AcceptFirst, AcceptMore, CanAccept,
       KernelTypes
  <2>3. /\ sock' = [sock EXCEPT ![f] = Head(backlog)]
        /\ timer' = [timer EXCEPT ![f] = "live"]
        /\ m_sockfd' = [m_sockfd EXCEPT ![f] = f]
        /\ ev' = ev /\ mpc' = "accept"
    BY <2>1 DEF RegisterAt, InitConn
  <2>4. Head(backlog) # NoClient
    BY <2>2, ReactorAssumption
  <2>5. QED
    BY <2>3, <2>4 DEF ConnInv, TimerOwnsSocket, OwnDescriptor, BatchIsFresh,
       BatchOver, KernelTypes, ConnTypes
<1>4. ASSUME NEW f \in Fds, HandleHup(f)
      PROVE  ConnInv'
  <2>1. m_sockfd[f] = f
    BY <1>4 DEF HandleHup, CloseConn, DelTimer, ConnInv, BatchIsFresh
  <2>2. /\ CloseFd(f) /\ mpc = "dispatch" /\ mpc' = mpc
        /\ ev' = [ev EXCEPT ![f] = "NONE"]
        /\ timer' = [timer EXCEPT ![f] = IF @ = "live" THEN "nulled" ELSE @]
        /\ m_sockfd' = [m_sockfd EXCEPT ![f] = -1]
    BY <1>4, <2>1, ReactorAssumption DEF HandleHup, CloseConn, DelTimer
  <2>3. TimerOwnsSocket' /\ OwnDescriptor' /\ BatchIsFresh'
    BY <2>2, ConnClose DEF Events, ConnTypes
  <2>4. QED
    BY <2>2, <2>3 DEF ConnInv, BatchOver
<1>5. ASSUME NEW f \in Fds,
             HandleIO(f, "IN", "READ") \/ HandleIO(f, "OUT", "WRITE")
      PROVE  ConnInv'
  <2>1. /\ ev' = [ev EXCEPT ![f] = "NONE"] /\ mpc' = mpc /\ mpc = "dispatch"
        /\ UNCHANGED <<timer, sock, m_sockfd>>
    BY <1>5 DEF HandleIO, AppendRequest, kernelVars
  <2>2. QED
    BY <2>1 DEF ConnInv, TimerOwnsSocket, OwnDescriptor, BatchIsFresh,
       BatchOver
<1>6. ASSUME NEW f \in Fds, TickExpire(f)
      PROVE  ConnInv'
  <2>1. /\ mpc = "tick" /\ mpc' = mpc /\ UNCHANGED <<ev, m_sockfd>>
        /\ UNCHANGED <<evListen, evSignal>>
        /\ timer' = [timer EXCEPT ![f] = "freed"]
    BY <1>6 DEF TickExpire, CbFunc, connVars
  <2>2. BatchOver' /\ ev[f] = "NONE"
    BY <2>1 DEF ConnInv, BatchOver
  <2>3. CASE timer[f] = "live"
    <3>1. CloseFd(f)
      BY <1>6, <2>3 DEF TickExpire, CbFunc
    <3>2. QED
      BY <2>1, <2>2, <3>1, ConnClose DEF ConnInv, ConnTypes
  <2>4. CASE timer[f] # "live"
    <3>1. sock' = sock
      BY <1>6, <2>4 DEF TickExpire, CbFunc
    <3>2. QED
      BY <2>1, <2>2, <2>4, <3>1 DEF ConnInv, TimerOwnsSocket, OwnDescriptor,
         BatchIsFresh
  <2>5. QED
    BY <2>3, <2>4
<1>7. QED
  BY <1>1, <1>2, <1>3, <1>4, <1>5, <1>6 DEF Main

LEMMA ConnStart == Init => ConnInv
BY DEF Init, ConnInv, TimerOwnsSocket, OwnDescriptor, BatchIsFresh, BatchOver

LEMMA StepConn == TypeOK /\ ConnInv /\ [Next]_vars => ConnInv'
<1> SUFFICES ASSUME TypeOK, ConnInv, [Next]_vars PROVE ConnInv'
  OBVIOUS
<1>1. CASE UNCHANGED vars
  BY <1>1, ConnFrame DEF vars, kernelVars, connVars
<1>2. CASE Environment
  BY <1>2, EnvironmentFrame, ConnFrame DEF connVars
<1>3. ASSUME NEW w \in Workers, Worker(w)
      PROVE  ConnInv'
  BY <1>3, WorkerFrame, ConnFrame
<1>4. QED
  BY <1>1, <1>2, <1>3, ConnMain DEF Next

LEMMA ConnInvariant == Spec => []ConnInv
<1>1. TypeOK /\ ConnInv /\ [Next]_vars => ConnInv'
  BY StepConn
<1>2. QED
  BY <1>1, ConnStart, TypeCorrect, PTL DEF Spec

\* A connection is open exactly as long as a timer stands ready to close it:
\* none is left without one and cb_func never closes a foreign descriptor
\* (webserverhttp.cpp 33-39, 263-294).
THEOREM TimersOwnSockets == Spec => []TimerOwnsSocket
<1>1. ConnInv => TimerOwnsSocket
  BY DEF ConnInv
<1>2. QED
  BY <1>1, ConnInvariant, PTL

\* No handler runs on a descriptor that was closed earlier in the same batch
\* of events (webserverhttp.cpp 231-355).
THEOREM BatchesAreFresh == Spec => []BatchIsFresh
<1>1. ConnInv => BatchIsFresh
  BY DEF ConnInv
<1>2. QED
  BY <1>1, ConnInvariant, PTL

-----------------------------------------------------------------------------
(* The chain of ticks.                                                     *)

\* A byte in the pipe is about to be reported or is in the batch, and the
\* loop never goes back to epoll_wait owing a tick.
TickInv ==
  /\ TickChain
  /\ pipe # {} => pipeEdge \/ evSignal
  /\ timeout => mpc # "wait"

LEMMA StepTick == TypeOK /\ ConnInv /\ TickInv /\ [Next]_vars => TickInv'
<1> SUFFICES ASSUME TypeOK, ConnInv, TickInv, [Next]_vars PROVE TickInv'
  OBVIOUS
<1> USE DEF TickInv, TickChain
<1>1. CASE UNCHANGED vars
  BY <1>1 DEF vars, kernelVars, mainVars
<1>2. CASE Environment
  <2>1. CASE AlarmFires \/ SigTerm
    BY <2>1 DEF AlarmFires, SigTerm, mainVars
  <2>2. ASSUME NEW c \in Clients,
               Connect(c) \/ SendSegment(c) \/ ClientClose(c) \/ SendBuffer(c)
        PROVE  TickInv'
    BY <2>2 DEF Connect, SendSegment, ClientClose, SendBuffer, kernelVars,
       mainVars
  <2>3. QED
    BY <1>2, <2>1, <2>2 DEF Environment
<1>3. ASSUME NEW w \in Workers, Worker(w)
      PROVE  TickInv'
  BY <1>3, WorkerFrame DEF mainVars
<1>4. CASE EpollWait \/ HandleSignal
  <2>1. CASE EpollWait
    <3>1. evSignal' <=> pipeEdge
      BY <2>1, Zenon DEF EpollWait, AfterReport
    <3>2. QED
      BY <2>1, <3>1 DEF EpollWait, AfterReport, ConnInv, BatchOver
  <2>2. CASE HandleSignal
    <3>1. timeout' <=> timeout \/ "ALRM" \in pipe
      BY <2>2, Zenon DEF HandleSignal
    <3>2. QED
      BY <2>2, <3>1 DEF HandleSignal
  <2>3. QED
    BY <1>4, <2>1, <2>2
<1>5. CASE EndOfBatch \/ TickEnd \/ AcceptEnd \/ AcceptBusy
  BY <1>5 DEF EndOfBatch, TickEnd, AcceptEnd, AcceptBusy, kernelVars
<1>6. CASE AcceptFirst \/ AcceptMore
  BY <1>6 DEF AcceptFirst, AcceptMore, Register, RegisterAt, InitConn
<1>7. ASSUME NEW f \in Fds,
             HandleHup(f) \/ HandleIO(f, "IN", "READ")
               \/ HandleIO(f, "OUT", "WRITE") \/ TickExpire(f)
      PROVE  TickInv'
  BY <1>7 DEF HandleHup, CloseConn, DelTimer, HandleIO, AppendRequest,
     TickExpire, CbFunc, kernelVars
<1>8. QED
  BY <1>1, <1>2, <1>3, <1>4, <1>5, <1>6, <1>7 DEF Next, Main

\* The chain of ticks never breaks: an alarm is pending, its byte is on the
\* way to the loop, or the loop owes a tick (webserverhttp.cpp 42-100,
\* 356-359).
THEOREM TicksGoOn == Spec => []TickChain
<1>1. Init => TickInv
  BY DEF Init, TickInv, TickChain
<1>2. TypeOK /\ ConnInv /\ TickInv /\ [Next]_vars => TickInv'
  BY StepTick
<1>3. TickInv => TickChain
  BY DEF TickInv
<1>4. QED
  BY <1>1, <1>2, <1>3, TypeCorrect, ConnInvariant, PTL DEF Spec

-----------------------------------------------------------------------------
(* The connection counter.                                                 *)

LEMMA OpenIsFinite == IsFiniteSet(Open) /\ Cardinality(Open) \in Nat
<1>1. Open \subseteq Fds
  BY DEF Open
<1>2. QED
  BY <1>1, ReactorAssumption, FS_Subset, FS_CardinalityType

LEMMA OpenOne ==
  ASSUME TypeOK, UserCount, NEW f \in Fds, f \notin Open,
         NEW c \in Clients, sock' = [sock EXCEPT ![f] = c],
         m_user_count' = m_user_count + 1
  PROVE  UserCount'
<1>1. Open' = Open \cup {f}
  BY ReactorAssumption DEF Open, TypeOK, KernelTypes
<1>2. Cardinality(Open \cup {f}) = Cardinality(Open) + 1
  BY OpenIsFinite, FS_AddElement
<1>3. QED
  BY <1>1, <1>2 DEF UserCount

LEMMA CloseOne ==
  ASSUME TypeOK, UserCount, NEW f \in Open, CloseFd(f),
         m_user_count' = m_user_count - 1
  PROVE  UserCount'
<1>1. Open' = Open \ {f}
  BY DEF Open, CloseFd, TypeOK, KernelTypes
<1>2. Cardinality(Open \ {f}) = Cardinality(Open) - 1
  BY OpenIsFinite, FS_RemoveElement
<1>3. QED
  BY <1>1, <1>2 DEF UserCount

LEMMA StepCount == TypeOK /\ ConnInv /\ UserCount /\ [Next]_vars => UserCount'
<1> SUFFICES ASSUME TypeOK, ConnInv, UserCount, [Next]_vars PROVE UserCount'
  OBVIOUS
<1>1. ASSUME sock' = sock, m_user_count' = m_user_count
      PROVE  UserCount'
  BY <1>1 DEF UserCount, Open
<1>2. CASE UNCHANGED vars
  BY <1>1, <1>2 DEF vars, kernelVars, mainVars
<1>3. CASE Environment
  BY <1>1, <1>3, EnvironmentFrame DEF mainVars
<1>4. ASSUME NEW w \in Workers, Worker(w)
      PROVE  UserCount'
  BY <1>1, <1>4, WorkerFrame DEF mainVars
<1>5. CASE EpollWait \/ HandleSignal \/ EndOfBatch \/ TickEnd \/ AcceptEnd
             \/ AcceptBusy
  BY <1>1, <1>5 DEF EpollWait, AfterReport, HandleSignal, EndOfBatch,
     TickEnd, AcceptEnd, AcceptBusy, kernelVars
<1>6. CASE AcceptFirst \/ AcceptMore
  <2>1. CanAccept /\ \E f \in Free : RegisterAt(f)
    BY <1>6 DEF AcceptFirst, AcceptMore, Register
  <2>2. PICK f \in Fds : f \notin Open /\ RegisterAt(f)
    BY <2>1 DEF Free
  <2>3. Head(backlog) \in Clients
    BY <2>1, HeadTailTypes DEF CanAccept, TypeOK, KernelTypes
  <2>4. QED
    BY <2>2, <2>3, OpenOne DEF RegisterAt, InitConn
<1>7. ASSUME NEW f \in Fds, HandleHup(f)
      PROVE  UserCount'
  <2>1. m_sockfd[f] = f /\ f \in Open
    BY <1>7 DEF HandleHup, CloseConn, DelTimer, ConnInv, BatchIsFresh, Open
  <2>2. CloseFd(f) /\ m_user_count' = m_user_count - 1
    BY <1>7, <2>1, ReactorAssumption DEF HandleHup, CloseConn, DelTimer
  <2>3. QED
    BY <2>1, <2>2, CloseOne
<1>8. ASSUME NEW f \in Fds,
             HandleIO(f, "IN", "READ") \/ HandleIO(f, "OUT", "WRITE")
      PROVE  UserCount'
  BY <1>1, <1>8 DEF HandleIO, AppendRequest, kernelVars
<1>9. ASSUME NEW f \in Fds, TickExpire(f)
      PROVE  UserCount'
  <2>1. CASE timer[f] = "live"
    <3>1. f \in Open
      BY <2>1 DEF ConnInv, TimerOwnsSocket, Open
    <3>2. QED
      BY <1>9, <2>1, <3>1, CloseOne DEF TickExpire, CbFunc
  <2>2. CASE timer[f] # "live"
    BY <1>1, <1>9, <2>2 DEF TickExpire, CbFunc
  <2>3. QED
    BY <2>1, <2>2
<1>10. QED
  BY <1>2, <1>3, <1>4, <1>5, <1>6, <1>7, <1>8, <1>9 DEF Next, Main

\* m_user_count, raised by http_conn::init and lowered by cb_func and by
\* close_conn, is the number of open connections (http_conn.cpp 83, 128;
\* webserverhttp.cpp 38).
THEOREM CountsUsers == Spec => []UserCount
<1>1. Init => UserCount
  <2>1. Init => Open = {}
    BY DEF Init, Open
  <2>2. QED
    BY <2>1, FS_EmptySet DEF Init, UserCount
<1>2. TypeOK /\ ConnInv /\ UserCount /\ [Next]_vars => UserCount'
  BY StepCount
<1>3. QED
  BY <1>1, <1>2, TypeCorrect, ConnInvariant, PTL DEF Spec

-----------------------------------------------------------------------------
(* Exclusive ownership of a connection, when no client asks for keep-alive *)
(* and no timer expires under a worker.                                    *)

\* Where a connection may be claimed, pairwise exclusive, and nowhere once it
\* is closed.
ExclInv ==
  /\ \A f \in Fds : armed[f] # "off" => ev[f] = "NONE" /\ ~Queued(f)
  /\ \A f \in Fds : ev[f] # "NONE" => ~Queued(f)
  /\ \A w \in Workers, f \in Fds :
       Owns(w, f) => armed[f] = "off" /\ ev[f] = "NONE" /\ ~Queued(f)
  /\ \A v, w \in Workers, f \in Fds : Owns(v, f) /\ Owns(w, f) => v = w
  /\ \A i, j \in 1..Len(m_workqueue) : m_workqueue[i] = m_workqueue[j] => i = j
  /\ \A f \in Fds : sock[f] = NoClient =>
       armed[f] = "off" /\ ~Queued(f) /\ \A w \in Workers : ~Owns(w, f)

\* Without keep-alive no worker runs init().
PlainInv ==
  /\ \A f \in Fds : ~m_linger[f]
  /\ \A w \in Workers : wpc[w] # "reset"
  /\ \A w \in Workers :
       wpc[w] \in {"write", "again"} => bytes_to_send[wobj[w]] = 1

LEMMA QueueAppend ==
  ASSUME TypeOK, ExclInv, NEW f \in Fds, ~Queued(f),
         m_workqueue' = Append(m_workqueue, f)
  PROVE  /\ \A g \in Fds : Queued(g)' <=> (Queued(g) \/ g = f)
         /\ \A i, j \in 1..Len(m_workqueue') :
              m_workqueue'[i] = m_workqueue'[j] => i = j
BY DEF TypeOK, MainTypes, ExclInv, Queued

LEMMA QueueTail ==
  ASSUME TypeOK, ExclInv, m_workqueue # <<>>,
         m_workqueue' = Tail(m_workqueue)
  PROVE  /\ Head(m_workqueue) \in Fds /\ Queued(Head(m_workqueue))
         /\ \A g \in Fds :
              Queued(g)' <=> (Queued(g) /\ g # Head(m_workqueue))
         /\ \A i, j \in 1..Len(m_workqueue') :
              m_workqueue'[i] = m_workqueue'[j] => i = j
<1> DEFINE n == Len(m_workqueue)
           q == m_workqueue
<1>1. q \in Seq(Fds) /\ n \in Nat \ {0} /\ Head(q) = q[1]
  BY DEF TypeOK, MainTypes
<1>2. /\ Len(m_workqueue') = n - 1
      /\ \A i \in 1..(n - 1) : m_workqueue'[i] = q[i + 1]
  BY <1>1
<1>3. \A i, j \in 1..n : q[i] = q[j] => i = j
  BY DEF ExclInv
<1>4. \A i, j \in 1..(n - 1) : m_workqueue'[i] = m_workqueue'[j] => i = j
  BY <1>1, <1>2, <1>3
<1>5. Head(q) \in Fds /\ Queued(Head(q))
  BY <1>1 DEF Queued
<1>6. ASSUME NEW g \in Fds
      PROVE  Queued(g)' <=> (Queued(g) /\ g # Head(q))
  <2>1. Queued(g)' <=> \E i \in 1..(n - 1) : q[i + 1] = g
    BY <1>2 DEF Queued
  <2>2. (\E i \in 1..(n - 1) : q[i + 1] = g) <=> \E k \in 2..n : q[k] = g
    <3>1. \A k \in 2..n : k - 1 \in 1..(n - 1) /\ (k - 1) + 1 = k
      BY <1>1
    <3>2. \A i \in 1..(n - 1) : i + 1 \in 2..n
      BY <1>1
    <3>3. QED
      BY <3>1, <3>2
  <2>3. (\E k \in 2..n : q[k] = g) <=> (Queued(g) /\ g # q[1])
    BY <1>1, <1>3 DEF Queued
  <2>4. QED
    BY <1>1, <2>1, <2>2, <2>3
<1>7. QED
  BY <1>2, <1>4, <1>5, <1>6

LEMMA ExclFrame ==
  ASSUME ExclInv, UNCHANGED <<armed, ev, m_workqueue, sock>>,
         \A w \in Workers, f \in Fds : Owns(w, f)' => Owns(w, f)
  PROVE  ExclInv'
BY DEF ExclInv, Queued

\* Closing a connection that nobody but the closer has a claim to.
LEMMA ExclClose ==
  ASSUME TypeOK, ExclInv, NEW f \in Fds, CloseFd(f), ~Queued(f),
         \A w \in Workers : ~Owns(w, f),
         UNCHANGED <<m_workqueue, wobj, wpc>>,
         \A g \in Fds : ev'[g] \in {"NONE", ev[g]}
  PROVE  ExclInv'
<1>1. /\ sock'[f] = NoClient /\ \A g \in Fds \ {f} : sock'[g] = sock[g]
      /\ armed'[f] = "off" /\ \A g \in Fds \ {f} : armed'[g] = armed[g]
  BY DEF CloseFd, TypeOK, KernelTypes
<1>2. \A w \in Workers, g \in Fds : Owns(w, g)' <=> Owns(w, g)
  BY DEF Owns
<1>3. \A g \in Fds : Queued(g)' <=> Queued(g)
  BY DEF Queued
<1>4. QED
  BY <1>1, <1>2, <1>3 DEF ExclInv

LEMMA ExclMain ==
  ASSUME ~Overrun, TypeOK, ConnInv, ExclInv, Main
  PROVE  ExclInv'
<1>1. UNCHANGED <<wobj, wpc>>
  BY MainFrame DEF workerVars
<1>2. \A w \in Workers, f \in Fds : Owns(w, f)' <=> Owns(w, f)
  BY <1>1 DEF Owns
<1>3. ASSUME m_workqueue' = m_workqueue
      PROVE  \A f \in Fds : Queued(f)' <=> Queued(f)
  BY <1>3 DEF Queued
<1>4. CASE EpollWait
  <2>1. \A f \in Fds : ev[f] = "NONE"
    BY <1>4 DEF EpollWait, AfterReport, ConnInv, BatchOver
  <2>2. \A f \in Fds : EventOf(f) # "NONE" => armed[f] # "off"
    BY DEF EventOf
  <2>3. \A f \in Fds :
          /\ ev'[f] = EventOf(f)
          /\ armed'[f] = IF EventOf(f) = "NONE" THEN armed[f] ELSE "off"
    BY <1>4 DEF EpollWait, AfterReport
  <2>4. sock' = sock /\ m_workqueue' = m_workqueue
    BY <1>4 DEF EpollWait, AfterReport
  <2>5. QED
    BY <1>2, <1>3, <2>1, <2>2, <2>3, <2>4 DEF ExclInv
<1>5. CASE HandleSignal \/ AcceptEnd \/ EndOfBatch \/ AcceptBusy \/ TickEnd
  <2>1. UNCHANGED <<armed, ev, m_workqueue, sock>>
    BY <1>5 DEF HandleSignal, AcceptEnd, EndOfBatch, AcceptBusy, TickEnd,
       kernelVars
  <2>2. QED
    BY <1>2, <2>1, ExclFrame
<1>6. CASE AcceptFirst \/ AcceptMore
  <2>1. CanAccept /\ \E f \in Free : RegisterAt(f)
    BY <1>6 DEF AcceptFirst, AcceptMore, Register
  <2>2. PICK f \in Fds : sock[f] = NoClient /\ RegisterAt(f)
    BY <2>1 DEF Free, Open
  <2>3. /\ Head(backlog) \in Clients
        /\ ev[f] = "NONE"
    BY <2>1, <2>2, HeadTailTypes DEF CanAccept, TypeOK, KernelTypes, ConnInv,
       BatchIsFresh
  <2>4. /\ sock'[f] # NoClient /\ \A g \in Fds \ {f} : sock'[g] = sock[g]
        /\ \A g \in Fds \ {f} : armed'[g] = armed[g]
        /\ ev' = ev /\ m_workqueue' = m_workqueue
    BY <2>2, <2>3, ReactorAssumption DEF RegisterAt, InitConn, TypeOK,
       KernelTypes
  <2>5. QED
    BY <1>2, <1>3, <2>2, <2>3, <2>4 DEF ExclInv
<1>7. ASSUME NEW f \in Fds, HandleHup(f)
      PROVE  ExclInv'
  <2>1. m_sockfd[f] = f /\ ev[f] # "NONE"
    BY <1>7 DEF HandleHup, CloseConn, DelTimer, ConnInv, BatchIsFresh
  <2>2. CloseFd(f) /\ m_workqueue' = m_workqueue
    BY <1>7, <2>1, ReactorAssumption DEF HandleHup, CloseConn, DelTimer
  <2>3. \A g \in Fds : ev'[g] \in {"NONE", ev[g]}
    BY <1>7 DEF HandleHup, CloseConn, DelTimer, TypeOK, MainTypes
  <2>4. ~Queued(f) /\ \A w \in Workers : ~Owns(w, f)
    BY <2>1 DEF ExclInv
  <2>5. QED
    BY <1>1, <2>2, <2>3, <2>4, ExclClose
<1>8. ASSUME NEW f \in Fds,
             HandleIO(f, "IN", "READ") \/ HandleIO(f, "OUT", "WRITE")
      PROVE  ExclInv'
  <2>1. /\ ev[f] # "NONE" /\ ev'[f] = "NONE"
        /\ \A g \in Fds \ {f} : ev'[g] = ev[g]
        /\ UNCHANGED <<armed, sock>>
        /\ \/ m_workqueue' = m_workqueue
           \/ m_workqueue' = Append(m_workqueue, f)
    BY <1>8 DEF HandleIO, AppendRequest, kernelVars, TypeOK, MainTypes
  <2>2. /\ ~Queued(f) /\ armed[f] = "off" /\ sock[f] # NoClient
        /\ \A w \in Workers : ~Owns(w, f)
    BY <2>1 DEF ExclInv, ConnInv, BatchIsFresh
  <2>3. CASE m_workqueue' = m_workqueue
    BY <1>2, <1>3, <2>1, <2>3 DEF ExclInv
  <2>4. CASE m_workqueue' = Append(m_workqueue, f)
    BY <1>2, <2>1, <2>2, <2>4, QueueAppend DEF ExclInv
  <2>5. QED
    BY <2>1, <2>3, <2>4
<1>9. ASSUME NEW f \in Fds, TickExpire(f)
      PROVE  ExclInv'
  <2>1. ev' = ev /\ m_workqueue' = m_workqueue
    BY <1>9 DEF TickExpire, CbFunc
  <2>2. CASE timer[f] = "live"
    <3>1. ~Queued(f) /\ ~Held(f) /\ CloseFd(f)
      BY <1>9, <2>2 DEF TickExpire, CbFunc, InService
    <3>2. \A w \in Workers : ~Owns(w, f)
      BY <3>1 DEF Held, Owns
    <3>3. QED
      BY <1>1, <2>1, <3>1, <3>2, ExclClose
  <2>3. CASE timer[f] # "live"
    BY <1>2, <1>9, <2>1, <2>3, ExclFrame DEF TickExpire, CbFunc
  <2>4. QED
    BY <2>2, <2>3
<1>10. QED
  BY <1>4, <1>5, <1>6, <1>7, <1>8, <1>9 DEF Main

\* A worker that arms the descriptor has just given the connection up.
LEMMA ExclRearm ==
  ASSUME TypeOK, ConnInv, ExclInv, NEW w \in Workers, NEW f \in Fds,
         NEW e \in {"IN", "OUT"}, Owns(w, f), Modfd(f, e),
         UNCHANGED <<ev, m_workqueue, sock>>,
         \A v \in Workers, g \in Fds : Owns(v, g)' => Owns(v, g) /\ v # w
  PROVE  ExclInv'
<1>1. \/ armed' = armed
      \/ Live(f) /\ armed' = [armed EXCEPT ![m_sockfd[f]] = e]
  BY DEF Modfd
<1>2. CASE armed' = armed
  BY <1>2, ExclFrame
<1>3. CASE Live(f) /\ armed' = [armed EXCEPT ![m_sockfd[f]] = e]
  <2>1. m_sockfd[f] = f /\ sock[f] # NoClient
    BY <1>3 DEF Live, ConnInv, OwnDescriptor
  <2>2. \A g \in Fds \ {f} : armed'[g] = armed[g]
    BY <1>3, <2>1 DEF TypeOK, KernelTypes
  <2>3. \A g \in Fds : Queued(g)' <=> Queued(g)
    BY DEF Queued
  <2>4. \A v \in Workers : ~Owns(v, f)'
    BY DEF ExclInv
  <2>5. QED
    BY <2>1, <2>2, <2>3, <2>4 DEF ExclInv
<1>4. QED
  BY <1>1, <1>2, <1>3

LEMMA ExclWorker ==
  ASSUME TypeOK, ConnInv, ExclInv, PlainInv, NEW w \in Workers, Worker(w)
  PROVE  ExclInv'
<1> DEFINE f == wobj[w]
<1>1. UNCHANGED ev /\ UNCHANGED sock
  BY WorkerFrame DEF mainVars
<1>2. ASSUME NEW pc \in WorkerPcs, Goto(w, pc), wpc[w] # "idle",
             wpc[w] # "linger" \/ pc = "idle"
      PROVE  \A v \in Workers, g \in Fds : Owns(v, g)' => Owns(v, g)
  BY <1>2, ReactorAssumption DEF Goto, Owns, TypeOK, WorkerTypes
<1>3. ASSUME NEW pc \in {"idle", "linger"}, Goto(w, pc)
      PROVE  \A v \in Workers, g \in Fds :
               Owns(v, g)' => Owns(v, g) /\ v # w
  BY <1>3, ReactorAssumption DEF Goto, Owns, TypeOK, WorkerTypes
<1>4. CASE Take(w)
  <2>1. /\ Head(m_workqueue) \in Fds /\ Queued(Head(m_workqueue))
        /\ \A g \in Fds :
             Queued(g)' <=> (Queued(g) /\ g # Head(m_workqueue))
        /\ \A i, j \in 1..Len(m_workqueue') :
             m_workqueue'[i] = m_workqueue'[j] => i = j
    BY <1>4, QueueTail DEF Take
  <2>2. \A v \in Workers, g \in Fds :
          Owns(v, g)' => Owns(v, g) \/ (v = w /\ g = Head(m_workqueue))
    BY <1>4 DEF Take, Owns, TypeOK, WorkerTypes
  <2>3. armed' = armed
    BY <1>4 DEF Take, kernelVars
  <2>4. QED
    BY <1>1, <2>1, <2>2, <2>3 DEF ExclInv
<1>5. CASE Rearm(w) \/ AfterWrite(w)
  <2>1. /\ f \in Fds /\ Owns(w, f) /\ m_workqueue' = m_workqueue
        /\ Goto(w, "idle") \/ Goto(w, "linger")
        /\ Modfd(f, "IN") \/ Modfd(f, "OUT") \/ armed' = armed
    BY <1>5, WorkerHolds DEF Rearm, RearmFor, AfterWrite, Owns
  <2>2. \A v \in Workers, g \in Fds : Owns(v, g)' => Owns(v, g) /\ v # w
    BY <1>3, <2>1
  <2>3. CASE armed' = armed
    BY <1>1, <2>1, <2>2, <2>3, ExclFrame
  <2>4. CASE Modfd(f, "IN") \/ Modfd(f, "OUT")
    BY <1>1, <2>1, <2>2, <2>4, ExclRearm
  <2>5. QED
    BY <2>1, <2>3, <2>4
<1>6. CASE WriteNothing(w) \/ Reset(w)
  BY <1>6 DEF WriteNothing, Reset, InitConn, PlainInv
<1>7. CASE \/ RecvNothing(w) \/ RecvData(w) \/ ParseMore(w)
           \/ ParseRequest(w) \/ Respond(w) \/ WriteFails(w)
           \/ WriteAgain(w) \/ WriteDone(w) \/ TestLinger(w)
  <2>1. /\ UNCHANGED <<armed, m_workqueue>>
        /\ \E pc \in WorkerPcs :
             /\ Goto(w, pc) /\ wpc[w] # "idle"
             /\ wpc[w] # "linger" \/ pc = "idle"
    BY <1>7 DEF RecvNothing, RecvData, ParseMore, ParseRequest, Respond,
       WriteFails, WriteAgain, WriteDone, TestLinger, kernelVars, WorkerPcs,
       PlainInv, TypeOK, WorkerTypes
  <2>2. QED
    BY <1>1, <1>2, <2>1, ExclFrame
<1>8. QED
  BY <1>4, <1>5, <1>6, <1>7 DEF Worker

LEMMA PlainMain ==
  ASSUME TypeOK, ConnInv, ExclInv, PlainInv, Main
  PROVE  PlainInv'
<1>1. UNCHANGED <<wobj, wpc>>
  BY MainFrame DEF workerVars
<1>2. CASE AcceptFirst \/ AcceptMore
  <2>1. PICK f \in Fds : sock[f] = NoClient /\ RegisterAt(f)
    BY <1>2 DEF AcceptFirst, AcceptMore, Register, Free, Open
  <2>2. \A w \in Workers : wpc[w] \in {"write", "again"} => wobj[w] # f
    BY <2>1 DEF ExclInv, Owns
  <2>3. \A g \in Fds : ~m_linger'[g]
    BY <2>1 DEF RegisterAt, InitConn, PlainInv, TypeOK, ConnTypes
  <2>4. \A g \in Fds \ {f} : bytes_to_send'[g] = bytes_to_send[g]
    BY <2>1 DEF RegisterAt, InitConn, TypeOK, ConnTypes
  <2>5. \A w \in Workers : wpc[w] \in {"write", "again"} => wobj[w] \in Fds
    BY WorkerHolds
  <2>6. QED
    BY <1>1, <2>2, <2>3, <2>4, <2>5 DEF PlainInv
<1>3. CASE UNCHANGED <<m_linger, bytes_to_send>>
  BY <1>1, <1>3 DEF PlainInv
<1>4. CASE ~(AcceptFirst \/ AcceptMore)
  <2>1. UNCHANGED <<m_linger, bytes_to_send>>
    BY <1>4 DEF Main, EpollWait, AfterReport, HandleSignal, AcceptBusy,
       AcceptEnd, HandleHup, CloseConn, DelTimer, HandleIO, AppendRequest,
       EndOfBatch, TickExpire, CbFunc, TickEnd, connVars
  <2>2. QED
    BY <1>3, <2>1
<1>5. QED
  BY <1>2, <1>4

LEMMA PlainWorker ==
  ASSUME KeepAlive = {}, TypeOK, ExclInv, PlainInv, NEW w \in Workers,
         Worker(w)
  PROVE  PlainInv'
<1> DEFINE f == wobj[w]
<1>1. ASSUME NEW pc \in WorkerPcs \ {"reset", "write", "again"}, Goto(w, pc),
             UNCHANGED <<m_linger, bytes_to_send>>
      PROVE  PlainInv'
  BY <1>1 DEF Goto, PlainInv, TypeOK, WorkerTypes
<1>2. CASE Take(w)
  BY <1>2 DEF Take, PlainInv, connVars, TypeOK, WorkerTypes
<1>3. CASE RecvNothing(w) \/ RecvData(w) \/ ParseMore(w) \/ Rearm(w)
             \/ WriteFails(w) \/ AfterWrite(w)
  <2>1. /\ UNCHANGED <<m_linger, bytes_to_send>>
        /\ \E pc \in WorkerPcs \ {"reset", "write", "again"} : Goto(w, pc)
    BY <1>3 DEF RecvNothing, RecvData, ParseMore, Rearm, RearmFor, WriteFails,
       AfterWrite, connVars, WorkerPcs
  <2>2. QED
    BY <1>1, <2>1
<1>4. CASE ParseRequest(w)
  <2> DEFINE keep == m_read_buf[f][m_checked_index[f] + 1] \in KeepAlive
  <2>1. m_linger' = [m_linger EXCEPT ![f] = keep] /\ ~keep
    BY <1>4 DEF ParseRequest
  <2> HIDE DEF keep
  <2>2. \A g \in Fds : ~m_linger'[g]
    BY <2>1 DEF PlainInv, TypeOK, ConnTypes
  <2>3. QED
    BY <1>4, <2>2 DEF ParseRequest, Goto, PlainInv, TypeOK, WorkerTypes
<1>5. CASE Respond(w)
  <2>1. f \in Fds
    BY <1>5, WorkerHolds DEF Respond
  <2>2. CASE Goto(w, "idle") /\ bytes_to_send' = bytes_to_send
    BY <1>1, <1>5, <2>2 DEF Respond, WorkerPcs
  <2>3. CASE /\ Goto(w, "write")
             /\ bytes_to_send' = [bytes_to_send EXCEPT ![f] = 1]
    <3>1. bytes_to_send'[f] = 1
          /\ \A g \in Fds \ {f} : bytes_to_send'[g] = bytes_to_send[g]
      BY <2>1, <2>3 DEF TypeOK, ConnTypes
    <3>2. m_linger' = m_linger
      BY <1>5 DEF Respond
    <3>3. \A v \in Workers : wpc[v] \in {"write", "again"} => wobj[v] \in Fds
      BY WorkerHolds
    <3>4. QED
      BY <2>3, <3>1, <3>2, <3>3 DEF Goto, PlainInv, TypeOK, WorkerTypes
  <2>4. QED
    BY <1>5, <2>2, <2>3 DEF Respond
<1>6. CASE WriteDone(w)
  <2>1. /\ f \in Fds /\ Owns(w, f)
        /\ bytes_to_send' = [bytes_to_send EXCEPT ![f] = 0]
        /\ m_linger' = m_linger /\ Goto(w, "done")
    BY <1>6, WorkerHolds DEF WriteDone, Owns
  <2>2. \A v \in Workers \ {w} :
          wpc[v] \in {"write", "again"} => wobj[v] \in Fds \ {f}
    BY <2>1, WorkerHolds DEF ExclInv, Owns
  <2>3. \A g \in Fds \ {f} : bytes_to_send'[g] = bytes_to_send[g]
    BY <2>1 DEF TypeOK, ConnTypes
  <2>4. QED
    BY <2>1, <2>2, <2>3 DEF Goto, PlainInv, TypeOK, WorkerTypes
<1>7. CASE WriteAgain(w)
  BY <1>7 DEF WriteAgain, Goto, PlainInv, connVars, TypeOK, WorkerTypes
<1>8. CASE TestLinger(w)
  <2>1. f \in Fds
    BY <1>8, WorkerHolds DEF TestLinger
  <2>2. Goto(w, "idle") /\ UNCHANGED <<m_linger, bytes_to_send>>
    BY <1>8, <2>1 DEF TestLinger, PlainInv, connVars
  <2>3. QED
    BY <1>1, <2>2 DEF WorkerPcs
<1>9. CASE WriteNothing(w) \/ Reset(w)
  BY <1>9 DEF WriteNothing, Reset, InitConn, PlainInv
<1>10. QED
  BY <1>2, <1>3, <1>4, <1>5, <1>6, <1>7, <1>8, <1>9 DEF Worker

LEMMA StepExcl ==
  ASSUME KeepAlive = {}, ~Overrun
  PROVE  TypeOK /\ ConnInv /\ ExclInv /\ PlainInv /\ [Next]_vars
           => ExclInv' /\ PlainInv'
<1> SUFFICES ASSUME TypeOK, ConnInv, ExclInv, PlainInv, [Next]_vars
             PROVE  ExclInv' /\ PlainInv'
  OBVIOUS
<1>1. ASSUME UNCHANGED <<armed, ev, m_workqueue, sock, wobj, wpc, m_linger,
                         bytes_to_send>>
      PROVE  ExclInv' /\ PlainInv'
  BY <1>1, ExclFrame DEF Owns, PlainInv
<1>2. CASE UNCHANGED vars
  BY <1>1, <1>2 DEF vars, kernelVars, mainVars, connVars, workerVars
<1>3. CASE Environment
  BY <1>1, <1>3, EnvironmentFrame DEF mainVars, connVars, workerVars
<1>4. QED
  BY <1>2, <1>3, ExclMain, ExclWorker, PlainMain, PlainWorker DEF Next

\* At most one claim: what the pairwise exclusions of ExclInv add up to.
LEMMA AtMostOne ==
  ASSUME NEW S, \A x, y \in S : x = y
  PROVE  Cardinality(S) = (IF S = {} THEN 0 ELSE 1)
<1>1. CASE S = {}
  BY <1>1, FS_EmptySet
<1>2. CASE S # {}
  <2>1. PICK x : S = {x}
    BY <1>2
  <2>2. QED
    BY <1>2, <2>1, FS_Singleton
<1>3. QED
  BY <1>1, <1>2

LEMMA ExclMeansOneOwner ==
  ASSUME ExclInv
  PROVE  OneOwner
<1> SUFFICES ASSUME NEW f \in Fds PROVE Owners(f) <= 1
  BY DEF OneOwner
<1> DEFINE Q == {i \in 1..Len(m_workqueue) : m_workqueue[i] = f}
           W == {w \in Workers : Owns(w, f)}
<1>1. Cardinality(Q) = IF Queued(f) THEN 1 ELSE 0
  <2>1. \A i, j \in Q : i = j
    BY DEF ExclInv
  <2>2. Q = {} <=> ~Queued(f)
    BY DEF Queued
  <2>3. QED
    BY <2>1, <2>2, AtMostOne
<1>2. Cardinality(W) = IF W = {} THEN 0 ELSE 1
  <2>1. \A v, w \in W : v = w
    BY DEF ExclInv
  <2>2. QED
    BY <2>1, AtMostOne
<1>3. /\ armed[f] # "off" => ev[f] = "NONE" /\ ~Queued(f)
      /\ ev[f] # "NONE" => ~Queued(f)
      /\ W # {} => armed[f] = "off" /\ ev[f] = "NONE" /\ ~Queued(f)
  BY DEF ExclInv
<1>4. Owners(f) = Cardinality(Q) + Cardinality(W)
                    + (IF armed[f] # "off" THEN 1 ELSE 0)
                    + (IF ev[f] # "NONE" THEN 1 ELSE 0)
  BY DEF Owners
<1> HIDE DEF Q, W
<1>5. QED
  BY <1>1, <1>2, <1>3, <1>4

LEMMA ExclusiveInvariant ==
  ASSUME KeepAlive = {}, ~Overrun
  PROVE  Spec => []ExclInv /\ []PlainInv
<1>1. Init => ExclInv /\ PlainInv
  <2>1. Init => ExclInv
    BY ReactorAssumption DEF Init, ExclInv, Queued, Owns
  <2>2. Init => PlainInv
    BY DEF Init, PlainInv
  <2>3. QED
    BY <2>1, <2>2
<1>2. TypeOK /\ ConnInv /\ ExclInv /\ PlainInv /\ [Next]_vars
        => ExclInv' /\ PlainInv'
  BY StepExcl
<1>3. QED
  BY <1>1, <1>2, TypeCorrect, ConnInvariant, PTL DEF Spec

\* EPOLLONESHOT gives a connection to one thread at a time, if no client asks
\* for keep-alive and no timer expires under a worker (http_conn.cpp 46-49,
\* 62-70, 830-853).
THEOREM OneOwnerAtATime ==
  ASSUME KeepAlive = {}, ~Overrun
  PROVE  Spec => []OneOwner
<1>1. Spec => []ExclInv
  BY ExclusiveInvariant
<1>2. ExclInv => OneOwner
  BY ExclMeansOneOwner
<1>3. QED
  BY <1>1, <1>2, PTL

-----------------------------------------------------------------------------
(* Where a client is: in the listen queue, behind one descriptor, or       *)
(* neither.                                                                *)

\* Who waits in the queue waits once, who is behind a descriptor is behind
\* one, and who has not been accepted has been sent nothing.
PlaceInv ==
  /\ \A i \in 1..Len(backlog) : phase[backlog[i]] = "queued"
  /\ \A i, j \in 1..Len(backlog) : backlog[i] = backlog[j] => i = j
  /\ \A f \in Fds : sock[f] # NoClient => phase[sock[f]] = "up"
  /\ \A f, g \in Fds : sock[f] = sock[g] /\ sock[f] # NoClient => f = g
  /\ \A c \in Clients : phase[c] \in {"idle", "queued"} =>
                          inbox[c] = <<>> /\ rx[c] = sent[c]

\* What accept() leaves of the queue.
LEMMA BacklogTail ==
  ASSUME TypeOK, PlaceInv, backlog # <<>>
  PROVE  /\ Head(backlog) \in Clients /\ phase[Head(backlog)] = "queued"
         /\ Len(Tail(backlog)) = Len(backlog) - 1
         /\ \A i \in 1..Len(Tail(backlog)) :
              /\ Tail(backlog)[i] # Head(backlog)
              /\ phase[Tail(backlog)[i]] = "queued"
         /\ \A i, j \in 1..Len(Tail(backlog)) :
              Tail(backlog)[i] = Tail(backlog)[j] => i = j
<1> DEFINE n == Len(backlog)
           q == backlog
           t == Tail(backlog)
<1>1. q \in Seq(Clients) /\ n \in Nat \ {0} /\ Head(q) = q[1]
  BY DEF TypeOK, KernelTypes
<1>2. Len(t) = n - 1 /\ \A i \in 1..(n - 1) : t[i] = q[i + 1]
  BY <1>1
<1>3. \A i, j \in 1..n : q[i] = q[j] => i = j
  BY DEF PlaceInv
<1>4. \A i \in 1..n : q[i] \in Clients /\ phase[q[i]] = "queued"
  BY <1>1 DEF PlaceInv
<1>5. \A i \in 1..(n - 1) : i + 1 \in 1..n /\ i + 1 # 1
  BY <1>1
<1>6. 1 \in 1..n
  BY <1>1
<1> HIDE DEF n, q, t
<1>7. \A i \in 1..(n - 1) : t[i] # q[1] /\ phase[t[i]] = "queued"
  BY <1>2, <1>3, <1>4, <1>5, <1>6
<1>8. \A i, j \in 1..(n - 1) : t[i] = t[j] => i = j
  BY <1>1, <1>2, <1>3, <1>5
<1>9. QED
  BY <1>1, <1>2, <1>4, <1>6, <1>7, <1>8 DEF n, q, t

LEMMA PlaceClose ==
  ASSUME TypeOK, PlaceInv, NEW f \in Fds, CloseFd(f), sock[f] # NoClient,
         UNCHANGED backlog
  PROVE  PlaceInv'
<1> DEFINE c == sock[f]
<1>1. c \in Clients /\ phase[c] = "up"
  BY DEF TypeOK, KernelTypes, PlaceInv
<1>2. /\ sock'[f] = NoClient /\ \A g \in Fds \ {f} : sock'[g] = sock[g]
      /\ phase' = [phase EXCEPT ![c] = "gone"]
      /\ rx' = [rx EXCEPT ![c] = 0]
      /\ UNCHANGED <<inbox, sent>>
  BY DEF CloseFd, TypeOK, KernelTypes
<1>3. \A d \in Clients \ {c} : phase'[d] = phase[d] /\ rx'[d] = rx[d]
  BY <1>2 DEF TypeOK, ClientTypes
<1>4. phase'[c] = "gone"
  BY <1>1, <1>2 DEF TypeOK, ClientTypes
<1>5. \A g \in Fds \ {f} : sock[g] # c
  BY <1>1, ReactorAssumption DEF PlaceInv
<1>6. \A g \in Fds : sock[g] # NoClient => sock[g] \in Clients
  BY DEF TypeOK, KernelTypes
<1>7. \A i \in 1..Len(backlog) : backlog[i] \in Clients \ {c}
  BY <1>1 DEF TypeOK, KernelTypes, PlaceInv
<1> HIDE DEF c
<1>8. QED
  BY <1>2, <1>3, <1>4, <1>5, <1>6, <1>7 DEF PlaceInv

LEMMA PlaceEnvironment ==
  ASSUME TypeOK, PlaceInv, Environment
  PROVE  PlaceInv'
<1>1. ASSUME NEW c \in Clients, Connect(c)
      PROVE  PlaceInv'
  <2>1. /\ phase[c] = "idle" /\ phase'[c] = "queued"
        /\ \A d \in Clients \ {c} : phase'[d] = phase[d]
        /\ UNCHANGED <<sock, inbox, rx, sent>>
    BY <1>1 DEF Connect, TypeOK, ClientTypes
  <2>2. /\ Len(backlog) \in Nat /\ Len(backlog') = Len(backlog) + 1
        /\ backlog'[Len(backlog) + 1] = c
        /\ \A i \in 1..Len(backlog) : /\ backlog'[i] = backlog[i]
                                      /\ backlog[i] \in Clients \ {c}
    BY <1>1, <2>1 DEF Connect, TypeOK, KernelTypes, PlaceInv
  <2>3. \A f \in Fds : sock[f] # NoClient => sock[f] \in Clients \ {c}
    BY <2>1 DEF TypeOK, KernelTypes, PlaceInv
  <2>4. \A i \in 1..(Len(backlog) + 1) :
          i = Len(backlog) + 1 \/ i \in 1..Len(backlog)
    BY <2>2
  <2>5. QED
    BY <2>1, <2>2, <2>3, <2>4 DEF PlaceInv
<1>2. ASSUME NEW c \in Clients, SendSegment(c)
      PROVE  PlaceInv'
  <2>1. /\ rx'[c] = rx[c] + 1 /\ sent'[c] = sent[c] + 1
        /\ rx[c] \in Nat /\ sent[c] \in Nat
        /\ \A d \in Clients \ {c} : rx'[d] = rx[d] /\ sent'[d] = sent[d]
        /\ UNCHANGED <<phase, inbox, sock, backlog>>
    BY <1>2 DEF SendSegment, TypeOK, ClientTypes, kernelVars
  <2>2. QED
    BY <2>1 DEF PlaceInv
<1>3. ASSUME NEW c \in Clients, ClientClose(c) \/ SendBuffer(c)
      PROVE  PlaceInv'
  BY <1>3 DEF ClientClose, SendBuffer, kernelVars, PlaceInv
<1>4. CASE AlarmFires \/ SigTerm
  BY <1>4 DEF AlarmFires, SigTerm, clientVars, PlaceInv
<1>5. QED
  BY <1>1, <1>2, <1>3, <1>4 DEF Environment

LEMMA PlaceMain ==
  ASSUME TypeOK, ConnInv, PlaceInv, Main
  PROVE  PlaceInv'
<1>1. UNCHANGED <<inbox, sent>>
  BY MainFrame
<1>2. ASSUME UNCHANGED <<phase, rx, backlog, sock>>
      PROVE  PlaceInv'
  BY <1>1, <1>2 DEF PlaceInv
<1>3. CASE EpollWait \/ HandleSignal \/ AcceptEnd \/ EndOfBatch \/ TickEnd
  BY <1>2, <1>3 DEF EpollWait, HandleSignal, AcceptEnd, EndOfBatch, TickEnd,
     clientVars, kernelVars
<1>4. CASE AcceptFirst \/ AcceptMore
  <2>1. CanAccept /\ \E f \in Free : RegisterAt(f)
    BY <1>4 DEF AcceptFirst, AcceptMore, Register
  <2>2. PICK f \in Fds : sock[f] = NoClient /\ RegisterAt(f)
    BY <2>1 DEF Free, Open
  <2> DEFINE c == Head(backlog)
  <2>3. backlog # <<>>
    BY <2>1 DEF CanAccept
  <2>4. /\ sock'[f] = c /\ \A g \in Fds \ {f} : sock'[g] = sock[g]
        /\ backlog' = Tail(backlog) /\ rx' = rx
        /\ phase' = [phase EXCEPT ![c] = "up"]
    BY <2>2 DEF RegisterAt, TypeOK, KernelTypes
  <2>5. /\ phase'[c] = "up"
        /\ \A d \in Clients \ {c} : phase'[d] = phase[d]
    BY <2>3, <2>4, BacklogTail DEF TypeOK, ClientTypes
  <2>6. \A g \in Fds : sock[g] # NoClient => sock[g] \in Clients \ {c}
    BY <2>3, BacklogTail DEF TypeOK, KernelTypes, PlaceInv
  <2>7. \A i \in 1..Len(Tail(backlog)) : Tail(backlog)[i] \in Clients \ {c}
    <3>1. Tail(backlog) \in Seq(Clients)
      BY <2>3, HeadTailTypes DEF TypeOK, KernelTypes
    <3>2. QED
      BY <2>3, <3>1, BacklogTail
  <2>8. \A i \in 1..Len(Tail(backlog)) : phase'[Tail(backlog)[i]] = "queued"
    BY <2>3, <2>5, <2>7, BacklogTail
  <2>9. \A i, j \in 1..Len(Tail(backlog)) :
              Tail(backlog)[i] = Tail(backlog)[j] => i = j
    BY <2>3, BacklogTail
  <2>10. c \in Clients
    BY <2>3, BacklogTail
  <2> HIDE DEF c
  <2>11. /\ \A g \in Fds : sock'[g] # NoClient => phase'[sock'[g]] = "up"
         /\ \A g, h \in Fds :
              sock'[g] = sock'[h] /\ sock'[g] # NoClient => g = h
    BY <2>4, <2>5, <2>6 DEF PlaceInv
  <2>12. \A d \in Clients : phase'[d] \in {"idle", "queued"} =>
                              inbox'[d] = <<>> /\ rx'[d] = sent'[d]
    BY <1>1, <2>4, <2>5 DEF PlaceInv
  <2>13. QED
    BY <2>4, <2>8, <2>9, <2>11, <2>12 DEF PlaceInv
<1>5. CASE AcceptBusy
  <2> DEFINE c == Head(backlog)
  <2>1. /\ backlog # <<>> /\ sock' = sock /\ backlog' = Tail(backlog)
        /\ phase' = [phase EXCEPT ![c] = "gone"]
        /\ rx' = [rx EXCEPT ![c] = 0]
    BY <1>5 DEF AcceptBusy, CanAccept
  <2>2. c \in Clients /\ phase[c] = "queued"
    BY <2>1, BacklogTail
  <2>3. /\ phase'[c] = "gone"
        /\ \A d \in Clients \ {c} : phase'[d] = phase[d] /\ rx'[d] = rx[d]
    BY <2>1, <2>2 DEF TypeOK, ClientTypes
  <2>4. \A g \in Fds : sock[g] # NoClient => sock[g] \in Clients \ {c}
    BY <2>2 DEF TypeOK, KernelTypes, PlaceInv
  <2>5. \A i \in 1..Len(Tail(backlog)) : Tail(backlog)[i] \in Clients \ {c}
    <3>1. Tail(backlog) \in Seq(Clients)
      BY <2>1, HeadTailTypes DEF TypeOK, KernelTypes
    <3>2. QED
      BY <2>1, <3>1, BacklogTail
  <2>6. \A i \in 1..Len(Tail(backlog)) : phase'[Tail(backlog)[i]] = "queued"
    BY <2>1, <2>3, <2>5, BacklogTail
  <2>7. \A i, j \in 1..Len(Tail(backlog)) :
              Tail(backlog)[i] = Tail(backlog)[j] => i = j
    BY <2>1, BacklogTail
  <2> HIDE DEF c
  <2>8. QED
    BY <1>1, <2>1, <2>2, <2>3, <2>4, <2>6, <2>7 DEF PlaceInv
<1>6. ASSUME NEW f \in Fds, HandleHup(f)
      PROVE  PlaceInv'
  <2>1. m_sockfd[f] = f /\ sock[f] # NoClient
    BY <1>6 DEF HandleHup, ConnInv, BatchIsFresh
  <2>2. CloseFd(f) /\ UNCHANGED backlog
    BY <1>6, <2>1, ReactorAssumption DEF HandleHup, CloseConn
  <2>3. QED
    BY <2>1, <2>2, PlaceClose
<1>7. ASSUME NEW f \in Fds,
             HandleIO(f, "IN", "READ") \/ HandleIO(f, "OUT", "WRITE")
      PROVE  PlaceInv'
  BY <1>2, <1>7 DEF HandleIO, clientVars, kernelVars
<1>8. ASSUME NEW f \in Fds, TickExpire(f)
      PROVE  PlaceInv'
  <2>1. CASE timer[f] = "live"
    <3>1. CloseFd(f) /\ UNCHANGED backlog /\ sock[f] # NoClient
      BY <1>8, <2>1 DEF TickExpire, CbFunc, ConnInv, TimerOwnsSocket
    <3>2. QED
      BY <3>1, PlaceClose
  <2>2. CASE timer[f] # "live"
    BY <1>2, <1>8, <2>2 DEF TickExpire, clientVars
  <2>3. QED
    BY <2>1, <2>2
<1>9. QED
  BY <1>3, <1>4, <1>5, <1>6, <1>7, <1>8 DEF Main

\* A worker takes data from, and sends to, clients that are up.
LEMMA PlaceWorker ==
  ASSUME TypeOK, ConnInv, PlaceInv, NEW w \in Workers, Worker(w)
  PROVE  PlaceInv'
<1> DEFINE f == wobj[w]
           c == sock[m_sockfd[f]]
<1>1. UNCHANGED <<backlog, sock, phase, sent>>
  BY WorkerFrame
<1>2. ASSUME UNCHANGED <<inbox, rx>>
      PROVE  PlaceInv'
  BY <1>1, <1>2 DEF PlaceInv
<1>3. ASSUME f \in Fds, Live(f)
      PROVE  phase[c] = "up"
  BY <1>3 DEF Live, ConnInv, OwnDescriptor, PlaceInv
<1>4. CASE RecvData(w)
  <2>1. f \in Fds /\ Live(f)
    BY <1>4, WorkerHolds DEF RecvData, CanRead
  <2>2. inbox' = inbox /\ \A d \in Clients \ {c} : rx'[d] = rx[d]
    BY <1>4 DEF RecvData, TypeOK, ClientTypes
  <2>3. QED
    BY <1>1, <1>3, <2>1, <2>2 DEF PlaceInv
<1>5. CASE WriteDone(w)
  <2>1. f \in Fds /\ Live(f)
    BY <1>5, WorkerHolds DEF WriteDone
  <2>2. rx' = rx /\ \A d \in Clients \ {c} : inbox'[d] = inbox[d]
    BY <1>5 DEF WriteDone, TypeOK, ClientTypes
  <2>3. QED
    BY <1>1, <1>3, <2>1, <2>2 DEF PlaceInv
<1>6. CASE ~(RecvData(w) \/ WriteDone(w))
  <2>1. UNCHANGED <<inbox, rx>>
    BY <1>6 DEF Worker, Take, RecvNothing, ParseMore, ParseRequest, Rearm,
       RearmFor, Respond, WriteNothing, WriteFails, WriteAgain, AfterWrite,
       TestLinger, Reset, clientVars
  <2>2. QED
    BY <1>2, <2>1
<1>7. QED
  BY <1>4, <1>5, <1>6

LEMMA PlaceInvariant == Spec => []PlaceInv
<1>1. Init => PlaceInv
  BY DEF Init, PlaceInv
<1>2. TypeOK /\ ConnInv /\ PlaceInv /\ [Next]_vars => PlaceInv'
  <2> SUFFICES ASSUME TypeOK, ConnInv, PlaceInv, [Next]_vars PROVE PlaceInv'
    OBVIOUS
  <2>1. CASE UNCHANGED vars
    BY <2>1 DEF vars, clientVars, kernelVars, PlaceInv
  <2>2. QED
    BY <2>1, PlaceEnvironment, PlaceMain, PlaceWorker DEF Next
<1>3. QED
  BY <1>1, <1>2, TypeCorrect, ConnInvariant, PTL DEF Spec

-----------------------------------------------------------------------------
(* The listen queue and its edge.                                          *)

\* The limit and the descriptors are not used up: whoever waits finds a
\* descriptor, and at the limit at most one waits.
RoomLeft ==
  /\ backlog # <<>> => Free # {}
  /\ Len(backlog) > 1 => m_user_count < MAX_FD

LEMMA StepBacklog ==
  TypeOK /\ ConnInv /\ RoomLeft /\ BacklogWatched /\ [Next]_vars
    => BacklogWatched'
<1> SUFFICES ASSUME TypeOK, ConnInv, RoomLeft, BacklogWatched, [Next]_vars
             PROVE  BacklogWatched'
  OBVIOUS
<1> USE DEF BacklogWatched
<1>1. CASE UNCHANGED vars
  BY <1>1 DEF vars, kernelVars, mainVars
<1>2. CASE Environment
  BY <1>2 DEF Environment, Connect, SendSegment, ClientClose, SendBuffer,
     AlarmFires, SigTerm, kernelVars, mainVars
<1>3. ASSUME NEW w \in Workers, Worker(w)
      PROVE  BacklogWatched'
  BY <1>3, WorkerFrame DEF mainVars
<1>4. CASE EpollWait
  BY <1>4 DEF EpollWait, ConnInv, BatchOver
<1>5. CASE HandleSignal \/ EndOfBatch \/ TickEnd
  BY <1>5 DEF HandleSignal, EndOfBatch, TickEnd, kernelVars
<1>6. CASE AcceptFirst \/ AcceptMore
  BY <1>6 DEF AcceptFirst, AcceptMore, Register, RegisterAt
<1>7. CASE AcceptBusy
  <2>1. backlog \in Seq(Clients) /\ backlog # <<>> /\ Len(backlog) <= 1
    BY <1>7, ReactorAssumption DEF AcceptBusy, CanAccept, RoomLeft, TypeOK,
       KernelTypes, MainTypes
  <2>2. Tail(backlog) = <<>>
    BY <2>1
  <2>3. QED
    BY <1>7, <2>2 DEF AcceptBusy
<1>8. CASE AcceptEnd
  BY <1>8 DEF AcceptEnd, CanAccept, RoomLeft
<1>9. ASSUME NEW f \in Fds,
             HandleHup(f) \/ HandleIO(f, "IN", "READ")
               \/ HandleIO(f, "OUT", "WRITE") \/ TickExpire(f)
      PROVE  BacklogWatched'
  BY <1>9 DEF HandleHup, HandleIO, TickExpire, kernelVars
<1>10. QED
  BY <1>1, <1>2, <1>3, <1>4, <1>5, <1>6, <1>7, <1>8, <1>9 DEF Next, Main

\* Nobody waits in the queue of the edge-triggered listening socket without
\* an edge to report or an accept loop at work, as long as the connection
\* limit and the descriptors are not used up (webserverhttp.cpp 237-272).
THEOREM BacklogIsWatched == Spec /\ []RoomLeft => []BacklogWatched
<1>1. Init => BacklogWatched
  BY DEF Init, BacklogWatched
<1>2. TypeOK /\ ConnInv /\ RoomLeft /\ BacklogWatched /\ [Next]_vars
        => BacklogWatched'
  BY StepBacklog
<1>3. QED
  BY <1>1, <1>2, TypeCorrect, ConnInvariant, PTL DEF Spec

\* The clients in the queue and behind descriptors are all different.
LEMMA ClientsCounted ==
  ASSUME TypeOK, PlaceInv, IsFiniteSet(Clients)
  PROVE  Len(backlog) + Cardinality(Open) <= Cardinality(Clients)
<1> DEFINE D == 1..Len(backlog)
           W == {backlog[i] : i \in D}
           U == {sock[f] : f \in Open}
<1>1. /\ backlog \in Seq(Clients) /\ Len(backlog) \in Nat
      /\ \A i \in D : backlog[i] \in Clients /\ phase[backlog[i]] = "queued"
      /\ \A i, j \in D : backlog[i] = backlog[j] => i = j
  BY DEF TypeOK, KernelTypes, PlaceInv
<1>2. /\ \A f \in Open : sock[f] \in Clients /\ phase[sock[f]] = "up"
      /\ \A f, g \in Open : sock[f] = sock[g] => f = g
  BY DEF Open, TypeOK, KernelTypes, PlaceInv
<1>3. W \subseteq Clients /\ U \subseteq Clients /\ W \cap U = {}
  BY <1>1, <1>2
<1>4. IsFiniteSet(W) /\ IsFiniteSet(U) /\ IsFiniteSet(W \cup U)
  BY <1>3, FS_Subset, FS_Union
<1>5. Len(backlog) <= Cardinality(W)
  <2> DEFINE h == [i \in D |-> backlog[i]]
  <2>1. h \in Injection(D, W)
    BY <1>1 DEF Injection, IsInjective
  <2>2. Cardinality(D) = Len(backlog)
    <3> DEFINE n == Len(backlog)
    <3>1. n \in Nat
      BY <1>1
    <3> HIDE DEF n
    <3>2. Cardinality(1..n) = IF 1 > n THEN 0 ELSE n - 1 + 1
      BY <3>1, FS_Interval
    <3>3. Cardinality(1..n) = n
      BY <3>1, <3>2
    <3>4. QED
      BY <3>3 DEF n
  <2> HIDE DEF h
  <2>3. QED
    BY <1>4, <2>1, <2>2, FS_Injection
<1>6. Cardinality(Open) <= Cardinality(U)
  <2> DEFINE h == [f \in Open |-> sock[f]]
  <2>1. h \in Injection(Open, U)
    BY <1>2 DEF Injection, IsInjective
  <2>2. QED
    BY <1>4, <2>1, FS_Injection
<1>7. Cardinality(W \cup U) = Cardinality(W) + Cardinality(U)
  <2>1. Cardinality(W \cap U) = 0
    BY <1>3, FS_EmptySet
  <2>2. Cardinality(W) \in Nat /\ Cardinality(U) \in Nat
    BY <1>4, FS_CardinalityType
  <2> HIDE DEF W, U
  <2>3. Cardinality(W \cup U)
          = Cardinality(W) + Cardinality(U) - Cardinality(W \cap U)
    BY <1>4, FS_Union, Zenon
  <2>4. QED
    BY <2>1, <2>2, <2>3
<1>8. Cardinality(W \cup U) <= Cardinality(Clients)
  BY <1>3, FS_Subset
<1>9. /\ Cardinality(W) \in Nat /\ Cardinality(U) \in Nat
      /\ Cardinality(Clients) \in Nat /\ Cardinality(Open) \in Nat
  BY <1>4, FS_CardinalityType, OpenIsFinite
<1> HIDE DEF W, U
<1>10. QED
  BY <1>1, <1>5, <1>6, <1>7, <1>8, <1>9

\* There is room as long as there are no more clients than descriptors, and
\* at most one more than the limit: then the queue is always watched, without
\* further conditions (webserverhttp.cpp 237-272).
COROLLARY FewClientsAreWatched ==
  ASSUME IsFiniteSet(Clients),
         Cardinality(Clients) <= Cardinality(Fds),
         Cardinality(Clients) <= MAX_FD + 1
  PROVE  Spec => []BacklogWatched
<1>1. ASSUME TypeOK, PlaceInv, UserCount
      PROVE  RoomLeft
  <2>1. Len(backlog) + Cardinality(Open) <= Cardinality(Clients)
    BY <1>1, ClientsCounted
  <2>2. /\ Len(backlog) \in Nat /\ Cardinality(Open) \in Nat
        /\ Cardinality(Clients) \in Nat /\ Cardinality(Fds) \in Nat
        /\ MAX_FD \in Nat
    BY <1>1, OpenIsFinite, FS_CardinalityType, ReactorAssumption
    DEF TypeOK, KernelTypes
  <2>3. ASSUME backlog # <<>> PROVE Free # {}
    <3>1. Len(backlog) # 0
      BY <1>1, <2>3 DEF TypeOK, KernelTypes
    <3>2. Cardinality(Open) < Cardinality(Fds)
      BY <2>1, <2>2, <3>1
    <3>3. Open # Fds
      BY <2>2, <3>2
    <3>4. QED
      BY <3>3 DEF Free, Open
  <2>4. Len(backlog) > 1 => m_user_count < MAX_FD
    BY <1>1, <2>1, <2>2 DEF UserCount
  <2>5. QED
    BY <2>3, <2>4 DEF RoomLeft
<1>2. TypeOK /\ PlaceInv /\ UserCount => RoomLeft
  BY <1>1
<1>3. QED
  BY <1>2, TypeCorrect, PlaceInvariant, CountsUsers, BacklogIsWatched, PTL

-----------------------------------------------------------------------------
(* Whose request is answered, when no client asks for keep-alive and no    *)
(* timer expires under a worker.                                           *)

\* The worker is on its way to send the response of f, or to arm f for it.
Answering(w, f) ==
  /\ wobj[w] = f
  /\ \/ wpc[w] \in {"write", "again"}
     \/ wpc[w] \in {"exec", "respond"} /\ m_io_state[f] = "WRITE"
     \/ wpc[w] = "rearm" /\ m_read_ret[f] # "NO_REQUEST"

\* A response of f waits to be sent.
Prepared(f) ==
  \/ armed[f] = "OUT" \/ ev[f] = "OUT"
  \/ Queued(f) /\ m_io_state[f] = "WRITE"
  \/ \E w \in Workers : Answering(w, f)

\* What m_read_buf holds came from c; each response c has, and the one that
\* waits, stands for a request of its own that was parsed out of it.
Serves(f, c) ==
  /\ \A i \in 1..Len(m_read_buf[f]) : m_read_buf[f][i] = c
  /\ Len(m_read_buf[f]) + rx[c] <= sent[c]
  /\ m_checked_index[f] <= Len(m_read_buf[f])
  /\ Segments * Len(inbox[c]) <= m_checked_index[f]
  /\ Prepared(f) => /\ answer[f] = c
                    /\ Segments * (Len(inbox[c]) + 1) <= m_checked_index[f]

\* This holds of every open connection.
ServeInv == \A f \in Fds : sock[f] # NoClient => Serves(f, sock[f])

AnswerInv == OwnAnswers /\ ServeInv

\* A connection the step does not change, except that its client may send.
LEMMA ServesFrame ==
  ASSUME NEW f, NEW c, Serves(f, c),
         UNCHANGED <<m_read_buf[f], m_checked_index[f], answer[f], inbox[c],
                     rx[c], sent[c]>>,
         Prepared(f)' => Prepared(f)
  PROVE  Serves(f, c)'
BY DEF Serves

LEMMA AnswerEnvironment ==
  ASSUME TypeOK, AnswerInv, Environment
  PROVE  AnswerInv'
<1>1. /\ UNCHANGED <<m_read_buf, m_checked_index, answer, sock, armed, ev>>
      /\ UNCHANGED <<m_workqueue, m_io_state, m_read_ret, wobj, wpc>>
  BY EnvironmentFrame DEF mainVars, connVars, workerVars
<1>2. \A f \in Fds : Prepared(f)' => Prepared(f)
  BY <1>1 DEF Prepared, Answering, Queued
<1>3. UNCHANGED inbox
  BY DEF Environment, Connect, SendSegment, ClientClose, SendBuffer,
     AlarmFires, SigTerm, clientVars
<1>4. CASE UNCHANGED <<rx, sent>>
  <2>1. OwnAnswers'
    BY <1>3, <1>4 DEF AnswerInv, OwnAnswers
  <2>2. ServeInv'
    BY <1>1, <1>2, <1>3, <1>4, ServesFrame DEF AnswerInv, ServeInv
  <2>3. QED
    BY <2>1, <2>2 DEF AnswerInv
<1>5. ASSUME NEW c \in Clients, SendSegment(c)
      PROVE  AnswerInv'
  <2>1. /\ rx'[c] = rx[c] + 1 /\ sent'[c] = sent[c] + 1
        /\ rx[c] \in Nat /\ sent[c] \in Nat /\ Len(inbox[c]) \in Nat
        /\ \A d \in Clients \ {c} : rx'[d] = rx[d] /\ sent'[d] = sent[d]
    BY <1>5 DEF SendSegment, TypeOK, ClientTypes
  <2>2. Segments * Len(inbox[c]) \in Nat
    BY <2>1, ReactorAssumption
  <2>3. OwnAnswers'
    BY <1>3, <2>1, <2>2 DEF AnswerInv, OwnAnswers
  <2>4. ASSUME NEW f \in Fds, sock[f] # NoClient
        PROVE  Serves(f, sock[f])'
    <3>1. sock[f] \in Clients /\ Serves(f, sock[f]) /\ sock' = sock
      BY <1>1, <2>4 DEF TypeOK, KernelTypes, AnswerInv, ServeInv
    <3>2. CASE sock[f] # c
      BY <1>1, <1>2, <1>3, <2>1, <3>1, <3>2, ServesFrame
    <3>3. CASE sock[f] = c
      <4>1. Len(m_read_buf[f]) \in Nat
        BY DEF TypeOK, ConnTypes
      <4>2. QED
        BY <1>1, <1>2, <1>3, <2>1, <3>1, <3>3, <4>1 DEF Serves
    <3>4. QED
      BY <3>2, <3>3
  <2>5. QED
    BY <1>1, <2>3, <2>4 DEF AnswerInv, ServeInv
<1>6. UNCHANGED <<rx, sent>> \/ \E c \in Clients : SendSegment(c)
  BY DEF Environment, Connect, ClientClose, SendBuffer, AlarmFires, SigTerm,
     clientVars
<1>7. QED
  BY <1>4, <1>5, <1>6

\* The loop changes no response and no data it has not just discarded.
LEMMA AnswerMain ==
  ASSUME TypeOK, ConnInv, ExclInv, PlaceInv, AnswerInv, Main
  PROVE  AnswerInv'
<1>1. UNCHANGED <<inbox, sent, wobj, wpc>>
  BY MainFrame DEF workerVars
<1>2. OwnAnswers'
  BY <1>1 DEF AnswerInv, OwnAnswers
<1>3. \A f \in Fds : sock[f] # NoClient =>
                       sock[f] \in Clients /\ Serves(f, sock[f])
  BY DEF TypeOK, KernelTypes, AnswerInv, ServeInv
<1>4. ASSUME UNCHANGED <<sock, rx, connVars, m_workqueue>>,
             \A f \in Fds : armed'[f] = "OUT" \/ ev'[f] = "OUT" => Prepared(f)
      PROVE  ServeInv'
  <2>1. \A f \in Fds : Prepared(f)' => Prepared(f)
    BY <1>1, <1>4 DEF Prepared, Answering, Queued, connVars
  <2>2. QED
    BY <1>1, <1>3, <1>4, <2>1, ServesFrame DEF ServeInv, connVars
<1>5. CASE EpollWait
  <2>1. \A f \in Fds : /\ armed'[f] = "OUT" => armed[f] = "OUT"
                       /\ ev'[f] = "OUT" => armed[f] = "OUT"
    BY <1>5 DEF EpollWait, AfterReport, EventOf
  <2>2. QED
    BY <1>2, <1>4, <1>5, <2>1 DEF EpollWait, clientVars, Prepared, AnswerInv
<1>6. CASE HandleSignal \/ AcceptEnd \/ EndOfBatch \/ TickEnd
  <2>1. UNCHANGED <<sock, rx, connVars, m_workqueue, armed, ev>>
    BY <1>6 DEF HandleSignal, AcceptEnd, EndOfBatch, TickEnd, clientVars,
       kernelVars
  <2>2. QED
    BY <1>2, <1>4, <2>1 DEF Prepared, AnswerInv
<1>7. CASE AcceptFirst \/ AcceptMore
  <2>1. CanAccept /\ \E f \in Free : RegisterAt(f)
    BY <1>7 DEF AcceptFirst, AcceptMore, Register
  <2>2. PICK f \in Fds : sock[f] = NoClient /\ RegisterAt(f)
    BY <2>1 DEF Free, Open
  <2>3. PICK c \in Clients : c = Head(backlog) /\ phase[c] = "queued"
    BY <2>1, BacklogTail DEF CanAccept
  <2>4. /\ sock'[f] = c /\ \A g \in Fds \ {f} : sock'[g] = sock[g]
        /\ armed'[f] = "IN" /\ \A g \in Fds \ {f} : armed'[g] = armed[g]
        /\ UNCHANGED <<rx, ev, m_workqueue, answer, m_read_ret>>
    BY <2>2, <2>3 DEF RegisterAt, InitConn, TypeOK, KernelTypes
  <2>5. /\ m_read_buf'[f] = <<>> /\ m_checked_index'[f] = 0
        /\ \A g \in Fds \ {f} : /\ m_read_buf'[g] = m_read_buf[g]
                                /\ m_checked_index'[g] = m_checked_index[g]
                                /\ m_io_state'[g] = m_io_state[g]
    BY <2>2 DEF RegisterAt, InitConn, TypeOK, ConnTypes
  <2>6. Serves(f, c)'
    <3>1. ~Prepared(f)'
      <4>1. ev[f] = "NONE" /\ ~Queued(f) /\ \A w \in Workers : ~Owns(w, f)
        BY <2>2 DEF ConnInv, BatchIsFresh, ExclInv
      <4>2. QED
        BY <1>1, <2>4, <4>1 DEF Prepared, Answering, Owns, Queued
    <3>2. inbox[c] = <<>> /\ rx[c] <= sent[c] /\ rx[c] \in Nat
      BY <2>3 DEF PlaceInv, TypeOK, ClientTypes
    <3>3. Segments * 0 = 0
      BY ReactorAssumption
    <3>4. QED
      BY <1>1, <2>4, <2>5, <3>1, <3>2, <3>3 DEF Serves
  <2>7. ASSUME NEW g \in Fds \ {f}, sock[g] # NoClient
        PROVE  Serves(g, sock[g])'
    <3>1. Prepared(g)' => Prepared(g)
      BY <1>1, <2>4, <2>5 DEF Prepared, Answering, Queued
    <3>2. QED
      BY <1>1, <1>3, <2>4, <2>5, <2>7, <3>1, ServesFrame
  <2>8. QED
    BY <1>2, <2>4, <2>6, <2>7 DEF AnswerInv, ServeInv
<1>8. CASE AcceptBusy
  <2> DEFINE c == Head(backlog)
  <2>1. /\ backlog # <<>> /\ rx' = [rx EXCEPT ![c] = 0]
        /\ UNCHANGED <<sock, connVars, m_workqueue, armed, ev>>
    BY <1>8 DEF AcceptBusy, CanAccept
  <2>2. c \in Clients /\ phase[c] = "queued"
    BY <2>1, BacklogTail
  <2>3. \A f \in Fds : sock[f] # NoClient => rx'[sock[f]] = rx[sock[f]]
    BY <1>3, <2>1, <2>2 DEF PlaceInv, TypeOK, ClientTypes
  <2>4. \A f \in Fds : Prepared(f)' => Prepared(f)
    BY <1>1, <2>1 DEF Prepared, Answering, Queued, connVars
  <2>5. QED
    BY <1>1, <1>2, <1>3, <2>1, <2>3, <2>4, ServesFrame
    DEF AnswerInv, ServeInv, connVars
<1>9. ASSUME NEW f \in Fds, CloseFd(f), sock[f] # NoClient,
             UNCHANGED <<m_io_state, m_read_buf, m_checked_index, m_read_ret,
                         answer, m_workqueue>>,
             \A g \in Fds : ev'[g] \in {"NONE", ev[g]}
      PROVE  ServeInv'
  <2>1. /\ sock'[f] = NoClient /\ \A g \in Fds \ {f} : sock'[g] = sock[g]
        /\ \A g \in Fds \ {f} : armed'[g] = armed[g]
        /\ \A d \in Clients \ {sock[f]} : rx'[d] = rx[d]
    BY <1>9 DEF CloseFd, TypeOK, KernelTypes, ClientTypes
  <2>2. \A g \in Fds \ {f} : Prepared(g)' => Prepared(g)
    BY <1>1, <1>9, <2>1 DEF Prepared, Answering, Queued
  <2>3. \A g \in Fds \ {f} : sock[g] # NoClient =>
                               sock[g] \in Clients \ {sock[f]}
    BY <1>3, <1>9 DEF PlaceInv
  <2>4. QED
    BY <1>1, <1>3, <1>9, <2>1, <2>2, <2>3, ServesFrame DEF ServeInv
<1>10. ASSUME NEW f \in Fds, HandleHup(f)
       PROVE  ServeInv'
  <2>1. m_sockfd[f] = f /\ sock[f] # NoClient
    BY <1>10 DEF HandleHup, ConnInv, BatchIsFresh
  <2>2. CloseFd(f)
    BY <1>10, <2>1, ReactorAssumption DEF HandleHup, CloseConn
  <2>3. QED
    BY <1>9, <1>10, <2>1, <2>2 DEF HandleHup, TypeOK, MainTypes
<1>11. ASSUME NEW f \in Fds, TickExpire(f)
       PROVE  ServeInv'
  <2>1. UNCHANGED <<m_workqueue, connVars, ev>>
    BY <1>11 DEF TickExpire
  <2>2. CASE timer[f] = "live"
    <3>1. CloseFd(f) /\ sock[f] # NoClient
      BY <1>11, <2>2 DEF TickExpire, CbFunc, ConnInv, TimerOwnsSocket
    <3>2. QED
      BY <1>9, <2>1, <3>1 DEF connVars
  <2>3. CASE timer[f] # "live"
    BY <1>4, <1>11, <2>1, <2>3 DEF TickExpire, clientVars, Prepared
  <2>4. QED
    BY <2>2, <2>3
<1>12. ASSUME NEW f \in Fds, NEW e \in {"IN", "OUT"}, NEW s,
              HandleIO(f, e, s), s = IF e = "IN" THEN "READ" ELSE "WRITE"
       PROVE  ServeInv'
  <2>1. /\ ev[f] = e /\ ev'[f] = "NONE"
        /\ m_io_state'[f] = s
        /\ \A g \in Fds \ {f} : ev'[g] = ev[g]
                                /\ m_io_state'[g] = m_io_state[g]
        /\ UNCHANGED <<armed, sock, rx, m_read_buf, m_checked_index,
                       m_read_ret, answer>>
        /\ m_workqueue' = m_workqueue \/ m_workqueue' = Append(m_workqueue, f)
    BY <1>12 DEF HandleIO, AppendRequest, kernelVars, clientVars, TypeOK,
       MainTypes, ConnTypes
  <2>2. /\ ~Queued(f) /\ armed[f] = "off" /\ \A w \in Workers : ~Owns(w, f)
    BY <2>1 DEF ExclInv
  <2>3. \A g \in Fds \ {f} : Queued(g)' => Queued(g)
    BY <2>1, <2>2, QueueAppend DEF Queued
  <2>4. \A g \in Fds \ {f} : Prepared(g)' => Prepared(g)
    BY <1>1, <2>1, <2>3 DEF Prepared, Answering
  <2>5. Prepared(f)' => Prepared(f)
    <3>1. CASE e = "OUT"
      BY <2>1, <3>1 DEF Prepared
    <3>2. CASE e = "IN"
      BY <1>1, <1>12, <2>1, <2>2, <3>2 DEF Prepared, Answering, Owns
    <3>3. QED
      BY <3>1, <3>2
  <2>6. QED
    BY <1>1, <1>3, <2>1, <2>4, <2>5, ServesFrame DEF ServeInv
<1>13. QED
  BY <1>2, <1>5, <1>6, <1>7, <1>8, <1>10, <1>11, <1>12 DEF Main, AnswerInv

\* Nobody but the worker that has a connection prepares anything for it.
LEMMA OwnerPrepares ==
  ASSUME ExclInv, NEW w \in Workers, NEW f \in Fds, Owns(w, f),
         UNCHANGED <<ev, m_workqueue>>,
         \A v \in Workers \ {w} : wobj'[v] = wobj[v] /\ wpc'[v] = wpc[v]
  PROVE  Prepared(f)' => armed'[f] = "OUT" \/ Answering(w, f)'
BY DEF ExclInv, Prepared, Answering, Owns, Queued

\* The connections a worker does not hold.
LEMMA OthersServed ==
  ASSUME TypeOK, NEW w \in Workers, NEW f \in Fds, Serves(f, sock[f]),
         f # wobj[w],
         UNCHANGED <<ev, m_workqueue, sock, sent, m_io_state>>,
         \A v \in Workers \ {w} : wobj'[v] = wobj[v] /\ wpc'[v] = wpc[v],
         wobj'[w] \in {wobj[w], -1},
         armed'[f] = armed[f],
         m_read_ret'[f] = m_read_ret[f],
         m_read_buf'[f] = m_read_buf[f],
         m_checked_index'[f] = m_checked_index[f],
         answer'[f] = answer[f],
         inbox'[sock[f]] = inbox[sock[f]],
         rx'[sock[f]] = rx[sock[f]]
  PROVE  Serves(f, sock[f])'
<1>1. ~Answering(w, f)'
  BY ReactorAssumption DEF Answering
<1>2. Prepared(f)' => Prepared(f)
  BY <1>1 DEF Prepared, Answering, Queued
<1>3. QED
  BY <1>2, ServesFrame

\* The steps that leave data, responses and clients alone.
LEMMA AnswerPlain ==
  ASSUME TypeOK, ConnInv, ExclInv, AnswerInv, NEW w \in Workers,
         NEW pc \in WorkerPcs, Goto(w, pc), NEW f \in Fds, Owns(w, f),
         UNCHANGED <<ev, m_workqueue, sock, m_sockfd, m_io_state>>,
         UNCHANGED <<sent, rx, inbox, m_read_buf, m_checked_index>>,
         \A g \in Fds \ {f} : /\ m_read_ret'[g] = m_read_ret[g]
                              /\ answer'[g] = answer[g]
                              /\ armed'[g] = armed[g],
         Prepared(f)' => Prepared(f) /\ answer'[f] = answer[f]
  PROVE  AnswerInv'
<1>1. OwnAnswers'
  BY DEF AnswerInv, OwnAnswers
<1>2. /\ \A v \in Workers \ {w} : wobj'[v] = wobj[v] /\ wpc'[v] = wpc[v]
      /\ wobj'[w] \in {f, -1}
  BY DEF Goto, Owns, TypeOK, WorkerTypes
<1>3. \A g \in Fds : sock[g] # NoClient => Serves(g, sock[g])
  BY DEF AnswerInv, ServeInv
<1>4. \A g \in Fds \ {f} : sock[g] # NoClient => Serves(g, sock[g])'
  BY <1>2, <1>3, OthersServed DEF Owns
<1>5. ASSUME sock[f] # NoClient PROVE Serves(f, sock[f])'
  <2>1. Serves(f, sock[f])
    BY <1>3, <1>5
  <2>2. QED
    BY <2>1 DEF Serves
<1>6. QED
  BY <1>1, <1>4, <1>5 DEF AnswerInv, ServeInv

LEMMA AnswerRecv ==
  ASSUME TypeOK, ConnInv, ExclInv, PlaceInv, AnswerInv, NEW w \in Workers,
         RecvData(w)
  PROVE  AnswerInv'
<1>1. wpc[w] = "exec" /\ wobj[w] \in Fds /\ CanRead(wobj[w])
  BY WorkerHolds DEF RecvData
<1>2. PICK f \in Fds : f = wobj[w]
  BY <1>1
<1>3. m_sockfd[f] = f /\ sock[f] # NoClient /\ m_io_state[f] = "READ"
  BY <1>1, <1>2 DEF CanRead, Live, ConnInv, OwnDescriptor
<1>4. PICK c \in Clients : c = sock[f]
  BY <1>3 DEF TypeOK, KernelTypes
<1> DEFINE b == m_read_buf[f]
           room == BufferSize - Len(b)
           n == Smaller(rx[c], room)
           piece == [i \in 1..n |-> c]
<1>5. b \in Seq(Clients) /\ Len(b) \in Nat /\ rx[c] \in Nat
  BY DEF TypeOK, ConnTypes, ClientTypes
<1>6. n \in Nat /\ n <= rx[c]
  BY <1>1, <1>2, <1>5, ReactorAssumption DEF CanRead, Smaller
<1>7. /\ m_read_buf'[f] = b \o piece
      /\ \A g \in Fds \ {f} : m_read_buf'[g] = m_read_buf[g]
      /\ rx'[c] = rx[c] - n /\ \A d \in Clients \ {c} : rx'[d] = rx[d]
      /\ Goto(w, "respond") \/ Goto(w, "parse")
      /\ UNCHANGED <<sent, inbox, armed, sock, ev, m_workqueue, m_io_state,
                     m_read_ret, m_checked_index, answer>>
  BY <1>2, <1>3, <1>4 DEF RecvData, TypeOK, ConnTypes, ClientTypes,
     kernelVars, mainVars
<1> HIDE DEF n
<1>8. Len(b \o piece) = Len(b) + n
  BY <1>5, <1>6
<1>9. \A i \in 1..(Len(b) + n) :
        (b \o piece)[i] = IF i <= Len(b) THEN b[i] ELSE c
  BY <1>5, <1>6
<1>10. OwnAnswers'
  BY <1>7 DEF AnswerInv, OwnAnswers
<1>11. /\ \A v \in Workers \ {w} : wobj'[v] = wobj[v] /\ wpc'[v] = wpc[v]
       /\ wobj'[w] = f /\ wpc'[w] \in {"respond", "parse"}
  BY <1>1, <1>2, <1>7 DEF Goto, TypeOK, WorkerTypes
<1>12. Serves(f, c)'
  <2>1. Serves(f, c)
    BY <1>3, <1>4 DEF AnswerInv, ServeInv
  <2>2. ~Prepared(f)'
    <3>1. armed[f] = "off" /\ ev[f] = "NONE" /\ ~Queued(f)
          /\ \A v \in Workers \ {w} : ~Owns(v, f)
      BY <1>1, <1>2 DEF ExclInv, Owns
    <3>2. QED
      BY <1>3, <1>7, <1>11, <3>1 DEF Prepared, Answering, Owns, Queued
  <2>3. \A i \in 1..(Len(b) + n) : (b \o piece)[i] = c
    <3>1. \A i \in 1..Len(b) : b[i] = c
      BY <2>1 DEF Serves
    <3>2. \A i \in 1..(Len(b) + n) : i <= Len(b) => i \in 1..Len(b)
      BY <1>5, <1>6
    <3> HIDE DEF b, piece
    <3>3. QED
      BY <1>9, <3>1, <3>2
  <2>4. m_checked_index[f] \in Nat /\ sent[c] \in Nat
    BY DEF TypeOK, ConnTypes, ClientTypes
  <2>5. /\ Len(b) + n + (rx[c] - n) <= sent[c]
        /\ m_checked_index[f] <= Len(b) + n
    BY <1>5, <1>6, <2>1, <2>4 DEF Serves
  <2>6. QED
    BY <1>7, <1>8, <2>1, <2>2, <2>3, <2>5 DEF Serves
<1>13. ASSUME NEW g \in Fds \ {f}, sock[g] # NoClient
       PROVE  Serves(g, sock[g])'
  <2>1. sock[g] \in Clients \ {c} /\ Serves(g, sock[g])
    BY <1>3, <1>4, <1>13 DEF PlaceInv, TypeOK, KernelTypes, AnswerInv, ServeInv
  <2>2. QED
    BY <1>2, <1>7, <1>11, <2>1, OthersServed
<1>14. QED
  BY <1>4, <1>7, <1>10, <1>12, <1>13 DEF AnswerInv, ServeInv

LEMMA AnswerParse ==
  ASSUME TypeOK, ConnInv, ExclInv, PlaceInv, AnswerInv, NEW w \in Workers,
         ParseRequest(w)
  PROVE  AnswerInv'
<1>1. /\ wpc[w] = "parse" /\ wobj[w] \in Fds /\ Complete(wobj[w])
      /\ Owns(w, wobj[w])
  BY WorkerHolds DEF ParseRequest, Owns
<1>2. PICK f \in Fds : f = wobj[w]
  BY <1>1
<1>3. sock[f] # NoClient
  BY <1>1, <1>2 DEF ExclInv
<1>4. PICK c \in Clients : c = sock[f]
  BY <1>3 DEF TypeOK, KernelTypes
<1>5. Serves(f, c)
  BY <1>3, <1>4 DEF AnswerInv, ServeInv
<1>6. /\ m_read_buf[f] \in Seq(Clients) /\ Len(m_read_buf[f]) \in Nat
      /\ m_checked_index[f] \in Nat /\ Len(inbox[c]) \in Nat
  BY DEF TypeOK, ConnTypes, ClientTypes
<1>7. m_read_buf[f][m_checked_index[f] + 1] = c
  BY <1>1, <1>2, <1>5, <1>6, ReactorAssumption DEF Complete, Serves
<1>8. /\ m_checked_index'[f] = m_checked_index[f] + Segments
      /\ answer'[f] = c
      /\ \A g \in Fds \ {f} : /\ m_checked_index'[g] = m_checked_index[g]
                              /\ answer'[g] = answer[g]
                              /\ m_read_ret'[g] = m_read_ret[g]
      /\ Goto(w, "rearm")
      /\ UNCHANGED <<sent, inbox, rx, armed, sock, ev, m_workqueue,
                     m_io_state, m_read_buf>>
  BY <1>2, <1>7 DEF ParseRequest, TypeOK, ConnTypes, kernelVars, mainVars,
     clientVars
<1>9. Segments * (Len(inbox[c]) + 1) = Segments * Len(inbox[c]) + Segments
  BY <1>6, ReactorAssumption
<1>10. Segments * Len(inbox[c]) \in Nat /\ Segments \in Nat
  BY <1>6, ReactorAssumption
<1>11. OwnAnswers'
  BY <1>8 DEF AnswerInv, OwnAnswers
<1>12. Serves(f, c)'
  BY <1>1, <1>2, <1>5, <1>6, <1>8, <1>9, <1>10 DEF Serves, Complete
<1>13. /\ \A v \in Workers \ {w} : wobj'[v] = wobj[v] /\ wpc'[v] = wpc[v]
       /\ wobj'[w] = f
  BY <1>2, <1>8 DEF Goto, TypeOK, WorkerTypes
<1>14. ASSUME NEW g \in Fds \ {f}, sock[g] # NoClient
       PROVE  Serves(g, sock[g])'
  <2>1. Serves(g, sock[g])
    BY <1>14 DEF AnswerInv, ServeInv
  <2>2. QED
    BY <1>2, <1>8, <1>13, <2>1, OthersServed
<1>15. QED
  BY <1>4, <1>8, <1>11, <1>12, <1>14 DEF AnswerInv, ServeInv

LEMMA AnswerSent ==
  ASSUME TypeOK, ConnInv, ExclInv, PlaceInv, AnswerInv, NEW w \in Workers,
         WriteDone(w)
  PROVE  AnswerInv'
<1>1. wpc[w] = "write" /\ wobj[w] \in Fds /\ Live(wobj[w])
  BY WorkerHolds DEF WriteDone
<1>2. PICK f \in Fds : f = wobj[w]
  BY <1>1
<1>3. m_sockfd[f] = f /\ sock[f] # NoClient
  BY <1>1, <1>2 DEF Live, ConnInv, OwnDescriptor
<1>4. PICK c \in Clients : c = sock[f]
  BY <1>3 DEF TypeOK, KernelTypes
<1>5. /\ m_read_buf[f] \in Seq(Clients) /\ Len(m_read_buf[f]) \in Nat
      /\ m_checked_index[f] \in Nat /\ inbox[c] \in Seq(Clients \cup {NoClient})
      /\ Len(inbox[c]) \in Nat /\ sent[c] \in Nat /\ rx[c] \in Nat
  BY DEF TypeOK, ConnTypes, ClientTypes
<1>6. Serves(f, c) /\ Prepared(f)
  BY <1>1, <1>2, <1>3, <1>4 DEF AnswerInv, ServeInv, Prepared, Answering
<1>7. /\ inbox'[c] = Append(inbox[c], c)
      /\ \A d \in Clients \ {c} : inbox'[d] = inbox[d]
      /\ \A g \in Fds \ {f} : answer'[g] = answer[g]
      /\ Goto(w, "done")
      /\ UNCHANGED <<sent, rx, armed, sock, ev, m_workqueue, m_io_state,
                     m_read_buf, m_read_ret, m_checked_index>>
  BY <1>2, <1>3, <1>4, <1>6 DEF WriteDone, TypeOK, ConnTypes, ClientTypes,
     kernelVars, mainVars, Serves
<1>8. /\ Len(inbox'[c]) = Len(inbox[c]) + 1
      /\ \A i \in 1..Len(inbox'[c]) :
           inbox'[c][i] = IF i <= Len(inbox[c]) THEN inbox[c][i] ELSE c
  BY <1>5, <1>7
<1>9. Segments * Len(inbox'[c]) <= m_checked_index[f]
  BY <1>6, <1>8 DEF Serves
<1>10. Segments * Len(inbox'[c]) \in Nat
  BY <1>5, <1>8, ReactorAssumption
<1>11. OwnAnswers'
  <2>1. Segments * Len(inbox'[c]) <= sent[c]
    BY <1>5, <1>6, <1>9, <1>10 DEF Serves
  <2>2. \A i \in 1..Len(inbox'[c]) : inbox'[c][i] = c
    BY <1>5, <1>8 DEF AnswerInv, OwnAnswers
  <2>3. QED
    BY <1>7, <2>1, <2>2 DEF AnswerInv, OwnAnswers
<1>12. /\ \A v \in Workers \ {w} : wobj'[v] = wobj[v] /\ wpc'[v] = wpc[v]
       /\ wobj'[w] = f /\ wpc'[w] = "done"
  BY <1>2, <1>7 DEF Goto, TypeOK, WorkerTypes
<1>13. Serves(f, c)'
  <2>1. armed[f] = "off" /\ ev[f] = "NONE" /\ ~Queued(f)
        /\ \A v \in Workers \ {w} : ~Owns(v, f)
    BY <1>1, <1>2 DEF ExclInv, Owns
  <2>2. ~Prepared(f)'
    BY <1>7, <1>12, <2>1 DEF Prepared, Answering, Owns, Queued
  <2>3. QED
    BY <1>6, <1>7, <1>9, <2>2 DEF Serves
<1>14. ASSUME NEW g \in Fds \ {f}, sock[g] # NoClient
       PROVE  Serves(g, sock[g])'
  <2>1. sock[g] \in Clients \ {c} /\ Serves(g, sock[g])
    BY <1>3, <1>4, <1>14 DEF PlaceInv, TypeOK, KernelTypes, AnswerInv, ServeInv
  <2>2. QED
    BY <1>2, <1>7, <1>12, <2>1, OthersServed
<1>15. QED
  BY <1>4, <1>7, <1>11, <1>13, <1>14 DEF AnswerInv, ServeInv

LEMMA AnswerTake ==
  ASSUME TypeOK, ExclInv, AnswerInv, NEW w \in Workers, Take(w)
  PROVE  AnswerInv'
<1>1. PICK f \in Fds : f = Head(m_workqueue)
  BY QueueTail DEF Take
<1>2. /\ Queued(f) /\ \A g \in Fds : Queued(g)' => Queued(g)
      /\ wpc[w] = "idle" /\ wpc'[w] = "exec" /\ wobj'[w] = f
      /\ \A v \in Workers \ {w} : wobj'[v] = wobj[v] /\ wpc'[v] = wpc[v]
      /\ UNCHANGED <<clientVars, connVars, armed, sock, ev>>
  BY <1>1, QueueTail DEF Take, TypeOK, WorkerTypes, kernelVars, mainVars
<1>3. \A g \in Fds : Prepared(g)' => Prepared(g)
  BY <1>2 DEF Prepared, Answering, connVars
<1>4. OwnAnswers'
  BY <1>2 DEF AnswerInv, OwnAnswers, clientVars
<1>5. ASSUME NEW g \in Fds, sock[g] # NoClient
      PROVE  Serves(g, sock[g])'
  <2>1. Serves(g, sock[g])
    BY <1>5 DEF AnswerInv, ServeInv
  <2>2. QED
    BY <1>2, <1>3, <2>1 DEF Serves, clientVars, connVars
<1>6. QED
  BY <1>2, <1>4, <1>5 DEF AnswerInv, ServeInv

LEMMA AnswerWorker ==
  ASSUME TypeOK, ConnInv, ExclInv, PlainInv, PlaceInv, AnswerInv,
         NEW w \in Workers, Worker(w)
  PROVE  AnswerInv'
<1>1. UNCHANGED <<ev, sock, m_sockfd, sent>>
  BY WorkerFrame DEF mainVars
<1>2. CASE Take(w)
  BY <1>2, AnswerTake
<1>3. CASE RecvData(w)
  BY <1>3, AnswerRecv
<1>4. CASE ParseRequest(w)
  BY <1>4, AnswerParse
<1>5. CASE WriteDone(w)
  BY <1>5, AnswerSent
<1>6. CASE WriteNothing(w) \/ Reset(w)
  BY <1>6 DEF WriteNothing, Reset, PlainInv
<1>7. ASSUME NEW pc \in WorkerPcs, Goto(w, pc), wpc[w] # "idle",
             NEW f \in Fds, f = wobj[w]
      PROVE  /\ wpc'[w] = pc
             /\ \A v \in Workers \ {w} : wobj'[v] = wobj[v] /\ wpc'[v] = wpc[v]
  BY <1>7 DEF Goto, TypeOK, WorkerTypes
<1>8. CASE TestLinger(w)
  <2>1. PICK f \in Fds : f = wobj[w]
    BY <1>8, WorkerHolds DEF TestLinger
  <2>2. Goto(w, "idle") /\ wpc[w] = "linger"
    BY <1>8, <2>1 DEF TestLinger, PlainInv
  <2>3. /\ wpc'[w] = "idle"
        /\ \A v \in Workers \ {w} : wobj'[v] = wobj[v] /\ wpc'[v] = wpc[v]
    BY <1>7, <2>1, <2>2 DEF WorkerPcs
  <2>4. UNCHANGED <<clientVars, connVars, armed, m_workqueue>>
    BY <1>8 DEF TestLinger, kernelVars
  <2>5. \A g \in Fds : Prepared(g)' => Prepared(g)
    BY <1>1, <2>3, <2>4 DEF Prepared, Answering, Queued, connVars
  <2>6. ASSUME NEW g \in Fds, sock[g] # NoClient
        PROVE  Serves(g, sock[g])'
    <3>1. Serves(g, sock[g])
      BY <2>6 DEF AnswerInv, ServeInv
    <3>2. QED
      BY <1>1, <2>4, <2>5, <3>1 DEF Serves, clientVars, connVars
  <2>7. OwnAnswers'
    BY <2>4 DEF AnswerInv, OwnAnswers, clientVars
  <2>8. QED
    BY <1>1, <2>6, <2>7 DEF AnswerInv, ServeInv
<1>9. CASE \/ RecvNothing(w) \/ ParseMore(w) \/ Rearm(w) \/ Respond(w)
           \/ WriteFails(w) \/ WriteAgain(w) \/ AfterWrite(w)
  <2>1. PICK f \in Fds : f = wobj[w] /\ Owns(w, f)
    BY <1>9, WorkerHolds DEF RecvNothing, ParseMore, Rearm, Respond,
       WriteFails, WriteAgain, AfterWrite, Owns
  <2>2. /\ wpc[w] # "idle"
        /\ UNCHANGED <<m_workqueue, clientVars, m_io_state, m_read_buf,
                       m_checked_index>>
    BY <1>9 DEF RecvNothing, ParseMore, Rearm, Respond, WriteFails,
       WriteAgain, AfterWrite, connVars
  <2>3. armed[f] = "off" /\ sock[f] # NoClient
    BY <2>1 DEF ExclInv
  <2>4. ASSUME NEW pc \in WorkerPcs, Goto(w, pc),
               \A g \in Fds \ {f} : /\ m_read_ret'[g] = m_read_ret[g]
                                    /\ answer'[g] = answer[g]
                                    /\ armed'[g] = armed[g],
               armed'[f] = "OUT" \/ Answering(w, f)' =>
                 Prepared(f) /\ answer'[f] = answer[f]
        PROVE  AnswerInv'
    <3>1. Prepared(f)' => armed'[f] = "OUT" \/ Answering(w, f)'
      BY <1>1, <1>7, <2>1, <2>2, <2>4, OwnerPrepares
    <3>2. UNCHANGED <<rx, inbox>>
      BY <2>2 DEF clientVars
    <3>3. QED
      BY <1>1, <2>1, <2>2, <2>4, <3>1, <3>2, AnswerPlain
  <2>5. CASE RecvNothing(w) \/ WriteAgain(w) \/ Respond(w)
    <3>1. /\ UNCHANGED <<m_read_ret, answer, armed>>
          /\ \E pc \in WorkerPcs :
               /\ Goto(w, pc)
               /\ pc \in {"respond", "again", "write", "idle"}
               /\ pc = "respond" => wpc[w] = "exec"
               /\ pc = "again" => wpc[w] = "write"
               /\ pc = "write" => \/ wpc[w] = "again"
                                  \/ /\ wpc[w] = "respond"
                                     /\ m_io_state[f] = "WRITE"
      BY <2>1, <2>5 DEF RecvNothing, WriteAgain, Respond, connVars,
         kernelVars, WorkerPcs
    <3>2. PICK pc \in WorkerPcs :
            /\ Goto(w, pc)
            /\ pc \in {"respond", "again", "write", "idle"}
            /\ pc = "respond" => wpc[w] = "exec"
            /\ pc = "again" => wpc[w] = "write"
            /\ pc = "write" => \/ wpc[w] = "again"
                               \/ wpc[w] = "respond" /\ m_io_state[f] = "WRITE"
      BY <3>1
    <3>3. wpc'[w] = pc
      BY <1>7, <2>1, <2>2, <3>2
    <3>4. Answering(w, f)' => Answering(w, f)
      BY <2>1, <2>2, <3>2, <3>3 DEF Answering
    <3>5. QED
      BY <2>3, <2>4, <3>1, <3>2, <3>4 DEF Prepared
  <2>6. CASE ParseMore(w)
    <3>1. /\ Goto(w, "rearm") /\ UNCHANGED <<answer, armed>>
          /\ m_read_ret'[f] = "NO_REQUEST"
          /\ \A g \in Fds \ {f} : m_read_ret'[g] = m_read_ret[g]
      BY <2>1, <2>6 DEF ParseMore, kernelVars, TypeOK, ConnTypes
    <3>2. wpc'[w] = "rearm"
      BY <1>7, <2>1, <2>2, <3>1 DEF WorkerPcs
    <3>3. ~Answering(w, f)'
      BY <3>1, <3>2 DEF Answering
    <3>4. QED
      BY <2>3, <2>4, <3>1, <3>3 DEF WorkerPcs
  <2>7. CASE WriteFails(w)
    <3>1. /\ Goto(w, "idle") /\ UNCHANGED <<m_read_ret, armed>>
          /\ \A g \in Fds \ {f} : answer'[g] = answer[g]
      BY <2>1, <2>7 DEF WriteFails, kernelVars, TypeOK, ConnTypes
    <3>2. wpc'[w] = "idle"
      BY <1>7, <2>1, <2>2, <3>1 DEF WorkerPcs
    <3>3. ~Answering(w, f)'
      BY <3>2 DEF Answering
    <3>4. QED
      BY <2>3, <2>4, <3>1, <3>3 DEF WorkerPcs
  <2>8. CASE Rearm(w) \/ AfterWrite(w)
    <3>1. m_sockfd[f] = f
      BY <2>3 DEF ConnInv, OwnDescriptor
    <3>2. /\ Goto(w, "idle") \/ Goto(w, "linger")
          /\ UNCHANGED <<m_read_ret, answer>>
          /\ \A g \in Fds \ {f} : armed'[g] = armed[g]
          /\ armed'[f] = "OUT" =>
               wpc[w] = "rearm" /\ m_read_ret[f] # "NO_REQUEST"
      <4>1. CASE Rearm(w)
        BY <2>1, <2>3, <3>1, <4>1 DEF Rearm, RearmFor, Modfd, connVars,
           TypeOK, KernelTypes
      <4>2. CASE AfterWrite(w)
        BY <2>1, <2>3, <3>1, <4>2 DEF AfterWrite, Modfd, connVars, TypeOK,
           KernelTypes
      <4>3. QED
        BY <2>8, <4>1, <4>2
    <3>3. wpc'[w] \in {"idle", "linger"}
      BY <1>7, <2>1, <2>2, <3>2 DEF WorkerPcs
    <3>4. ~Answering(w, f)'
      BY <3>3 DEF Answering
    <3>5. armed'[f] = "OUT" => Prepared(f)
      BY <2>1, <3>2 DEF Prepared, Answering
    <3>6. QED
      BY <2>4, <3>2, <3>4, <3>5 DEF WorkerPcs
  <2>9. QED
    BY <1>9, <2>5, <2>6, <2>7, <2>8
<1>10. QED
  BY <1>2, <1>3, <1>4, <1>5, <1>6, <1>8, <1>9 DEF Worker

LEMMA StepAnswer ==
  TypeOK /\ ConnInv /\ ExclInv /\ PlainInv /\ PlaceInv /\ AnswerInv
    /\ [Next]_vars => AnswerInv'
<1> SUFFICES ASSUME TypeOK, ConnInv, ExclInv, PlainInv, PlaceInv, AnswerInv,
                    [Next]_vars
             PROVE  AnswerInv'
  OBVIOUS
<1>1. CASE UNCHANGED vars
  BY <1>1 DEF vars, clientVars, kernelVars, mainVars, connVars, workerVars,
     AnswerInv, OwnAnswers, ServeInv, Serves, Prepared, Answering, Queued
<1>2. QED
  BY <1>1, AnswerEnvironment, AnswerMain, AnswerWorker DEF Next

LEMMA AnswerInvariant ==
  ASSUME KeepAlive = {}, ~Overrun
  PROVE  Spec => []AnswerInv
<1>1. Init => AnswerInv
  <2> SUFFICES ASSUME Init PROVE AnswerInv
    OBVIOUS
  <2>1. OwnAnswers
    <3>1. Segments * 0 = 0
      BY ReactorAssumption
    <3>2. QED
      BY <3>1 DEF Init, OwnAnswers
  <2>2. ServeInv
    BY DEF Init, ServeInv
  <2>3. QED
    BY <2>1, <2>2 DEF AnswerInv
<1>2. TypeOK /\ ConnInv /\ ExclInv /\ PlainInv /\ PlaceInv /\ AnswerInv
        /\ [Next]_vars => AnswerInv'
  BY StepAnswer
<1>3. Spec => []ExclInv /\ []PlainInv
  BY ExclusiveInvariant
<1>4. QED
  BY <1>1, <1>2, <1>3, TypeCorrect, ConnInvariant, PlaceInvariant, PTL
  DEF Spec

\* Every response reaches the client whose request it answers, and no request
\* is answered twice, if no client asks for keep-alive and no timer expires
\* under a worker: although init() leaves m_read_ret and the file address of
\* the last connection behind (http_conn.cpp 53-103, 712-783, 830-864).
THEOREM AnswersReachTheirClients ==
  ASSUME KeepAlive = {}, ~Overrun
  PROVE  Spec => []OwnAnswers
<1>1. AnswerInv => OwnAnswers
  BY DEF AnswerInv
<1>2. QED
  BY <1>1, AnswerInvariant, PTL


-----------------------------------------------------------------------------
(* The service, when no client asks for keep-alive and no timer expires    *)
(* under a worker.                                                         *)

Waiting(c) == \E i \in 1..Len(backlog) : backlog[i] = c

\* A client that waits is in the listen queue, one that is up is behind a
\* descriptor, only a client that has closed is reported as hung up, and each
\* sends one request.
WhereInv ==
  /\ \A c \in Clients : phase[c] = "queued" => Waiting(c)
  /\ \A c \in Clients : phase[c] = "up" => \E f \in Fds : sock[f] = c
  /\ \A f \in Fds : ev[f] = "HUP" => fin[sock[f]]
  /\ \A c \in Clients : sent[c] <= Segments

\* Who is not at the head of the queue waits on.
LEMMA WaitingTail ==
  ASSUME TypeOK, backlog # <<>>, backlog' = Tail(backlog),
         NEW c \in Clients \ {Head(backlog)}, Waiting(c)
  PROVE  Waiting(c)'
<1> DEFINE n == Len(backlog)
<1>1. backlog \in Seq(Clients) /\ n \in Nat \ {0} /\ Head(backlog) = backlog[1]
  BY DEF TypeOK, KernelTypes
<1>2. /\ Len(backlog') = n - 1
      /\ \A i \in 1..(n - 1) : backlog'[i] = backlog[i + 1]
  BY <1>1
<1>3. PICK i \in 1..n : backlog[i] = c
  BY DEF Waiting
<1>4. i - 1 \in 1..(n - 1) /\ (i - 1) + 1 = i
  BY <1>1, <1>3
<1>5. QED
  BY <1>2, <1>3, <1>4 DEF Waiting

LEMMA WhereClose ==
  ASSUME TypeOK, PlaceInv, WhereInv, NEW f \in Fds, CloseFd(f),
         sock[f] # NoClient, UNCHANGED <<backlog, sent>>,
         \A g \in Fds : ev'[g] \in {"NONE", ev[g]}, ev'[f] = "NONE"
  PROVE  WhereInv'
<1>1. PICK c \in Clients : c = sock[f]
  BY DEF TypeOK, KernelTypes
<1>2. /\ \A g \in Fds \ {f} : sock'[g] = sock[g]
      /\ phase'[c] = "gone" /\ \A d \in Clients \ {c} : phase'[d] = phase[d]
      /\ fin' = fin
  BY <1>1 DEF CloseFd, TypeOK, KernelTypes, ClientTypes
<1>3. \A d \in Clients : Waiting(d)' <=> Waiting(d)
  BY DEF Waiting
<1>4. QED
  BY <1>1, <1>2, <1>3 DEF WhereInv

LEMMA WhereEnvironment ==
  ASSUME KeepAlive = {}, TypeOK, ConnInv, WhereInv, Environment
  PROVE  WhereInv'
<1>1. UNCHANGED <<ev, sock>>
  BY EnvironmentFrame DEF mainVars
<1>2. ASSUME NEW c \in Clients, Connect(c)
      PROVE  WhereInv'
  <2>1. /\ phase'[c] = "queued" /\ \A d \in Clients \ {c} : phase'[d] = phase[d]
        /\ UNCHANGED <<fin, sent>>
    BY <1>2 DEF Connect, TypeOK, ClientTypes
  <2>2. /\ Len(backlog) \in Nat /\ Len(backlog') = Len(backlog) + 1
        /\ backlog'[Len(backlog) + 1] = c
        /\ \A i \in 1..Len(backlog) : backlog'[i] = backlog[i]
    BY <1>2 DEF Connect, TypeOK, KernelTypes
  <2>3. Waiting(c)' /\ \A d \in Clients : Waiting(d) => Waiting(d)'
    BY <2>2 DEF Waiting
  <2>4. QED
    BY <1>1, <2>1, <2>3 DEF WhereInv
<1>3. ASSUME NEW c \in Clients, SendSegment(c)
      PROVE  WhereInv'
  <2>1. /\ sent[c] < Segments /\ sent[c] \in Nat /\ sent'[c] = sent[c] + 1
        /\ \A d \in Clients \ {c} : sent'[d] = sent[d]
        /\ UNCHANGED <<phase, fin, backlog>>
    <3>1. Segments * 1 = Segments
      BY ReactorAssumption
    <3>2. QED
      BY <1>3, <3>1 DEF SendSegment, TypeOK, ClientTypes, kernelVars
  <2>2. \A d \in Clients : sent'[d] <= Segments
    BY <2>1, ReactorAssumption DEF WhereInv
  <2>3. QED
    BY <1>1, <2>1, <2>2 DEF WhereInv, Waiting
<1>4. ASSUME NEW c \in Clients, ClientClose(c) \/ SendBuffer(c)
      PROVE  WhereInv'
  <2>1. /\ UNCHANGED <<phase, sent, backlog>>
        /\ \A d \in Clients : fin[d] => fin'[d]
    BY <1>4 DEF ClientClose, SendBuffer, kernelVars, TypeOK, ClientTypes
  <2>2. \A f \in Fds : ev[f] = "HUP" => sock[f] \in Clients
    BY DEF ConnInv, BatchIsFresh, TypeOK, KernelTypes
  <2>3. QED
    BY <1>1, <2>1, <2>2 DEF WhereInv, Waiting
<1>5. CASE AlarmFires \/ SigTerm
  BY <1>1, <1>5 DEF AlarmFires, SigTerm, clientVars, WhereInv, Waiting
<1>6. QED
  BY <1>2, <1>3, <1>4, <1>5 DEF Environment

LEMMA WhereMain ==
  ASSUME TypeOK, ConnInv, PlaceInv, WhereInv, Main
  PROVE  WhereInv'
<1>1. UNCHANGED <<fin, sent>>
  BY MainFrame
<1>2. ASSUME UNCHANGED <<phase, backlog, sock>>,
             \A f \in Fds : ev'[f] = "HUP" => fin[sock[f]]
      PROVE  WhereInv'
  BY <1>1, <1>2 DEF WhereInv, Waiting
<1>3. CASE EpollWait
  <2>1. \A f \in Fds : ev'[f] = "HUP" => fin[sock[f]]
    BY <1>3 DEF EpollWait, EventOf
  <2>2. QED
    BY <1>2, <1>3, <2>1 DEF EpollWait, clientVars
<1>4. CASE HandleSignal \/ AcceptEnd \/ EndOfBatch \/ TickEnd
  BY <1>2, <1>4 DEF HandleSignal, AcceptEnd, EndOfBatch, TickEnd, clientVars,
     kernelVars, WhereInv
<1>5. CASE AcceptFirst \/ AcceptMore
  <2>1. CanAccept /\ \E f \in Free : RegisterAt(f)
    BY <1>5 DEF AcceptFirst, AcceptMore, Register
  <2>2. PICK f \in Fds : sock[f] = NoClient /\ RegisterAt(f)
    BY <2>1 DEF Free, Open
  <2>3. PICK c \in Clients : c = Head(backlog) /\ backlog # <<>>
    BY <2>1, BacklogTail DEF CanAccept
  <2>4. /\ sock'[f] = c /\ \A g \in Fds \ {f} : sock'[g] = sock[g]
        /\ phase'[c] = "up" /\ \A d \in Clients \ {c} : phase'[d] = phase[d]
        /\ ev' = ev /\ backlog' = Tail(backlog)
    BY <2>2, <2>3 DEF RegisterAt, TypeOK, KernelTypes, ClientTypes
  <2>5. \A d \in Clients \ {c} : Waiting(d) => Waiting(d)'
    BY <2>3, <2>4, WaitingTail
  <2>6. \A d \in Clients : sock[f] # d
    BY <2>2, ReactorAssumption
  <2>7. ev[f] = "NONE"
    BY <2>2 DEF ConnInv, BatchIsFresh
  <2>8. QED
    BY <1>1, <2>4, <2>5, <2>6, <2>7 DEF WhereInv
<1>6. CASE AcceptBusy
  <2>1. PICK c \in Clients : c = Head(backlog) /\ backlog # <<>>
    BY <1>6, BacklogTail DEF AcceptBusy, CanAccept
  <2>2. /\ phase'[c] = "gone" /\ \A d \in Clients \ {c} : phase'[d] = phase[d]
        /\ UNCHANGED <<ev, sock>> /\ backlog' = Tail(backlog)
    BY <1>6, <2>1 DEF AcceptBusy, TypeOK, ClientTypes
  <2>3. \A d \in Clients \ {c} : Waiting(d) => Waiting(d)'
    BY <2>1, <2>2, WaitingTail
  <2>4. QED
    BY <1>1, <2>2, <2>3 DEF WhereInv
<1>7. ASSUME NEW f \in Fds, HandleHup(f)
      PROVE  WhereInv'
  <2>1. m_sockfd[f] = f /\ sock[f] # NoClient
    BY <1>7 DEF HandleHup, ConnInv, BatchIsFresh
  <2>2. /\ CloseFd(f) /\ UNCHANGED backlog /\ ev'[f] = "NONE"
        /\ \A g \in Fds : ev'[g] \in {"NONE", ev[g]}
    BY <1>7, <2>1, ReactorAssumption DEF HandleHup, CloseConn, TypeOK,
       MainTypes
  <2>3. QED
    BY <1>1, <2>1, <2>2, WhereClose
<1>8. ASSUME NEW f \in Fds,
             HandleIO(f, "IN", "READ") \/ HandleIO(f, "OUT", "WRITE")
      PROVE  WhereInv'
  <2>1. /\ UNCHANGED <<phase, backlog, sock>>
        /\ \A g \in Fds : ev'[g] \in {"NONE", ev[g]}
    BY <1>8 DEF HandleIO, clientVars, kernelVars, TypeOK, MainTypes
  <2>2. QED
    BY <1>2, <2>1 DEF WhereInv
<1>9. ASSUME NEW f \in Fds, TickExpire(f)
      PROVE  WhereInv'
  <2>1. UNCHANGED <<backlog, ev>> /\ mpc = "tick"
    BY <1>9 DEF TickExpire
  <2>2. CASE timer[f] = "live"
    <3>1. CloseFd(f) /\ sock[f] # NoClient /\ ev[f] = "NONE"
      BY <1>9, <2>1, <2>2 DEF TickExpire, CbFunc, ConnInv, TimerOwnsSocket,
         BatchOver
    <3>2. QED
      BY <1>1, <2>1, <3>1, WhereClose
  <2>3. CASE timer[f] # "live"
    BY <1>2, <1>9, <2>3 DEF TickExpire, clientVars, WhereInv
  <2>4. QED
    BY <2>2, <2>3
<1>10. QED
  BY <1>3, <1>4, <1>5, <1>6, <1>7, <1>8, <1>9 DEF Main

LEMMA WhereInvariant == ASSUME KeepAlive = {} PROVE Spec => []WhereInv
<1>1. Init => WhereInv
  BY ReactorAssumption DEF Init, WhereInv
<1>2. TypeOK /\ ConnInv /\ PlaceInv /\ WhereInv /\ [Next]_vars => WhereInv'
  <2> SUFFICES ASSUME TypeOK, ConnInv, PlaceInv, WhereInv, [Next]_vars
               PROVE  WhereInv'
    OBVIOUS
  <2>1. CASE UNCHANGED vars
    BY <2>1 DEF vars, clientVars, kernelVars, mainVars, WhereInv, Waiting
  <2>2. ASSUME NEW w \in Workers, Worker(w)
        PROVE  WhereInv'
    BY <2>2, WorkerFrame DEF mainVars, WhereInv, Waiting
  <2>3. QED
    BY <2>1, <2>2, WhereEnvironment, WhereMain DEF Next
<1>3. QED
  BY <1>1, <1>2, TypeCorrect, ConnInvariant, PlaceInvariant, PTL DEF Spec

\* The worker is on its way to read from f, or to arm f for the rest of a
\* request.
Reads(w, f) ==
  /\ wobj[w] = f
  /\ \/ wpc[w] = "exec" /\ m_io_state[f] = "READ"
     \/ wpc[w] = "rearm" /\ m_read_ret[f] = "NO_REQUEST"

\* The rest of a request is waited for.
Listens(f) ==
  /\ Len(m_read_buf[f]) < Segments
  /\ \/ armed[f] = "IN" \/ ev[f] = "IN"
     \/ Queued(f) /\ m_io_state[f] = "READ"
     \/ \E w \in Workers : Reads(w, f)

Parses(f) == \E w \in Workers : wobj[w] = f /\ wpc[w] = "parse"

\* Somebody sees to f: its request is read, or parsed, or answered.
Attended(f) ==
  \/ m_checked_index[f] = 0 /\ (Listens(f) \/ Parses(f))
  \/ m_read_ret[f] \in Answered /\ Prepared(f)

\* Nothing of what c has sent is lost, and c is seen to until it has an answer.
Keeps(f, c) ==
  /\ Len(m_read_buf[f]) + rx[c] = sent[c]
  /\ fin[c] \/ inbox[c] # <<>> \/ Attended(f)

StayInv ==
  /\ \A c \in Clients : ~full[c]
  /\ \A c \in Clients : phase[c] \in {"idle", "queued"} => rx[c] = sent[c]
  /\ \A f \in Fds : sock[f] # NoClient => Keeps(f, sock[f])

LEMMA AttendedFrame ==
  ASSUME NEW f, Attended(f),
         UNCHANGED <<armed[f], ev[f], m_io_state[f], m_read_buf[f],
                     m_checked_index[f], m_read_ret[f]>>,
         Queued(f) => Queued(f)',
         \A w \in Workers : Owns(w, f) => wobj'[w] = f /\ wpc'[w] = wpc[w]
  PROVE  Attended(f)'
<1>1. \A w \in Workers : /\ Reads(w, f) => Reads(w, f)'
                         /\ Answering(w, f) => Answering(w, f)'
  BY DEF Reads, Answering, Owns
<1>2. Listens(f) => Listens(f)'
  BY <1>1 DEF Listens
<1>3. Parses(f) => Parses(f)'
  BY DEF Parses, Owns
<1>4. Prepared(f) => Prepared(f)'
  BY <1>1 DEF Prepared
<1>5. QED
  BY <1>2, <1>3, <1>4 DEF Attended

LEMMA KeepsFrame ==
  ASSUME NEW f, NEW c, Keeps(f, c),
         UNCHANGED <<m_read_buf[f], rx[c], sent[c], inbox[c]>>,
         fin[c] => fin'[c],
         Attended(f) => Attended(f)' \/ fin'[c]
  PROVE  Keeps(f, c)'
BY DEF Keeps

LEMMA StayEnvironment ==
  ASSUME Steady, TypeOK, StayInv, Environment
  PROVE  StayInv'
<1>1. /\ UNCHANGED <<m_read_buf, m_checked_index, m_read_ret, m_io_state>>
      /\ UNCHANGED <<sock, armed, ev, m_workqueue, wobj, wpc>>
  BY EnvironmentFrame DEF mainVars, connVars, workerVars
<1>2. ASSUME NEW f \in Fds, Attended(f) PROVE Attended(f)'
  <2>1. Queued(f) => Queued(f)'
    BY <1>1 DEF Queued
  <2>2. \A w \in Workers : Owns(w, f) => wobj'[w] = f /\ wpc'[w] = wpc[w]
    BY <1>1 DEF Owns
  <2>3. QED
    BY <1>1, <1>2, <2>1, <2>2, AttendedFrame
<1>3. \A f \in Fds : sock[f] # NoClient => sock[f] \in Clients
  BY DEF TypeOK, KernelTypes
<1>4. /\ UNCHANGED <<inbox, full>>
      /\ \A c \in Clients : fin[c] => fin'[c]
  <2>1. \A c \in Clients : ~SendBuffer(c)
    BY DEF Steady, SendBuffer
  <2>2. UNCHANGED <<inbox, full>>
    BY <2>1 DEF Environment, Connect, SendSegment, ClientClose, AlarmFires,
       SigTerm, clientVars
  <2>3. UNCHANGED fin \/ \E c \in Clients : fin' = [fin EXCEPT ![c] = TRUE]
    BY <2>1 DEF Environment, Connect, SendSegment, ClientClose, AlarmFires,
       SigTerm, clientVars
  <2>4. QED
    BY <2>2, <2>3 DEF TypeOK, ClientTypes
<1>5. ASSUME UNCHANGED <<rx, sent>>,
             \A c \in Clients : phase'[c] \in {"idle", "queued"} =>
                                  phase[c] \in {"idle", "queued"}
      PROVE  StayInv'
  BY <1>1, <1>2, <1>3, <1>4, <1>5, KeepsFrame DEF StayInv
<1>6. ASSUME NEW c \in Clients, SendSegment(c)
      PROVE  StayInv'
  <2>1. /\ rx'[c] = rx[c] + 1 /\ sent'[c] = sent[c] + 1
        /\ rx[c] \in Nat /\ sent[c] \in Nat
        /\ \A d \in Clients \ {c} : rx'[d] = rx[d] /\ sent'[d] = sent[d]
        /\ UNCHANGED phase
    BY <1>6 DEF SendSegment, TypeOK, ClientTypes
  <2>2. ASSUME NEW f \in Fds, sock[f] # NoClient
        PROVE  Keeps(f, sock[f])'
    <3>1. Keeps(f, sock[f]) /\ sock[f] \in Clients
      BY <1>3, <2>2 DEF StayInv
    <3>2. CASE sock[f] # c
      BY <1>1, <1>2, <1>4, <2>1, <3>1, <3>2, KeepsFrame
    <3>3. CASE sock[f] = c
      <4>1. Len(m_read_buf[f]) \in Nat
        BY DEF TypeOK, ConnTypes
      <4>2. QED
        BY <1>1, <1>2, <1>4, <2>1, <3>1, <3>3, <4>1 DEF Keeps
    <3>4. QED
      BY <3>2, <3>3
  <2>3. QED
    BY <1>1, <1>4, <2>1, <2>2 DEF StayInv
<1>7. CASE ~\E c \in Clients : SendSegment(c)
  <2>1. UNCHANGED <<rx, sent>>
    BY <1>7 DEF Environment, Connect, ClientClose, SendBuffer, AlarmFires,
       SigTerm, clientVars
  <2>2. \A c \in Clients : phase'[c] \in {"idle", "queued"} =>
                             phase[c] \in {"idle", "queued"}
    BY <1>7 DEF Environment, Connect, ClientClose, SendBuffer, AlarmFires,
       SigTerm, clientVars, TypeOK, ClientTypes
  <2>3. QED
    BY <1>5, <2>1, <2>2
<1>8. QED
  BY <1>6, <1>7

\* Every connection is in the queue of tasks at most once, so that there is
\* room for one that is not in it.
LEMMA QueueRoom ==
  ASSUME Steady, TypeOK, ExclInv, NEW f \in Fds, ~Queued(f)
  PROVE  Len(m_workqueue) < MaxRequests
<1> DEFINE D == 1..Len(m_workqueue)
           h == [i \in D |-> m_workqueue[i]]
           n == Len(m_workqueue)
<1>1. n \in Nat /\ \A i \in D : m_workqueue[i] \in Fds \ {f}
  BY DEF TypeOK, MainTypes, Queued
<1>2. h \in Injection(D, Fds \ {f})
  BY <1>1 DEF ExclInv, Injection, IsInjective
<1>3. Cardinality(D) = n
  <2> HIDE DEF n
  <2>1. Cardinality(1..n) = IF 1 > n THEN 0 ELSE n - 1 + 1
    BY <1>1, FS_Interval
  <2>2. Cardinality(1..n) = n
    BY <1>1, <2>1
  <2>3. QED
    BY <2>2 DEF n
<1> HIDE DEF h, D
<1>4. /\ IsFiniteSet(Fds \ {f})
      /\ Cardinality(Fds \ {f}) = Cardinality(Fds) - 1
  BY ReactorAssumption, FS_RemoveElement
<1>5. n <= Cardinality(Fds \ {f})
  BY <1>2, <1>3, <1>4, FS_Injection
<1>6. Cardinality(Fds) \in Nat /\ Cardinality(Fds) <= MaxRequests
  BY ReactorAssumption, FS_CardinalityType DEF Steady
<1>7. QED
  BY <1>1, <1>4, <1>5, <1>6, ReactorAssumption

\* A connection the step does not touch.
LEMMA OthersKept ==
  ASSUME NEW f, NEW c, Keeps(f, c),
         UNCHANGED <<armed[f], ev[f], m_io_state[f], m_read_buf[f],
                     m_checked_index[f], m_read_ret[f]>>,
         UNCHANGED <<rx[c], sent[c], fin[c], inbox[c]>>,
         Queued(f) => Queued(f)',
         \A w \in Workers : Owns(w, f) => wobj'[w] = f /\ wpc'[w] = wpc[w]
  PROVE  Keeps(f, c)'
<1>1. Attended(f) => Attended(f)'
  BY AttendedFrame
<1>2. QED
  BY <1>1, KeepsFrame

\* What is armed is reported, unless the client has hung up.
LEMMA StayWait ==
  ASSUME Steady, TypeOK, ConnInv, StayInv, EpollWait, NEW f \in Fds,
         Attended(f), sock[f] # NoClient, ~fin[sock[f]]
  PROVE  Attended(f)'
<1>1. /\ ev[f] = "NONE" /\ ev'[f] = EventOf(f)
      /\ armed'[f] = IF EventOf(f) = "NONE" THEN armed[f] ELSE "off"
      /\ UNCHANGED <<m_io_state, m_read_buf, m_checked_index, m_read_ret>>
      /\ UNCHANGED <<m_workqueue, wobj, wpc>>
  BY DEF EpollWait, AfterReport, ConnInv, BatchOver, connVars, workerVars
<1>2. EventOf(f) \in {"NONE", armed[f]} /\ (armed[f] = "off" => EventOf(f) = "NONE")
  BY DEF EventOf
<1>3. armed[f] \in {"IN", "OUT"} => armed'[f] = armed[f] \/ ev'[f] = armed[f]
  BY <1>1, <1>2
<1>4. /\ Queued(f) => Queued(f)'
      /\ \A w \in Workers : /\ Reads(w, f) => Reads(w, f)'
                            /\ Answering(w, f) => Answering(w, f)'
  BY <1>1 DEF Queued, Reads, Answering
<1>5. Listens(f) => Listens(f)'
  BY <1>1, <1>3, <1>4 DEF Listens
<1>6. Parses(f) => Parses(f)'
  BY <1>1 DEF Parses
<1>7. Prepared(f) => Prepared(f)'
  BY <1>1, <1>3, <1>4 DEF Prepared
<1>8. QED
  BY <1>1, <1>5, <1>6, <1>7 DEF Attended

\* The task of an event finds room.
LEMMA StayIO ==
  ASSUME Steady, TypeOK, ExclInv, NEW f \in Fds, Attended(f),
         \/ HandleIO(f, "IN", "READ") \/ HandleIO(f, "OUT", "WRITE")
  PROVE  Attended(f)'
<1>1. ev[f] # "NONE"
  BY DEF HandleIO
<1>2. ~Queued(f) /\ armed[f] = "off" /\ \A w \in Workers : ~Owns(w, f)
  BY <1>1 DEF ExclInv
<1>3. /\ \A w \in Workers : ~Reads(w, f) /\ ~Answering(w, f)
      /\ ~Parses(f)
  BY <1>2 DEF Reads, Answering, Parses, Owns
<1>4. m_workqueue' = Append(m_workqueue, f)
  BY <1>2, QueueRoom DEF HandleIO, AppendRequest
<1>5. Queued(f)'
  BY <1>2, <1>4, QueueAppend
<1>6. UNCHANGED <<m_read_buf, m_checked_index, m_read_ret>>
  BY DEF HandleIO
<1>7. CASE HandleIO(f, "IN", "READ")
  <2>1. ev[f] = "IN" /\ m_io_state'[f] = "READ"
    BY <1>7 DEF HandleIO, TypeOK, ConnTypes
  <2>2. ~Prepared(f)
    BY <1>2, <1>3, <2>1 DEF Prepared
  <2>3. m_checked_index[f] = 0 /\ Len(m_read_buf[f]) < Segments
    BY <1>3, <2>2 DEF Attended, Listens
  <2>4. Listens(f)'
    BY <1>5, <1>6, <2>1, <2>3 DEF Listens
  <2>5. QED
    BY <1>6, <2>3, <2>4 DEF Attended
<1>8. CASE HandleIO(f, "OUT", "WRITE")
  <2>1. ev[f] = "OUT" /\ m_io_state'[f] = "WRITE"
    BY <1>8 DEF HandleIO, TypeOK, ConnTypes
  <2>2. ~Listens(f)
    BY <1>2, <1>3, <2>1 DEF Listens
  <2>3. m_read_ret[f] \in Answered
    BY <1>3, <2>2 DEF Attended
  <2>4. Prepared(f)'
    BY <1>5, <2>1 DEF Prepared
  <2>5. QED
    BY <1>6, <2>3, <2>4 DEF Attended
<1>9. QED
  BY <1>7, <1>8

LEMMA StayMain ==
  ASSUME Steady, TypeOK, ConnInv, ExclInv, PlaceInv, StayInv, Main
  PROVE  StayInv'
<1>1. UNCHANGED <<fin, full, sent, inbox, wobj, wpc>>
  BY MainFrame DEF workerVars
<1>2. \A f \in Fds : sock[f] # NoClient =>
        sock[f] \in Clients /\ phase[sock[f]] = "up" /\ Keeps(f, sock[f])
  BY DEF TypeOK, KernelTypes, PlaceInv, StayInv
<1>3. \A w \in Workers, f \in Fds :
        Owns(w, f) => wobj'[w] = f /\ wpc'[w] = wpc[w]
  BY <1>1 DEF Owns
<1>4. CASE EpollWait
  <2>1. UNCHANGED <<sock, rx, phase, m_read_buf>>
    BY <1>4 DEF EpollWait, clientVars, connVars
  <2>2. ASSUME NEW f \in Fds, sock[f] # NoClient
        PROVE  Keeps(f, sock[f])'
    <3>1. Attended(f) => Attended(f)' \/ fin[sock[f]]
      BY <1>4, <2>2, StayWait
    <3>2. QED
      BY <1>1, <1>2, <2>1, <2>2, <3>1, KeepsFrame
  <2>3. QED
    BY <1>1, <2>1, <2>2 DEF StayInv
<1>5. ASSUME UNCHANGED <<sock, rx, phase, armed, ev, m_workqueue, connVars>>
      PROVE  StayInv'
  <2>1. \A f \in Fds : Queued(f) => Queued(f)'
    BY <1>5 DEF Queued
  <2>2. ASSUME NEW f \in Fds, sock[f] # NoClient
        PROVE  Keeps(f, sock[f])'
    BY <1>1, <1>2, <1>3, <1>5, <2>1, <2>2, OthersKept DEF connVars
  <2>3. QED
    BY <1>1, <1>5, <2>2 DEF StayInv
<1>6. CASE HandleSignal \/ AcceptEnd \/ EndOfBatch \/ TickEnd
  BY <1>5, <1>6 DEF HandleSignal, AcceptEnd, EndOfBatch, TickEnd, clientVars,
     kernelVars
<1>7. CASE AcceptFirst \/ AcceptMore
  <2>1. CanAccept /\ \E f \in Free : RegisterAt(f)
    BY <1>7 DEF AcceptFirst, AcceptMore, Register
  <2>2. PICK f \in Fds : sock[f] = NoClient /\ RegisterAt(f)
    BY <2>1 DEF Free, Open
  <2>3. PICK c \in Clients : c = Head(backlog) /\ phase[c] = "queued"
    BY <2>1, BacklogTail DEF CanAccept
  <2>4. /\ sock'[f] = c /\ \A g \in Fds \ {f} : sock'[g] = sock[g]
        /\ armed'[f] = "IN" /\ \A g \in Fds \ {f} : armed'[g] = armed[g]
        /\ phase'[c] = "up" /\ \A d \in Clients \ {c} : phase'[d] = phase[d]
        /\ UNCHANGED <<rx, ev, m_workqueue, m_read_ret>>
    BY <2>2, <2>3 DEF RegisterAt, InitConn, TypeOK, KernelTypes, ClientTypes
  <2>5. /\ m_read_buf'[f] = <<>> /\ m_checked_index'[f] = 0
        /\ \A g \in Fds \ {f} : /\ m_read_buf'[g] = m_read_buf[g]
                                /\ m_checked_index'[g] = m_checked_index[g]
                                /\ m_io_state'[g] = m_io_state[g]
    BY <2>2 DEF RegisterAt, InitConn, TypeOK, ConnTypes
  <2>6. Keeps(f, c)'
    <3>1. rx[c] = sent[c] /\ rx[c] \in Nat
      BY <2>3 DEF StayInv, TypeOK, ClientTypes
    <3>2. Len(m_read_buf'[f]) = 0 /\ 0 < Segments
      BY <2>5, ReactorAssumption
    <3>3. Attended(f)'
      BY <2>4, <2>5, <3>2 DEF Attended, Listens
    <3>4. QED
      BY <1>1, <2>4, <3>1, <3>2, <3>3 DEF Keeps
  <2>7. \A g \in Fds : Queued(g) => Queued(g)'
    BY <2>4 DEF Queued
  <2>8. ASSUME NEW g \in Fds \ {f}, sock[g] # NoClient
        PROVE  Keeps(g, sock[g])'
    BY <1>1, <1>2, <1>3, <2>4, <2>5, <2>7, <2>8, OthersKept
  <2>9. QED
    BY <1>1, <2>4, <2>6, <2>8 DEF StayInv
<1>8. CASE AcceptBusy
  <2>1. PICK c \in Clients : c = Head(backlog) /\ phase[c] = "queued"
    BY <1>8, BacklogTail DEF AcceptBusy, CanAccept
  <2>2. /\ UNCHANGED <<sock, connVars, m_workqueue, armed, ev>>
        /\ phase'[c] = "gone"
        /\ \A d \in Clients \ {c} : phase'[d] = phase[d] /\ rx'[d] = rx[d]
    BY <1>8, <2>1 DEF AcceptBusy, TypeOK, ClientTypes
  <2>3. \A g \in Fds : Queued(g) => Queued(g)'
    BY <2>2 DEF Queued
  <2>4. ASSUME NEW g \in Fds, sock[g] # NoClient
        PROVE  Keeps(g, sock[g])'
    <3>1. rx'[sock[g]] = rx[sock[g]]
      BY <1>2, <2>1, <2>2, <2>4
    <3>2. QED
      BY <1>1, <1>2, <1>3, <2>2, <2>3, <2>4, <3>1, OthersKept DEF connVars
  <2>5. QED
    BY <1>1, <2>2, <2>4 DEF StayInv
<1>9. ASSUME NEW f \in Fds, CloseFd(f), sock[f] # NoClient,
             UNCHANGED <<m_io_state, m_read_buf, m_checked_index, m_read_ret,
                         m_workqueue>>,
             \A g \in Fds \ {f} : ev'[g] = ev[g]
      PROVE  StayInv'
  <2>1. PICK c \in Clients : c = sock[f]
    BY <1>2, <1>9
  <2>2. /\ sock'[f] = NoClient /\ \A g \in Fds \ {f} : sock'[g] = sock[g]
        /\ \A g \in Fds \ {f} : armed'[g] = armed[g]
        /\ phase'[c] = "gone"
        /\ \A d \in Clients \ {c} : phase'[d] = phase[d] /\ rx'[d] = rx[d]
    BY <1>9, <2>1 DEF CloseFd, TypeOK, KernelTypes, ClientTypes
  <2>3. \A g \in Fds : Queued(g) => Queued(g)'
    BY <1>9 DEF Queued
  <2>4. ASSUME NEW g \in Fds \ {f}, sock[g] # NoClient
        PROVE  Keeps(g, sock[g])'
    <3>1. sock[g] \in Clients \ {c}
      BY <1>2, <1>9, <2>1, <2>4 DEF PlaceInv
    <3>2. QED
      BY <1>1, <1>2, <1>3, <1>9, <2>2, <2>3, <2>4, <3>1, OthersKept
  <2>5. QED
    BY <1>1, <2>2, <2>4 DEF StayInv
<1>10. ASSUME NEW f \in Fds, HandleHup(f)
       PROVE  StayInv'
  <2>1. m_sockfd[f] = f /\ sock[f] # NoClient
    BY <1>10 DEF HandleHup, ConnInv, BatchIsFresh
  <2>2. CloseFd(f)
    BY <1>10, <2>1, ReactorAssumption DEF HandleHup, CloseConn
  <2>3. QED
    BY <1>9, <1>10, <2>1, <2>2 DEF HandleHup, TypeOK, MainTypes
<1>11. ASSUME NEW f \in Fds, TickExpire(f)
       PROVE  StayInv'
  <2>1. UNCHANGED <<m_workqueue, connVars, ev>>
    BY <1>11 DEF TickExpire
  <2>2. CASE timer[f] = "live"
    <3>1. CloseFd(f) /\ sock[f] # NoClient
      BY <1>11, <2>2 DEF TickExpire, CbFunc, ConnInv, TimerOwnsSocket
    <3>2. QED
      BY <1>9, <2>1, <3>1 DEF connVars
  <2>3. CASE timer[f] # "live"
    BY <1>5, <1>11, <2>1, <2>3 DEF TickExpire, clientVars
  <2>4. QED
    BY <2>2, <2>3
<1>12. ASSUME NEW f \in Fds,
              HandleIO(f, "IN", "READ") \/ HandleIO(f, "OUT", "WRITE")
       PROVE  StayInv'
  <2>1. /\ ev[f] # "NONE"
        /\ \A g \in Fds \ {f} : ev'[g] = ev[g]
                                /\ m_io_state'[g] = m_io_state[g]
        /\ UNCHANGED <<armed, sock, rx, phase, m_read_buf, m_checked_index,
                       m_read_ret>>
        /\ m_workqueue' = m_workqueue \/ m_workqueue' = Append(m_workqueue, f)
    BY <1>12 DEF HandleIO, AppendRequest, kernelVars, clientVars, TypeOK,
       MainTypes, ConnTypes
  <2>2. ~Queued(f)
    BY <2>1 DEF ExclInv
  <2>3. \A g \in Fds : Queued(g) => Queued(g)'
    BY <2>1, <2>2, QueueAppend DEF Queued
  <2>4. ASSUME NEW g \in Fds \ {f}, sock[g] # NoClient
        PROVE  Keeps(g, sock[g])'
    BY <1>1, <1>2, <1>3, <2>1, <2>3, <2>4, OthersKept
  <2>5. ASSUME sock[f] # NoClient
        PROVE  Keeps(f, sock[f])'
    <3>1. Attended(f) => Attended(f)'
      BY <1>12, StayIO
    <3>2. QED
      BY <1>1, <1>2, <2>1, <2>5, <3>1, KeepsFrame
  <2>6. QED
    BY <1>1, <2>1, <2>4, <2>5 DEF StayInv
<1>13. QED
  BY <1>4, <1>6, <1>7, <1>8, <1>10, <1>11, <1>12 DEF Main

\* What a worker that has a connection is about, if the client is seen to.
LEMMA OwnerSees ==
  ASSUME ExclInv, NEW w \in Workers, NEW f \in Fds, Owns(w, f), Attended(f)
  PROVE  \/ /\ m_checked_index[f] = 0
            /\ \/ Len(m_read_buf[f]) < Segments /\ Reads(w, f)
               \/ wpc[w] = "parse"
         \/ m_read_ret[f] \in Answered /\ Answering(w, f)
<1>1. armed[f] = "off" /\ ev[f] = "NONE" /\ ~Queued(f)
  BY DEF ExclInv
<1>2. \A v \in Workers : Owns(v, f) => v = w
  BY DEF ExclInv
<1>3. \A v \in Workers :
        Reads(v, f) \/ Answering(v, f) \/ (wobj[v] = f /\ wpc[v] = "parse")
          => v = w
  BY <1>2 DEF Reads, Answering, Owns
<1>4. Listens(f) => Len(m_read_buf[f]) < Segments /\ Reads(w, f)
  BY <1>1, <1>3 DEF Listens
<1>5. Parses(f) => wpc[w] = "parse"
  BY <1>3 DEF Parses
<1>6. Prepared(f) => Answering(w, f)
  BY <1>1, <1>3 DEF Prepared
<1>7. QED
  BY <1>4, <1>5, <1>6 DEF Attended

\* A worker changes its own connection only.
LEMMA StayOwner ==
  ASSUME TypeOK, PlaceInv, StayInv, NEW w \in Workers, Worker(w),
         NEW f \in Fds, Owns(w, f), NEW c \in Clients, c = sock[f],
         UNCHANGED <<m_workqueue, m_io_state>>,
         NEW pc \in WorkerPcs, Goto(w, pc),
         \A g \in Fds \ {f} : /\ armed'[g] = armed[g]
                              /\ m_read_ret'[g] = m_read_ret[g]
                              /\ m_read_buf'[g] = m_read_buf[g]
                              /\ m_checked_index'[g] = m_checked_index[g],
         \A d \in Clients \ {c} : rx'[d] = rx[d] /\ inbox'[d] = inbox[d],
         Len(m_read_buf'[f]) + rx'[c] = Len(m_read_buf[f]) + rx[c],
         inbox[c] # <<>> => inbox'[c] # <<>>,
         ~fin[c] /\ inbox[c] = <<>> /\ Attended(f) =>
           inbox'[c] # <<>> \/ Attended(f)'
  PROVE  StayInv'
<1>1. UNCHANGED <<ev, sock, phase, fin, full, sent>>
  BY WorkerFrame DEF mainVars
<1>2. \A g \in Fds : Queued(g) => Queued(g)'
  BY DEF Queued
<1>3. \A v \in Workers \ {w} : wobj'[v] = wobj[v] /\ wpc'[v] = wpc[v]
  BY DEF Goto, TypeOK, WorkerTypes
<1>4. c # NoClient /\ phase[c] = "up"
  BY ReactorAssumption DEF PlaceInv
<1>5. Keeps(f, c)'
  BY <1>1, <1>4 DEF StayInv, Keeps
<1>6. ASSUME NEW g \in Fds \ {f}, sock[g] # NoClient
      PROVE  Keeps(g, sock[g])'
  <2>1. sock[g] \in Clients \ {c} /\ Keeps(g, sock[g])
    BY <1>4, <1>6 DEF PlaceInv, TypeOK, KernelTypes, StayInv
  <2>2. \A v \in Workers : Owns(v, g) => wobj'[v] = g /\ wpc'[v] = wpc[v]
    BY <1>3 DEF Owns
  <2>3. QED
    BY <1>1, <1>2, <2>1, <2>2, OthersKept
<1>7. QED
  BY <1>1, <1>4, <1>5, <1>6 DEF StayInv

\* read() leaves room in the buffer, so what it returns is parsed.
LEMMA StayRecv ==
  ASSUME Steady, TypeOK, ConnInv, ExclInv, PlaceInv, WhereInv, StayInv,
         NEW w \in Workers, RecvData(w)
  PROVE  StayInv'
<1>1. wpc[w] = "exec" /\ wobj[w] \in Fds /\ CanRead(wobj[w])
  BY WorkerHolds DEF RecvData
<1>2. PICK f \in Fds : f = wobj[w] /\ Owns(w, f)
  BY <1>1 DEF Owns
<1>3. m_sockfd[f] = f /\ sock[f] # NoClient
  BY <1>1, <1>2 DEF CanRead, Live, ConnInv, OwnDescriptor
<1>4. PICK c \in Clients : c = sock[f]
  BY <1>3 DEF TypeOK, KernelTypes
<1> DEFINE b == m_read_buf[f]
           room == BufferSize - Len(b)
           n == Smaller(rx[c], room)
           piece == [i \in 1..n |-> c]
<1>5. /\ b \in Seq(Clients) /\ Len(b) \in Nat /\ rx[c] \in Nat
      /\ sent[c] \in Nat
  BY DEF TypeOK, ConnTypes, ClientTypes
<1>6. Len(b) + rx[c] = sent[c] /\ sent[c] <= Segments
  BY <1>3, <1>4 DEF StayInv, Keeps, WhereInv
<1>7. n = rx[c] /\ n # room /\ n \in Nat
  <2>1. Segments < BufferSize /\ Segments \in Nat /\ BufferSize \in Nat
    BY ReactorAssumption DEF Steady
  <2> HIDE DEF b
  <2>2. rx[c] < room
    BY <1>5, <1>6, <2>1
  <2> HIDE DEF room
  <2>3. QED
    BY <1>5, <2>2 DEF Smaller
<1>8. piece \in Seq(Clients) /\ Len(piece) = n
  BY <1>7
<1>9. /\ m_read_buf'[f] = b \o piece
      /\ rx'[c] = 0
      /\ \A g \in Fds \ {f} : m_read_buf'[g] = m_read_buf[g]
      /\ \A d \in Clients \ {c} : rx'[d] = rx[d]
      /\ Goto(w, IF fin[c] THEN "respond" ELSE "parse")
      /\ UNCHANGED <<m_workqueue, m_io_state, m_read_ret, m_checked_index>>
      /\ UNCHANGED <<inbox, armed>>
  <2>1. /\ m_read_buf' = [m_read_buf EXCEPT ![f] = b \o piece]
        /\ rx' = [rx EXCEPT ![c] = rx[c] - n]
        /\ Goto(w, IF n = room \/ fin[c] THEN "respond" ELSE "parse")
        /\ UNCHANGED <<m_workqueue, m_io_state, m_read_ret, m_checked_index>>
        /\ UNCHANGED <<inbox, armed>>
    BY <1>2, <1>3, <1>4 DEF RecvData, kernelVars
  <2> HIDE DEF n, room, piece
  <2>2. rx[c] - n = 0
    BY <1>5, <1>7
  <2> HIDE DEF b
  <2>3. rx'[c] = 0 /\ \A d \in Clients \ {c} : rx'[d] = rx[d]
    BY <1>4, <2>1, <2>2 DEF TypeOK, ClientTypes
  <2>4. /\ m_read_buf'[f] = b \o piece
        /\ \A g \in Fds \ {f} : m_read_buf'[g] = m_read_buf[g]
    BY <2>1 DEF TypeOK, ConnTypes
  <2>5. Goto(w, IF fin[c] THEN "respond" ELSE "parse")
    BY <1>7, <2>1
  <2>6. QED
    BY <2>1, <2>3, <2>4, <2>5
<1>10. Len(m_read_buf'[f]) + rx'[c] = Len(b) + rx[c]
  <2> HIDE DEF piece, n, b
  <2>1. Len(b \o piece) = Len(b) + n
    BY <1>5, <1>8
  <2>2. m_read_buf'[f] = b \o piece /\ rx'[c] = 0
    BY <1>9
  <2>3. Len(b) + n + 0 = Len(b) + rx[c]
    BY <1>5, <1>7
  <2>4. QED
    BY <2>1, <2>2, <2>3
<1>11. ASSUME ~fin[c], Attended(f)
       PROVE  Attended(f)'
  <2>1. ~Answering(w, f)
    BY <1>1, <1>2 DEF CanRead, Answering
  <2>2. m_checked_index[f] = 0
    BY <1>2, <1>11, <2>1, OwnerSees
  <2>3. wobj'[w] = f /\ wpc'[w] = "parse"
    BY <1>2, <1>9, <1>11 DEF Goto, TypeOK, WorkerTypes
  <2>4. Parses(f)'
    BY <2>3 DEF Parses
  <2>5. QED
    BY <1>9, <2>2, <2>4 DEF Attended
<1> DEFINE pc == IF fin[c] THEN "respond" ELSE "parse"
<1>12. pc \in WorkerPcs /\ Goto(w, pc) /\ Worker(w)
  BY <1>9 DEF WorkerPcs, Worker
<1>13. \A g \in Fds \ {f} : /\ armed'[g] = armed[g]
                             /\ m_read_ret'[g] = m_read_ret[g]
                             /\ m_read_buf'[g] = m_read_buf[g]
                             /\ m_checked_index'[g] = m_checked_index[g]
  BY <1>9
<1>14. Len(m_read_buf'[f]) + rx'[c] = Len(m_read_buf[f]) + rx[c]
  BY <1>10
<1>15. UNCHANGED <<m_workqueue, m_io_state, inbox>>
  BY <1>9
<1> HIDE DEF pc, b, piece, n, room
<1>16. QED
  BY <1>2, <1>4, <1>9, <1>11, <1>12, <1>13, <1>14, <1>15, StayOwner

LEMMA StayTake ==
  ASSUME TypeOK, ExclInv, StayInv, NEW w \in Workers, Take(w)
  PROVE  StayInv'
<1>1. PICK f \in Fds : f = Head(m_workqueue)
  BY QueueTail DEF Take
<1>2. /\ \A g \in Fds : Queued(g)' <=> Queued(g) /\ g # f
      /\ wpc[w] = "idle" /\ wpc'[w] = "exec" /\ wobj'[w] = f
      /\ \A v \in Workers \ {w} : wobj'[v] = wobj[v] /\ wpc'[v] = wpc[v]
      /\ UNCHANGED <<clientVars, connVars, armed, sock, ev>>
  BY <1>1, QueueTail DEF Take, TypeOK, WorkerTypes, kernelVars, mainVars
<1>3. wobj[w] = -1
  BY <1>2 DEF TypeOK, WorkerTypes
<1>4. \A v \in Workers, g \in Fds :
        Owns(v, g) => wobj'[v] = g /\ wpc'[v] = wpc[v]
  BY <1>2, <1>3, ReactorAssumption DEF Owns
<1>5. ASSUME NEW g \in Fds \ {f}, sock[g] # NoClient
      PROVE  Keeps(g, sock[g])'
  <2>1. Keeps(g, sock[g])
    BY <1>5 DEF StayInv
  <2>2. QED
    BY <1>2, <1>4, <1>5, <2>1, OthersKept DEF clientVars, connVars
<1>6. ASSUME sock[f] # NoClient
      PROVE  Keeps(f, sock[f])'
  <2>1. Keeps(f, sock[f])
    BY <1>6 DEF StayInv
  <2>2. /\ \A v \in Workers : /\ Reads(v, f) => Reads(v, f)'
                              /\ Answering(v, f) => Answering(v, f)'
        /\ Parses(f) => Parses(f)'
    BY <1>2, <1>3, <1>4, ReactorAssumption
    DEF Reads, Answering, Parses, Owns, connVars
  <2>3. /\ m_io_state[f] = "READ" => Reads(w, f)'
        /\ m_io_state[f] = "WRITE" => Answering(w, f)'
    BY <1>2 DEF Reads, Answering, connVars
  <2>4. Attended(f) => Attended(f)'
    BY <1>2, <2>2, <2>3 DEF Attended, Listens, Prepared, connVars
  <2>5. QED
    BY <1>2, <2>1, <2>4, KeepsFrame DEF clientVars, connVars
<1>7. QED
  BY <1>2, <1>5, <1>6 DEF StayInv, clientVars

LEMMA StayWorker ==
  ASSUME Steady, TypeOK, ConnInv, ExclInv, PlainInv, PlaceInv, WhereInv,
         StayInv, NEW w \in Workers, Worker(w)
  PROVE  StayInv'
<1>1. UNCHANGED <<ev, sock, m_sockfd, phase, fin, full, sent>>
  BY WorkerFrame DEF mainVars
<1>2. CASE Take(w)
  BY <1>2, StayTake
<1>3. CASE RecvData(w)
  BY <1>3, StayRecv
<1>4. CASE WriteNothing(w) \/ Reset(w)
  BY <1>4 DEF WriteNothing, Reset, PlainInv
<1>5. CASE TestLinger(w)
  <2>1. PICK f \in Fds : f = wobj[w]
    BY <1>5, WorkerHolds DEF TestLinger
  <2>2. /\ Goto(w, "idle") /\ wpc[w] = "linger"
        /\ UNCHANGED <<clientVars, connVars, armed, m_workqueue>>
    BY <1>5, <2>1 DEF TestLinger, PlainInv, kernelVars
  <2>3. \A v \in Workers \ {w} : wobj'[v] = wobj[v] /\ wpc'[v] = wpc[v]
    BY <2>2 DEF Goto, TypeOK, WorkerTypes
  <2>4. \A v \in Workers, g \in Fds :
          Owns(v, g) => wobj'[v] = g /\ wpc'[v] = wpc[v]
    BY <2>2, <2>3 DEF Owns
  <2>5. \A g \in Fds : Queued(g) => Queued(g)'
    BY <2>2 DEF Queued
  <2>6. ASSUME NEW g \in Fds, sock[g] # NoClient
        PROVE  Keeps(g, sock[g])'
    <3>1. Keeps(g, sock[g])
      BY <2>6 DEF StayInv
    <3>2. QED
      BY <1>1, <2>2, <2>4, <2>5, <3>1, OthersKept DEF clientVars, connVars
  <2>7. QED
    BY <1>1, <2>2, <2>6 DEF StayInv, clientVars
<1>6. CASE \/ RecvNothing(w) \/ ParseMore(w) \/ ParseRequest(w) \/ Rearm(w)
           \/ Respond(w) \/ WriteFails(w) \/ WriteAgain(w) \/ WriteDone(w)
           \/ AfterWrite(w)
  <2>1. PICK f \in Fds : f = wobj[w] /\ Owns(w, f)
    BY <1>6, WorkerHolds DEF RecvNothing, ParseMore, ParseRequest, Rearm,
       Respond, WriteFails, WriteAgain, WriteDone, AfterWrite, Owns
  <2>2. /\ wpc[w] # "idle"
        /\ UNCHANGED <<m_workqueue, m_io_state, m_read_buf, rx>>
    BY <1>6 DEF RecvNothing, ParseMore, ParseRequest, Rearm, Respond,
       WriteFails, WriteAgain, WriteDone, AfterWrite, connVars, clientVars
  <2>3. armed[f] = "off" /\ sock[f] # NoClient /\ m_sockfd[f] = f
    BY <2>1 DEF ExclInv, ConnInv, OwnDescriptor
  <2>4. PICK c \in Clients : c = sock[f]
    BY <2>3 DEF TypeOK, KernelTypes
  <2>5. ASSUME NEW pc \in WorkerPcs, Goto(w, pc)
        PROVE  /\ wpc'[w] = pc /\ (pc # "idle" => wobj'[w] = f)
               /\ \A v \in Workers \ {w} : wobj'[v] = wobj[v] /\ wpc'[v] = wpc[v]
    BY <2>1, <2>2, <2>5 DEF Goto, TypeOK, WorkerTypes
  <2>6. ASSUME NEW pc \in WorkerPcs, Goto(w, pc), UNCHANGED inbox,
               UNCHANGED m_checked_index,
               \A g \in Fds \ {f} : /\ armed'[g] = armed[g]
                                    /\ m_read_ret'[g] = m_read_ret[g],
               ~fin[c] /\ Attended(f) => Attended(f)'
        PROVE  StayInv'
    BY <2>1, <2>2, <2>4, <2>6, StayOwner
  <2>7. ~full[c] /\ Live(f)
    BY <2>3, <2>4, ReactorAssumption DEF StayInv, Live
  <2>8. CASE RecvNothing(w)
    <3>1. /\ Goto(w, "respond") /\ ~CanRead(f) /\ wpc[w] = "exec"
          /\ UNCHANGED <<inbox, m_checked_index, armed, m_read_ret>>
      BY <2>1, <2>8 DEF RecvNothing, clientVars, connVars, kernelVars
    <3>2. wpc'[w] = "respond" /\ wobj'[w] = f
      BY <2>5, <3>1 DEF WorkerPcs
    <3>3. ASSUME Attended(f) PROVE Attended(f)'
      <4>1. m_checked_index[f] \in Nat /\ Len(m_read_buf[f]) \in Nat
        BY DEF TypeOK, ConnTypes
      <4>2. ~(Len(m_read_buf[f]) < Segments /\ Reads(w, f))
        BY <2>7, <3>1, <4>1, ReactorAssumption DEF Reads, CanRead, Steady
      <4>3. m_read_ret[f] \in Answered /\ Answering(w, f)
        BY <2>1, <3>1, <3>3, <4>2, OwnerSees
      <4>4. Answering(w, f)'
        BY <2>2, <3>1, <3>2, <4>3 DEF Answering
      <4>5. QED
        BY <3>1, <4>3, <4>4 DEF Attended, Prepared
    <3>4. QED
      BY <2>6, <3>1, <3>3 DEF WorkerPcs
  <2>9. CASE ParseMore(w)
    <3>1. /\ Goto(w, "rearm") /\ ~Complete(f) /\ wpc[w] = "parse"
          /\ m_read_ret'[f] = "NO_REQUEST"
          /\ \A g \in Fds \ {f} : m_read_ret'[g] = m_read_ret[g]
          /\ UNCHANGED <<inbox, m_checked_index, armed>>
      BY <2>1, <2>9 DEF ParseMore, clientVars, kernelVars, TypeOK, ConnTypes
    <3>2. wpc'[w] = "rearm" /\ wobj'[w] = f
      BY <2>5, <3>1 DEF WorkerPcs
    <3>3. ASSUME Attended(f) PROVE Attended(f)'
      <4>1. ~Answering(w, f)
        BY <3>1 DEF Answering
      <4>2. m_checked_index[f] = 0
        BY <2>1, <3>3, <4>1, OwnerSees
      <4>3. Len(m_read_buf[f]) < Segments
        <5>1. Len(m_read_buf[f]) \in Nat
          BY DEF TypeOK, ConnTypes
        <5>2. QED
          BY <3>1, <4>2, <5>1, ReactorAssumption DEF Complete
      <4>4. Reads(w, f)'
        BY <3>1, <3>2 DEF Reads
      <4>5. Listens(f)'
        BY <2>2, <4>3, <4>4 DEF Listens
      <4>6. QED
        BY <3>1, <4>2, <4>5 DEF Attended
    <3>4. QED
      BY <2>6, <3>1, <3>3 DEF WorkerPcs
  <2>10. CASE ParseRequest(w)
    <3>1. /\ Goto(w, "rearm")
          /\ m_read_ret'[f] \in Outcomes
          /\ \A g \in Fds \ {f} : /\ m_read_ret'[g] = m_read_ret[g]
                                  /\ m_checked_index'[g] = m_checked_index[g]
          /\ UNCHANGED <<inbox, armed>>
      BY <2>1, <2>10 DEF ParseRequest, clientVars, kernelVars, TypeOK,
         ConnTypes
    <3>2. wpc'[w] = "rearm" /\ wobj'[w] = f
      BY <2>5, <3>1 DEF WorkerPcs
    <3>3. m_read_ret'[f] \in Answered /\ m_read_ret'[f] # "NO_REQUEST"
      BY <3>1 DEF Steady, Answered
    <3>4. Answering(w, f)'
      BY <3>2, <3>3 DEF Answering
    <3>5. Attended(f)'
      BY <3>3, <3>4 DEF Attended, Prepared
    <3>6. QED
      BY <2>1, <2>2, <2>4, <3>1, <3>5, StayOwner DEF WorkerPcs
  <2>11. CASE Rearm(w)
    <3>1. /\ Goto(w, "idle") /\ wpc[w] = "rearm"
          /\ RearmFor(f, m_read_ret[f])
          /\ UNCHANGED <<inbox, m_checked_index, m_read_ret>>
      BY <2>1, <2>11 DEF Rearm, clientVars, connVars
    <3>2. \A g \in Fds \ {f} : armed'[g] = armed[g]
      BY <2>3, <3>1 DEF RearmFor, Modfd, TypeOK, KernelTypes
    <3>3. /\ m_read_ret[f] = "NO_REQUEST" => armed'[f] = "IN"
          /\ m_read_ret[f] \in Answered => armed'[f] = "OUT"
      BY <2>3, <2>7, <3>1 DEF RearmFor, Modfd, TypeOK, KernelTypes, Answered
    <3>4. ASSUME Attended(f) PROVE Attended(f)'
      <4>1. CASE m_read_ret[f] \in Answered
        BY <3>1, <3>3, <4>1 DEF Attended, Prepared
      <4>2. CASE m_read_ret[f] \notin Answered
        <5>1. /\ m_checked_index[f] = 0 /\ Len(m_read_buf[f]) < Segments
              /\ Reads(w, f)
          BY <2>1, <3>1, <3>4, <4>2, OwnerSees
        <5>2. armed'[f] = "IN"
          BY <3>1, <3>3, <5>1 DEF Reads
        <5>3. QED
          BY <2>2, <3>1, <5>1, <5>2 DEF Attended, Listens
      <4>3. QED
        BY <4>1, <4>2
    <3>5. QED
      BY <2>6, <3>1, <3>2, <3>4 DEF WorkerPcs
  <2>12. CASE Respond(w) \/ WriteAgain(w)
    <3>1. /\ UNCHANGED <<inbox, m_checked_index, armed, m_read_ret>>
          /\ \E pc \in {"write", "idle", "again"} :
               /\ Goto(w, pc)
               /\ wpc[w] \in {"respond", "again", "write"}
               /\ \/ pc = "write"
                  \/ ~(m_io_state[f] = "WRITE" /\ m_read_ret[f] \in Answered)
                       /\ wpc[w] = "respond"
      BY <2>1, <2>3, <2>4, <2>7, <2>12 DEF Respond, WriteAgain, clientVars,
         connVars, kernelVars
    <3>2. PICK pc \in {"write", "idle", "again"} :
               /\ Goto(w, pc)
               /\ wpc[w] \in {"respond", "again", "write"}
               /\ \/ pc = "write"
                  \/ ~(m_io_state[f] = "WRITE" /\ m_read_ret[f] \in Answered)
                       /\ wpc[w] = "respond"
      BY <3>1
    <3>3. pc \in WorkerPcs
      BY DEF WorkerPcs
    <3>4. wpc'[w] = pc /\ (pc # "idle" => wobj'[w] = f)
      BY <2>5, <3>2, <3>3
    <3>5. ASSUME Attended(f) PROVE Attended(f)'
      <4>1. ~Reads(w, f) /\ wpc[w] # "parse"
        BY <3>2 DEF Reads
      <4>2. m_read_ret[f] \in Answered /\ Answering(w, f)
        BY <2>1, <3>5, <4>1, OwnerSees
      <4>3. pc = "write"
        BY <3>2, <4>2 DEF Answering
      <4>4. Answering(w, f)'
        BY <3>4, <4>3 DEF Answering
      <4>5. QED
        BY <3>1, <4>2, <4>4 DEF Attended, Prepared
    <3>6. QED
      BY <2>6, <3>1, <3>2, <3>3, <3>5
  <2>13. CASE WriteFails(w)
    <3>1. /\ Goto(w, "idle") /\ fin[c]
          /\ UNCHANGED <<inbox, m_checked_index, armed, m_read_ret>>
      BY <2>1, <2>3, <2>4, <2>7, <2>13 DEF WriteFails, clientVars, kernelVars
    <3>2. QED
      BY <2>6, <3>1 DEF WorkerPcs
  <2>14. CASE WriteDone(w)
    <3>1. /\ Goto(w, "done")
          /\ inbox'[c] = Append(inbox[c], answer[f])
          /\ \A d \in Clients \ {c} : inbox'[d] = inbox[d]
          /\ UNCHANGED <<m_checked_index, m_read_ret, armed>>
      BY <2>1, <2>3, <2>4, <2>14 DEF WriteDone, kernelVars, TypeOK, ClientTypes
    <3>2. inbox'[c] # <<>>
      <4>1. inbox[c] \in Seq(Clients \cup {NoClient})
        BY DEF TypeOK, ClientTypes
      <4>2. QED
        BY <3>1, <4>1
    <3>3. QED
      BY <2>1, <2>2, <2>4, <3>1, <3>2, StayOwner DEF WorkerPcs
  <2>15. CASE AfterWrite(w)
    <3>1. /\ Goto(w, "linger") /\ wpc[w] = "done" /\ Modfd(f, "IN")
          /\ UNCHANGED <<inbox, m_checked_index, m_read_ret>>
      BY <2>1, <2>15 DEF AfterWrite, clientVars, connVars
    <3>2. \A g \in Fds \ {f} : armed'[g] = armed[g]
      BY <2>3, <3>1 DEF Modfd, TypeOK, KernelTypes
    <3>3. ~Reads(w, f) /\ ~Answering(w, f)
      BY <3>1 DEF Reads, Answering
    <3>4. ~Attended(f)
      BY <2>1, <3>1, <3>3, OwnerSees
    <3>5. QED
      BY <2>6, <3>1, <3>2, <3>4 DEF WorkerPcs
  <2>16. QED
    BY <1>6, <2>8, <2>9, <2>10, <2>11, <2>12, <2>13, <2>14, <2>15
<1>7. QED
  BY <1>2, <1>3, <1>4, <1>5, <1>6 DEF Worker

LEMMA StayInvariant ==
  ASSUME Steady, KeepAlive = {}, ~Overrun
  PROVE  Spec => []StayInv
<1>1. Init => StayInv
  BY DEF Init, StayInv
<1>2. TypeOK /\ ConnInv /\ ExclInv /\ PlainInv /\ PlaceInv /\ WhereInv
        /\ StayInv /\ [Next]_vars => StayInv'
  <2> SUFFICES ASSUME TypeOK, ConnInv, ExclInv, PlainInv, PlaceInv, WhereInv,
                      StayInv, [Next]_vars
               PROVE  StayInv'
    OBVIOUS
  <2>1. CASE UNCHANGED vars
    BY <2>1 DEF vars, clientVars, kernelVars, mainVars, connVars, workerVars,
       StayInv, Keeps, Attended, Listens, Parses, Prepared, Reads, Answering,
       Queued
  <2>2. QED
    BY <2>1, StayEnvironment, StayMain, StayWorker DEF Next
<1>3. QED
  BY <1>1, <1>2, TypeCorrect, ConnInvariant, ExclusiveInvariant,
     PlaceInvariant, WhereInvariant, PTL DEF Spec

\* The requests sent in full, when each client sends one.
LEMMA OneRequest ==
  ASSUME NEW n \in Nat, n <= Segments
  PROVE  n \div Segments = IF n = Segments THEN 1 ELSE 0
<1>1. Segments \in Nat \ {0}
  BY ReactorAssumption
<1>2. n < Segments => n \div Segments = 0
  BY <1>1
<1>3. Segments \div Segments = 1
  BY <1>1
<1>4. QED
  BY <1>1, <1>2, <1>3

LEMMA ServiceStart == Init => Service!Init
<1> SUFFICES ASSUME Init PROVE Service!Init
  OBVIOUS
<1>1. Asked = [c \in Clients |-> 0]
  BY OneRequest, ReactorAssumption DEF Init, Asked
<1>2. Served = {} /\ Gone = {} /\ HungUp = {} /\ Taken = {}
  BY DEF Init, Served, Open, Gone, HungUp, Taken
<1>3. QED
  BY <1>1, <1>2 DEF Init, Service!Init

\* Each connected client has one descriptor.
LEMMA ServedCounted ==
  ASSUME TypeOK, PlaceInv
  PROVE  Cardinality(Served) = Cardinality(Open)
<1> DEFINE h == [f \in Open |-> sock[f]]
<1>1. h \in Bijection(Open, Served)
  BY DEF PlaceInv, Open, Served, Bijection, Injection, Surjection, IsInjective
<1>2. ExistsBijection(Open, Served)
  BY <1>1 DEF ExistsBijection
<1>3. QED
  BY <1>2, OpenIsFinite, FS_Bijection

LEMMA SameCardinality ==
  ASSUME NEW S
  PROVE  Service!Cardinality(S) = Cardinality(S)
BY Zenon DEF Service!Cardinality, Cardinality

\* Who waits or is connected, as the service sees it.
LEMMA Present ==
  ASSUME TypeOK, WhereInv, NEW c \in Clients, phase[c] \in {"queued", "up"}
  PROVE  Service!Waits(c) \/ c \in Served
<1>1. c # NoClient
  BY ReactorAssumption
<1>2. CASE phase[c] = "queued"
  BY <1>2 DEF WhereInv, Waiting, Service!Waits
<1>3. CASE phase[c] = "up"
  BY <1>1, <1>3 DEF WhereInv, Served, Open
<1>4. QED
  BY <1>2, <1>3

LEMMA OneFits ==
  ASSUME NEW n \in Nat, Segments * n <= Segments
  PROVE  n = 0 \/ n = 1
<1>1. Segments \in Nat \ {0}
  BY ReactorAssumption
<1>2. ASSUME n >= 2
      PROVE  FALSE
  <2>1. PICK k \in Nat : n = k + 2
    <3>1. n - 2 \in Nat /\ n = (n - 2) + 2
      BY <1>2
    <3>2. QED
      BY <3>1
  <2>2. Segments * n = Segments * k + Segments + Segments
    BY <1>1, <2>1
  <2>3. Segments * k >= 0
    BY <1>1
  <2>4. Segments * k \in Int
    BY <1>1
  <2>5. QED
    BY <1>1, <2>2, <2>3, <2>4
<1>3. QED
  BY <1>2

\* Steps the clients do not see.
LEMMA Unseen ==
  ASSUME UNCHANGED <<backlog, sock, phase, fin, sent, inbox, rx>>
  PROVE  UNCHANGED Service!vars
BY DEF Service!vars, Served, Open, Gone, HungUp, Asked, Taken

\* A request is taken up by reading and let go of by answering: nothing else
\* changes who is worked for.
LEMMA TakenFrame ==
  ASSUME TypeOK, Served' = Served,
         \A c \in Served : /\ sent'[c] - rx'[c] = sent[c] - rx[c]
                            /\ inbox'[c] = inbox[c]
  PROVE  Taken' = Taken
BY DEF Taken

\* Whose request is taken up has asked, and has had no answer.
LEMMA TakenAsked ==
  ASSUME TypeOK, NEW c \in Clients, sent[c] <= Segments,
         NEW n \in Nat, n >= Segments * (Len(inbox[c]) + 1), n <= sent[c]
  PROVE  Len(inbox[c]) = 0 /\ sent[c] = Segments /\ n = Segments /\ Asked[c] = 1
<1>1. /\ Len(inbox[c]) \in Nat /\ sent[c] \in Nat
      /\ Segments \in Nat \ {0}
  BY ReactorAssumption DEF TypeOK, ClientTypes
<1>2. Len(inbox[c]) + 1 \in Nat
  BY <1>1
<1>3. Segments * (Len(inbox[c]) + 1) \in Nat
  BY <1>1, <1>2
<1>4. Segments * (Len(inbox[c]) + 1) <= Segments
  BY <1>1, <1>3
<1>5. Len(inbox[c]) + 1 = 0 \/ Len(inbox[c]) + 1 = 1
  BY <1>2, <1>4, OneFits
<1>6. Len(inbox[c]) = 0
  BY <1>1, <1>5
<1>7. sent[c] = Segments /\ n = Segments
  BY <1>1, <1>6
<1>8. QED
  BY <1>1, <1>6, <1>7, OneRequest DEF Asked

LEMMA ServiceEnvironment ==
  ASSUME KeepAlive = {}, TypeOK, PlaceInv, WhereInv, Environment
  PROVE  [Service!Next]_(Service!vars)
<1>1. sock' = sock
  BY EnvironmentFrame
<1>2. Served' = Served
  BY <1>1 DEF Served, Open
<1>3. ASSUME NEW c \in Clients, Connect(c)
      PROVE  Service!Next
  <2>1. /\ phase[c] = "idle" /\ phase'[c] = "queued"
        /\ \A d \in Clients \ {c} : phase'[d] = phase[d]
        /\ backlog' = Append(backlog, c)
        /\ UNCHANGED <<fin, sent, inbox, rx>>
    BY <1>3 DEF Connect, TypeOK, ClientTypes
  <2>2. Gone' = Gone /\ HungUp' = HungUp /\ Asked' = Asked /\ Taken' = Taken
    BY <1>2, <2>1 DEF Gone, HungUp, Asked, Taken
  <2>3. ~Service!Waits(c) /\ c \notin Served \cup Gone
    BY <2>1 DEF Service!Waits, Served, Open, Gone, PlaceInv
  <2>4. Service!Connect(c)
    BY <1>2, <2>1, <2>2, <2>3 DEF Service!Connect
  <2>5. QED
    BY <2>4 DEF Service!Next
<1>4. ASSUME NEW c \in Clients, SendSegment(c)
      PROVE  [Service!Next]_(Service!vars)
  <2>1. /\ phase[c] \in {"queued", "up"} /\ ~fin[c]
        /\ sent[c] \in Nat /\ sent[c] < Segments /\ sent'[c] = sent[c] + 1
        /\ \A d \in Clients \ {c} : sent'[d] = sent[d]
        /\ UNCHANGED <<phase, fin, inbox, backlog>>
    <3>1. Segments * 1 = Segments
      BY ReactorAssumption
    <3>2. QED
      BY <1>4, <3>1 DEF SendSegment, TypeOK, ClientTypes, kernelVars
  <2>2. Gone' = Gone /\ HungUp' = HungUp /\ Taken' = Taken
    <3>1. /\ rx[c] \in Nat /\ rx'[c] = rx[c] + 1
          /\ \A d \in Clients \ {c} : rx'[d] = rx[d]
      BY <1>4 DEF SendSegment, TypeOK, ClientTypes
    <3>2. sent'[c] - rx'[c] = sent[c] - rx[c]
      BY <2>1, <3>1
    <3>3. \A d \in Served : d \in Clients
      BY DEF Served, Open, TypeOK, KernelTypes
    <3>4. Taken' = Taken
      BY <1>2, <2>1, <3>1, <3>2, <3>3, TakenFrame
    <3>5. QED
      BY <2>1, <3>4 DEF Gone, HungUp
  <2>3. /\ Asked[c] = 0
        /\ Asked'[c] = IF sent[c] + 1 = Segments THEN 1 ELSE 0
        /\ \A d \in Clients \ {c} : Asked'[d] = Asked[d]
    <3>1. sent[c] + 1 \in Nat /\ sent[c] + 1 <= Segments
      BY <2>1, ReactorAssumption
    <3>2. sent[c] \div Segments = 0
      BY <2>1, OneRequest, ReactorAssumption
    <3>3. (sent[c] + 1) \div Segments = IF sent[c] + 1 = Segments THEN 1 ELSE 0
      BY <3>1, OneRequest
    <3>4. QED
      BY <2>1, <3>2, <3>3 DEF Asked
  <2>4. Asked = [d \in Clients |-> Asked[d]] /\ Asked' = [d \in Clients |-> Asked'[d]]
    BY DEF Asked
  <2>5. CASE sent[c] + 1 = Segments
    <3>1. Asked' = [Asked EXCEPT ![c] = Asked[c] + 1]
      BY <2>3, <2>4, <2>5
    <3>2. Service!Ask(c)
      BY <1>2, <2>1, <2>2, <3>1, Present DEF Service!Ask, HungUp
    <3>3. QED
      BY <3>2 DEF Service!Next
  <2>6. CASE sent[c] + 1 # Segments
    <3>1. Asked' = Asked
      BY <2>3, <2>4, <2>6
    <3>2. QED
      BY <1>2, <2>1, <2>2, <3>1 DEF Service!vars
  <2>7. QED
    BY <2>5, <2>6
<1>5. ASSUME NEW c \in Clients, ClientClose(c)
      PROVE  Service!Next
  <2>1. /\ phase[c] \in {"queued", "up"}
        /\ fin' = [fin EXCEPT ![c] = TRUE]
        /\ UNCHANGED <<phase, sent, inbox, backlog, rx>>
    BY <1>5 DEF ClientClose, kernelVars
  <2>2. /\ Gone' = Gone /\ HungUp' = HungUp \cup {c} /\ Asked' = Asked
        /\ Taken' = Taken
    BY <1>2, <2>1 DEF Gone, HungUp, Asked, Taken, TypeOK, ClientTypes
  <2>3. Service!HangUp(c)
    BY <1>2, <2>1, <2>2, Present DEF Service!HangUp
  <2>4. QED
    BY <2>3 DEF Service!Next
<1>6. ASSUME NEW c \in Clients, SendBuffer(c)
      PROVE  UNCHANGED Service!vars
  BY <1>1, <1>6, Unseen DEF SendBuffer, kernelVars
<1>7. CASE AlarmFires \/ SigTerm
  BY <1>1, <1>7, Unseen DEF AlarmFires, SigTerm, clientVars
<1>8. QED
  BY <1>3, <1>4, <1>5, <1>6, <1>7 DEF Environment

\* If nothing runs short, the client of a connection the server is not at work
\* on, and whose unread data no report could still reach in time, is owed
\* nothing, or it is a late one and the request is not read yet.
LEMMA SilentIsServed ==
  ASSUME Steady, TypeOK, ConnInv, AnswerInv, WhereInv, StayInv,
         NEW f \in Fds, NEW c \in Clients, sock[f] = c, ev[f] = "NONE",
         ~InService(f), EventOf(f) = "IN" => c \in Late, ~fin[c]
  PROVE  Len(inbox[c]) = Asked[c] \/ (c \in Late /\ c \notin Taken)
<1>1. c # NoClient
  BY ReactorAssumption
<1>2. /\ Keeps(f, c) /\ ~full[c]
      /\ sent[c] \in Nat /\ sent[c] <= Segments /\ rx[c] \in Nat
      /\ Len(m_read_buf[f]) \in Nat /\ Len(inbox[c]) \in Nat
      /\ inbox[c] \in Seq(Clients \cup {NoClient})
  BY <1>1 DEF StayInv, WhereInv, TypeOK, ClientTypes, ConnTypes
<1>3. Segments * Len(inbox[c]) <= sent[c]
  BY DEF AnswerInv, OwnAnswers
<1>4. Asked[c] = IF sent[c] = Segments THEN 1 ELSE 0
  BY <1>2, OneRequest DEF Asked
<1>5. CASE inbox[c] # <<>>
  <2>1. Len(inbox[c]) # 0
    BY <1>2, <1>5
  <2>2. Segments \in Nat \ {0} /\ Segments * Len(inbox[c]) \in Nat
    BY <1>2, ReactorAssumption
  <2>3. Len(inbox[c]) = 0 \/ Len(inbox[c]) = 1
    <3>1. Len(inbox[c]) \in Nat
      BY <1>2
    <3>2. sent[c] <= Segments /\ sent[c] \in Nat
      BY <1>2
    <3>3. Segments * Len(inbox[c]) <= Segments
      BY <1>3, <2>2, <3>2
    <3>4. QED
      BY <3>1, <3>3, OneFits
  <2>4. Len(inbox[c]) = 1
    BY <2>1, <2>3
  <2>5. sent[c] = Segments
    <3>1. Segments * 1 = Segments
      BY <2>2
    <3>2. Segments <= sent[c]
      BY <1>3, <2>4, <3>1
    <3>3. QED
      BY <1>2, <2>2, <3>2
  <2>6. QED
    BY <1>4, <2>4, <2>5
<1>6. CASE inbox[c] = <<>>
  <2>1. Attended(f)
    BY <1>2, <1>6 DEF Keeps
  <2>2. ~Parses(f) /\ \A w \in Workers : ~Reads(w, f) /\ ~Answering(w, f)
    BY DEF InService, Held, Parses, Reads, Answering
  <2>3. armed[f] # "OUT"
    BY DEF InService, Steady
  <2>4. Listens(f) /\ armed[f] = "IN"
    BY <2>1, <2>2, <2>3 DEF Attended, Listens, Prepared, InService
  <2>5. CASE rx[c] = 0
    <3>1. sent[c] # Segments
      BY <1>2, <2>4, <2>5, ReactorAssumption DEF Keeps, Listens
    <3>2. QED
      BY <1>4, <1>6, <3>1
  <2>6. CASE rx[c] # 0
    <3>1. c \in Late
      BY <1>1, <1>2, <2>4, <2>6 DEF EventOf
    <3>2. sent[c] - rx[c] < Segments
      BY <1>2, <2>4, ReactorAssumption DEF Keeps, Listens
    <3>3. Segments * (Len(inbox[c]) + 1) = Segments
      BY <1>6, ReactorAssumption
    <3>4. c \notin Taken
      BY <1>2, <3>2, <3>3, ReactorAssumption DEF Taken
    <3>5. QED
      BY <3>1, <3>4
  <2>7. QED
    BY <2>5, <2>6
<1>7. QED
  BY <1>5, <1>6

\* Closing a connection, for the service.
LEMMA ServiceClose ==
  ASSUME TypeOK, PlaceInv, NEW f \in Fds, CloseFd(f), sock[f] # NoClient,
         UNCHANGED backlog,
         Steady => \/ fin[sock[f]]
                   \/ Len(inbox[sock[f]]) = Asked[sock[f]]
                   \/ sock[f] \in Late /\ sock[f] \notin Taken
  PROVE  Service!Next
<1>1. PICK c \in Clients : c = sock[f]
  BY DEF TypeOK, KernelTypes
<1>2. /\ sock'[f] = NoClient /\ \A g \in Fds \ {f} : sock'[g] = sock[g]
      /\ phase'[c] = "gone" /\ \A d \in Clients \ {c} : phase'[d] = phase[d]
      /\ \A d \in Clients \ {c} : rx'[d] = rx[d]
      /\ UNCHANGED <<fin, sent, inbox>>
  BY <1>1 DEF CloseFd, TypeOK, KernelTypes, ClientTypes
<1>3. \A g \in Fds \ {f} : sock[g] # c
  BY <1>1 DEF PlaceInv
<1>4. Served' = Served \ {c} /\ c \in Served
  BY <1>1, <1>2, <1>3 DEF Served, Open
<1>5. Gone' = Gone \cup {c} /\ HungUp' = HungUp /\ Asked' = Asked
  BY <1>2 DEF Gone, HungUp, Asked
<1>6. Steady => \/ c \in HungUp
                \/ Len(inbox[c]) = Asked[c]
                \/ c \in Late /\ c \notin Taken
  BY <1>1 DEF HungUp
<1>7. Taken' = Taken \ {c}
  <2>1. \A d \in Served : d \in Clients
    BY DEF Served, Open, TypeOK, KernelTypes
  <2>2. QED
    BY <1>2, <1>4, <2>1 DEF Taken
<1>8. Service!Part(c)
  BY <1>2, <1>4, <1>5, <1>6, <1>7 DEF Service!Part
<1>9. QED
  BY <1>8 DEF Service!Next

LEMMA ServiceMain ==
  ASSUME ~Overrun, TypeOK, ConnInv, PlaceInv, AnswerInv, UserCount, WhereInv,
         Steady => StayInv, Main
  PROVE  [Service!Next]_(Service!vars)
<1>1. UNCHANGED <<fin, sent, inbox>>
  BY MainFrame
<1>2. HungUp' = HungUp /\ Asked' = Asked
  BY <1>1 DEF HungUp, Asked
<1>3. CASE EpollWait \/ HandleSignal \/ AcceptEnd \/ EndOfBatch \/ TickEnd
  BY <1>1, <1>3, Unseen DEF EpollWait, HandleSignal, AcceptEnd, EndOfBatch,
     TickEnd, clientVars, kernelVars
<1>4. CASE AcceptFirst \/ AcceptMore
  <2>1. CanAccept /\ \E f \in Free : RegisterAt(f)
    BY <1>4 DEF AcceptFirst, AcceptMore, Register
  <2>2. PICK f \in Fds : sock[f] = NoClient /\ RegisterAt(f)
    BY <2>1 DEF Free, Open
  <2>3. PICK c \in Clients : c = Head(backlog) /\ phase[c] = "queued"
    BY <2>1, BacklogTail DEF CanAccept
  <2>4. /\ sock'[f] = c /\ \A g \in Fds \ {f} : sock'[g] = sock[g]
        /\ phase'[c] = "up" /\ \A d \in Clients \ {c} : phase'[d] = phase[d]
        /\ backlog # <<>> /\ backlog' = Tail(backlog)
    BY <2>1, <2>2, <2>3 DEF RegisterAt, CanAccept, TypeOK, KernelTypes,
       ClientTypes
  <2>5. Served' = Served \cup {c} /\ Gone' = Gone
    <3>1. c # NoClient
      BY ReactorAssumption
    <3>2. Open' = Open \cup {f} /\ f \notin Open
      BY <2>2, <2>4, <3>1 DEF Open
    <3>3. Served' = Served \cup {c}
      BY <2>4, <3>2 DEF Served, Open
    <3>4. Gone' = Gone
      BY <2>3, <2>4 DEF Gone
    <3>5. QED
      BY <3>3, <3>4
  <2>6. Cardinality(Served) < Cardinality(Fds)
    <3>1. Open \subseteq Fds \ {f}
      BY <2>2 DEF Open
    <3>2. /\ IsFiniteSet(Fds \ {f})
          /\ Cardinality(Fds \ {f}) = Cardinality(Fds) - 1
      BY ReactorAssumption, FS_RemoveElement
    <3>3. Cardinality(Open) <= Cardinality(Fds \ {f})
      BY <3>1, <3>2, FS_Subset
    <3>4. Cardinality(Fds) \in Nat /\ Cardinality(Open) \in Nat
      BY ReactorAssumption, FS_CardinalityType, OpenIsFinite
    <3>5. QED
      BY <3>2, <3>3, <3>4, ServedCounted
  <2>7. Served' = Served \cup {Head(backlog)} /\ Gone' = Gone
    BY <2>3, <2>5
  <2>8. /\ HungUp' = HungUp /\ Asked' = Asked /\ inbox' = inbox
        /\ Taken' = Taken
    <3>1. sent[c] - rx[c] = 0 /\ Len(inbox[c]) = 0
      BY <2>3 DEF PlaceInv, TypeOK, ClientTypes
    <3>2. ~(0 >= Segments * (0 + 1))
      BY ReactorAssumption
    <3>3. ~(sent[c] - rx[c] >= Segments * (Len(inbox[c]) + 1))
      BY <3>1, <3>2
    <3>4. Taken' = Taken
      <4>1. rx' = rx
        BY <2>2 DEF RegisterAt
      <4>2. QED
        BY <1>1, <2>5, <3>3, <4>1 DEF Taken
    <3>5. QED
      BY <1>1, <1>2, <3>4
  <2>9. Service!Admit
    BY <2>4, <2>6, <2>7, <2>8, SameCardinality DEF Service!Admit
  <2>10. QED
    BY <2>9 DEF Service!Next
<1>5. CASE AcceptBusy
  <2>1. PICK c \in Clients : c = Head(backlog) /\ phase[c] = "queued"
    BY <1>5, BacklogTail DEF AcceptBusy, CanAccept
  <2>2. /\ phase'[c] = "gone" /\ \A d \in Clients \ {c} : phase'[d] = phase[d]
        /\ backlog # <<>> /\ backlog' = Tail(backlog) /\ sock' = sock
        /\ m_user_count >= MAX_FD
        /\ \A d \in Clients \ {c} : rx'[d] = rx[d]
    BY <1>5, <2>1 DEF AcceptBusy, CanAccept, TypeOK, ClientTypes
  <2>3. Served' = Served /\ Gone' = Gone \cup {c}
    BY <2>2 DEF Served, Open, Gone
  <2>4. Cardinality(Served) >= MAX_FD
    BY <2>2, ServedCounted DEF UserCount
  <2>5. Served' = Served /\ Gone' = Gone \cup {Head(backlog)}
    BY <2>1, <2>3
  <2>6. /\ HungUp' = HungUp /\ Asked' = Asked /\ inbox' = inbox
        /\ Taken' = Taken
    <3>1. \A d \in Served : d \in Clients /\ d # c
      BY <2>1 DEF PlaceInv, Served, Open, TypeOK, KernelTypes
    <3>2. Taken' = Taken
      BY <1>1, <2>2, <2>3, <3>1 DEF Taken
    <3>3. QED
      BY <1>1, <1>2, <3>2
  <2>7. Service!Refuse
    BY <2>2, <2>4, <2>5, <2>6, SameCardinality DEF Service!Refuse
  <2>8. QED
    BY <2>7 DEF Service!Next
<1>6. ASSUME NEW f \in Fds, HandleHup(f)
      PROVE  Service!Next
  <2>1. m_sockfd[f] = f /\ sock[f] # NoClient
    BY <1>6 DEF HandleHup, ConnInv, BatchIsFresh
  <2>2. CloseFd(f) /\ UNCHANGED backlog
    BY <1>6, <2>1, ReactorAssumption DEF HandleHup, CloseConn
  <2>3. fin[sock[f]]
    BY <1>6 DEF HandleHup, WhereInv
  <2>4. QED
    BY <2>1, <2>2, <2>3, ServiceClose
<1>7. ASSUME NEW f \in Fds,
             HandleIO(f, "IN", "READ") \/ HandleIO(f, "OUT", "WRITE")
      PROVE  UNCHANGED Service!vars
  BY <1>1, <1>7, Unseen DEF HandleIO, clientVars, kernelVars
<1>8. ASSUME NEW f \in Fds, TickExpire(f)
      PROVE  [Service!Next]_(Service!vars)
  <2>1. CASE timer[f] = "live"
    <3>1. /\ CloseFd(f) /\ sock[f] # NoClient /\ UNCHANGED backlog
          /\ ~InService(f) /\ (EventOf(f) = "IN" => sock[f] \in Late)
          /\ ev[f] = "NONE"
      BY <1>8, <2>1 DEF TickExpire, CbFunc, ConnInv, TimerOwnsSocket, BatchOver
    <3>2. PICK c \in Clients : c = sock[f]
      BY <3>1 DEF TypeOK, KernelTypes
    <3>3. Steady => \/ fin[c]
                    \/ Len(inbox[c]) = Asked[c]
                    \/ c \in Late /\ c \notin Taken
      BY <3>1, <3>2, SilentIsServed
    <3>4. QED
      BY <3>1, <3>2, <3>3, ServiceClose
  <2>2. CASE timer[f] # "live"
    BY <1>1, <1>8, <2>2, Unseen DEF TickExpire, clientVars
  <2>3. QED
    BY <2>1, <2>2
<1>9. QED
  BY <1>3, <1>4, <1>5, <1>6, <1>7, <1>8 DEF Main

LEMMA ServiceWorker ==
  ASSUME TypeOK, ConnInv, ExclInv, AnswerInv, WhereInv, NEW w \in Workers,
         Worker(w)
  PROVE  [Service!Next]_(Service!vars)
<1>1. UNCHANGED <<backlog, sock, phase, fin, sent>>
  BY WorkerFrame
<1>2. CASE WriteDone(w)
  <2>1. PICK f \in Fds : f = wobj[w] /\ wpc[w] = "write" /\ Live(f)
    BY <1>2, WorkerHolds DEF WriteDone
  <2>2. m_sockfd[f] = f /\ sock[f] # NoClient
    BY <2>1 DEF Live, ConnInv, OwnDescriptor
  <2>3. PICK c \in Clients : c = sock[f]
    BY <2>2 DEF TypeOK, KernelTypes
  <2>4. Serves(f, c) /\ Prepared(f)
    BY <2>1, <2>2, <2>3 DEF AnswerInv, ServeInv, Prepared, Answering
  <2>5. inbox' = [inbox EXCEPT ![c] = Append(inbox[c], c)]
    BY <1>2, <2>1, <2>2, <2>3, <2>4 DEF WriteDone, Serves
  <2>6. c \in Served
    BY <2>2, <2>3 DEF Served, Open
  <2>7. /\ Segments * (Len(inbox[c]) + 1) <= m_checked_index[f]
        /\ m_checked_index[f] <= Len(m_read_buf[f])
        /\ Len(m_read_buf[f]) + rx[c] <= sent[c] /\ sent[c] <= Segments
        /\ Len(inbox[c]) \in Nat /\ sent[c] \in Nat /\ rx[c] \in Nat
        /\ m_checked_index[f] \in Nat /\ Len(m_read_buf[f]) \in Nat
        /\ inbox[c] \in Seq(Clients \cup {NoClient})
    BY <2>4 DEF Serves, WhereInv, TypeOK, ClientTypes, ConnTypes
  <2>8. Segments * (Len(inbox[c]) + 1) \in Int /\ Segments \in Nat \ {0}
    BY <2>7, ReactorAssumption
  <2>9. c \in Taken
    BY <2>6, <2>7, <2>8 DEF Taken
  <2>10. Len(inbox[c]) = 0
    BY <2>7, <2>8, TakenAsked
  <2>11. UNCHANGED <<Served, Gone, HungUp, Asked>>
    BY <1>1 DEF Served, Open, Gone, HungUp, Asked
  <2>12. Taken' = Taken \ {c}
    <3>1. inbox'[c] = Append(inbox[c], c)
          /\ \A d \in Clients \ {c} : inbox'[d] = inbox[d]
      BY <2>5 DEF TypeOK, ClientTypes
    <3>2. Len(inbox'[c]) = 1 /\ rx' = rx /\ sent' = sent
      <4>1. rx' = rx
        BY <1>2 DEF WriteDone
      <4>2. Len(Append(inbox[c], c)) = Len(inbox[c]) + 1
        BY <2>7
      <4>3. QED
        BY <1>1, <2>10, <3>1, <4>1, <4>2
    <3>3. ~(sent[c] - rx[c] >= Segments * (1 + 1))
      <4>1. /\ sent[c] \in Nat /\ rx[c] \in Nat /\ sent[c] <= Segments
            /\ Segments \in Nat \ {0}
        BY <2>7, <2>8
      <4>2. Segments * (1 + 1) = Segments + Segments
        BY <4>1
      <4>3. QED
        BY <4>1, <4>2
    <3>4. \A d \in Served : d \in Clients
      BY DEF Served, Open, TypeOK, KernelTypes
    <3>5. ASSUME NEW d \in Served
          PROVE  d \in Taken' <=> d \in Taken /\ d # c
      <4>1. CASE d = c
        BY <3>2, <3>3, <4>1 DEF Taken
      <4>2. CASE d # c
        BY <2>11, <3>1, <3>2, <3>4, <4>2 DEF Taken
      <4>3. QED
        BY <4>1, <4>2
    <3>6. Taken \subseteq Served /\ Taken' \subseteq Served
      BY <2>11 DEF Taken
    <3>7. QED
      BY <3>5, <3>6
  <2>13. Service!Reply(c)
    BY <1>1, <2>5, <2>9, <2>11, <2>12 DEF Service!Reply
  <2>14. QED
    BY <2>13 DEF Service!Next
<1>3. CASE RecvData(w)
  <2>1. PICK f \in Fds : f = wobj[w] /\ wpc[w] = "exec" /\ Live(f)
    BY <1>3, WorkerHolds DEF RecvData, CanRead
  <2>2. m_sockfd[f] = f /\ sock[f] # NoClient
    BY <2>1 DEF Live, ConnInv, OwnDescriptor
  <2>3. PICK c \in Clients : c = sock[f]
    BY <2>2 DEF TypeOK, KernelTypes
  <2>4. PICK n \in Nat : n <= rx[c] /\ rx' = [rx EXCEPT ![c] = rx[c] - n]
    <3>1. rx[c] \in Nat /\ BufferSize \in Nat /\ Len(m_read_buf[f]) \in Nat
      BY ReactorAssumption DEF TypeOK, ClientTypes, ConnTypes
    <3>2. Len(m_read_buf[f]) < BufferSize
      BY <1>3, <2>1 DEF RecvData, CanRead
    <3> DEFINE room == BufferSize - Len(m_read_buf[f])
               k == Smaller(rx[c], room)
    <3>3. k \in Nat /\ k <= rx[c]
      BY <3>1, <3>2 DEF Smaller
    <3>4. rx' = [rx EXCEPT ![c] = rx[c] - k]
      BY <1>3, <2>1, <2>2, <2>3 DEF RecvData
    <3>5. QED
      BY <3>3, <3>4
  <2>5. /\ rx[c] \in Nat /\ sent[c] \in Nat /\ sent[c] <= Segments
        /\ Len(inbox[c]) \in Nat
        /\ n <= rx[c] /\ rx'[c] = rx[c] - n
        /\ \A d \in Clients \ {c} : rx'[d] = rx[d]
    BY <2>4 DEF TypeOK, ClientTypes, WhereInv
  <2>6. UNCHANGED <<Served, Gone, HungUp, Asked, inbox>>
    BY <1>1, <1>3 DEF RecvData, Served, Open, Gone, HungUp, Asked
  <2>7. \A d \in Served : d \in Clients
    BY DEF Served, Open, TypeOK, KernelTypes
  <2>8. c \in Served
    BY <2>2, <2>3 DEF Served, Open
  <2> DEFINE whole == sent[c] - rx'[c] >= Segments * (Len(inbox[c]) + 1)
  <2>9. CASE c \in Taken
    <3>1. Segments * (Len(inbox[c]) + 1) \in Int
      BY <2>5, ReactorAssumption
    <3>2. sent[c] - rx'[c] >= Segments * (Len(inbox[c]) + 1)
      BY <2>4, <2>5, <2>9, <3>1 DEF Taken
    <3>3. Taken' = Taken
      BY <1>1, <2>5, <2>6, <2>7, <2>9, <3>2 DEF Taken
    <3>4. QED
      BY <1>1, <2>6, <3>3 DEF Service!vars
  <2>10. CASE c \notin Taken /\ whole
    <3>1. Serves(f, c)
      BY <2>2, <2>3 DEF AnswerInv, ServeInv
    <3>2. sent[c] - rx'[c] \in Nat /\ sent[c] - rx'[c] <= sent[c]
      <4>1. Len(m_read_buf[f]) \in Nat /\ Len(m_read_buf[f]) + rx[c] <= sent[c]
        BY <3>1 DEF Serves, TypeOK, ConnTypes
      <4>2. sent[c] - (rx[c] - n) = (sent[c] - rx[c]) + n /\ rx[c] <= sent[c]
        BY <2>5, <4>1
      <4>3. sent[c] - rx'[c] = (sent[c] - rx[c]) + n /\ n <= rx[c]
        BY <2>5, <4>2
      <4> HIDE DEF whole
      <4>4. QED
        BY <2>5, <4>2, <4>3
    <3>3. Len(inbox[c]) = 0 /\ Asked[c] = 1
      BY <2>5, <2>10, <3>2, TakenAsked
    <3>4. Taken' = Taken \cup {c}
      BY <1>1, <2>5, <2>6, <2>7, <2>8, <2>10 DEF Taken
    <3>5. Service!TakeUp(c)
      BY <1>1, <2>6, <2>8, <2>10, <3>3, <3>4 DEF Service!TakeUp
    <3>6. QED
      BY <3>5 DEF Service!Next
  <2>11. CASE c \notin Taken /\ ~whole
    <3>1. Taken' = Taken
      BY <1>1, <2>5, <2>6, <2>7, <2>11 DEF Taken
    <3>2. QED
      BY <1>1, <2>6, <3>1 DEF Service!vars
  <2>12. QED
    BY <2>9, <2>10, <2>11
<1>4. CASE ~WriteDone(w) /\ ~RecvData(w)
  <2>1. UNCHANGED <<inbox, rx>>
    BY <1>4 DEF Worker, Take, RecvNothing, ParseMore, ParseRequest,
       Rearm, RearmFor, Respond, WriteNothing, WriteFails, WriteAgain,
       AfterWrite, TestLinger, Reset, clientVars
  <2>2. QED
    BY <1>1, <2>1, Unseen
<1>5. QED
  BY <1>2, <1>3, <1>4

\* Where the connections stand, if nothing runs short.
LEMMA SteadyInvariant ==
  ASSUME KeepAlive = {}, ~Overrun
  PROVE  Spec => [](Steady => StayInv)
<1>1. CASE Steady
  <2>1. Spec => []StayInv
    BY <1>1, StayInvariant
  <2>2. StayInv => (Steady => StayInv)
    OBVIOUS
  <2>3. QED
    BY <2>1, <2>2, PTL
<1>2. CASE ~Steady
  <2>1. Steady => StayInv
    BY <1>2
  <2>2. QED
    BY <2>1, PTL
<1>3. QED
  BY <1>1, <1>2

\* The server is the service its clients are promised, if no client asks for
\* keep-alive and no timer expires under a worker: whatever the threads, events
\* and timers do in between, connections are served in the order they were
\* made and refused at the limit only, every answer is to a request of the
\* client it reaches, and, if nothing runs short, no client that is owed an
\* answer is closed on, unless it is one of Late and the server has not read
\* its request yet: which clients may be late is a constant, all of them
\* included (webserverhttp.cpp 220-375, timer.cpp 93-108, http_conn.cpp
\* 712-864).
THEOREM ReactorIsService ==
  ASSUME KeepAlive = {}, ~Overrun
  PROVE  Spec => ImplementsService
<1> DEFINE Inv == /\ TypeOK /\ ConnInv /\ ExclInv /\ PlaceInv /\ AnswerInv
                  /\ UserCount /\ WhereInv /\ (Steady => StayInv)
<1>1. Inv /\ [Next]_vars => [Service!Next]_(Service!vars)
  <2> SUFFICES ASSUME Inv, [Next]_vars
               PROVE  [Service!Next]_(Service!vars)
    OBVIOUS
  <2>1. CASE UNCHANGED vars
    BY <2>1, Unseen DEF vars, clientVars, kernelVars, mainVars, connVars,
       workerVars
  <2>2. QED
    BY <2>1, ServiceEnvironment, ServiceMain, ServiceWorker DEF Next
<1>2. Spec => []ExclInv /\ []PlainInv
  BY ExclusiveInvariant
<1>3. QED
  BY <1>1, <1>2, ServiceStart, TypeCorrect, ConnInvariant, PlaceInvariant,
     AnswerInvariant, CountsUsers, WhereInvariant, SteadyInvariant, PTL
  DEF Spec, ImplementsService, Service!Spec
=============================================================================
