------------------------------ MODULE Reactor ------------------------------
(***************************************************************************)
(* The HTTP server of rtdm-tinyserver: the epoll loop of TinyWebServer,    *)
(* the worker threads running http_conn::execute, and the http_conn        *)
(* objects (users[fd]) the two sides share without a lock.                 *)
(*                                                                         *)
(* What keeps the two sides apart is EPOLLONESHOT: delivering an event     *)
(* disarms the descriptor, and only modfd, called by the worker, arms it   *)
(* again.  The kernel (listen queue, sockets, epoll set, alarm) and the    *)
(* HTTP clients are the environment.                                       *)
(*                                                                         *)
(* Abstractions.  A request is Segments pieces of data; a response is one  *)
(* token, the client whose request it answers.  Parsing is "Segments more  *)
(* pieces have arrived"; its verdict is any member of Outcomes.  The queue *)
(* of the thread pool is atomic (module ThreadPool opens it) and the timer *)
(* heap is one timer state per descriptor (module TimeHeap opens it): time *)
(* is the choice of which timers tick() finds expired.                     *)
(***************************************************************************)
EXTENDS Integers, Sequences, FiniteSets

CONSTANTS
  Clients,      \* the TCP clients; each connects at most once
  NoClient,     \* "no socket" / "no data"
  Fds,          \* descriptors the process may use for connections
  Workers,      \* the threads of threadpool<http_conn>
  MAX_FD,       \* connection limit tested by the accept branch
  MaxRequests,  \* threadpool::m_max_requests
  BufferSize,   \* READ_BUFFER_SIZE, in pieces
  Segments,     \* pieces a request is split into
  Requests,     \* requests a keep-alive client may send (bound)
  KeepAlive,    \* clients sending "Connection: keep-alive"
  Slow,         \* clients whose socket send buffer may fill up
  Late,         \* clients whose data may arrive as their timer ends
  Outcomes,     \* verdicts process_read may return on a complete request
  Overrun,      \* may a timer expire while a worker holds its connection?
  Terminate     \* does anyone send SIGTERM?

\* The verdicts of process_read as execute() and process_write() tell them
\* apart: FILE is answered, FILE_REFUSED is armed for output but refused by
\* process_write (FILE_SPEC and FILE_JSON asked by POST), ERROR is the rest.
Answered == {"FILE"}
Verdicts == {"FILE", "FILE_REFUSED", "ERROR"}

ASSUME ReactorAssumption ==
  /\ NoClient \notin Clients
  /\ Fds \subseteq Nat
  /\ IsFiniteSet(Fds)
  /\ MAX_FD \in Nat \ {0}
  /\ MaxRequests \in Nat \ {0}
  /\ Segments \in Nat \ {0}
  /\ BufferSize \in Nat \ {0}
  /\ Requests \in Nat \ {0}
  /\ KeepAlive \subseteq Clients
  /\ Slow \subseteq Clients
  /\ Late \subseteq Clients
  /\ Outcomes \subseteq Verdicts
  /\ Overrun \in BOOLEAN
  /\ Terminate \in BOOLEAN

VARIABLES
  \* clients and their connections, kept by the kernel
  phase,        \* "idle", "queued" (in the listen queue), "up", "gone"
  rx,           \* pieces received from the client and not yet read
  fin,          \* the client has closed
  full,         \* the send buffer towards the client is full
  sent,         \* pieces the client has sent
  inbox,        \* responses the client has received
  \* kernel objects of the server
  backlog,      \* listen queue
  lisEdge,      \* unreported edge on m_listenfd
  sock,         \* the client behind an open descriptor
  armed,        \* epoll interest: "off" (one-shot fired or not registered)
  alarm,        \* alarm(TIMESLOT) is pending
  pipe,         \* signal bytes waiting in pipefd
  pipeEdge,     \* unreported edge on pipefd[0]
  \* the thread of TinyWebServer::eventloop
  mpc,          \* "wait", "dispatch", "accept", "tick"
  evListen, evSignal, ev,   \* the part of events[] not handled yet
  timeout,      \* TinyWebServer::timeout
  m_user_count, \* http_conn::m_user_count
  timer,        \* users_data[fd].timer: "none", "live", "nulled", "freed"
  m_workqueue,  \* threadpool::m_workqueue (users[fd], named by fd)
  \* http_conn, one object per descriptor
  m_sockfd, m_io_state, m_read_buf, m_checked_index, m_read_ret, m_linger,
  bytes_to_send,
  answer,       \* whose request the prepared response answers (m_iv)
  \* worker threads
  wpc, wobj

clientVars == <<phase, rx, fin, full, sent, inbox>>
kernelVars == <<backlog, lisEdge, sock, armed, alarm, pipe, pipeEdge>>
mainVars   == <<mpc, evListen, evSignal, ev, timeout, m_user_count, timer>>
connVars   == <<m_sockfd, m_io_state, m_read_buf, m_checked_index,
                m_read_ret, m_linger, bytes_to_send, answer>>
workerVars == <<wpc, wobj>>
vars == <<clientVars, kernelVars, mainVars, m_workqueue, connVars, workerVars>>

Events == {"NONE", "HUP", "IN", "OUT"}
WorkerPcs == {"idle", "exec", "recv", "elseif", "parse", "rearm", "respond",
              "write", "again", "done", "linger",
              "reset"}

ClientTypes ==
  /\ phase \in [Clients -> {"idle", "queued", "up", "gone"}]
  /\ rx \in [Clients -> Nat]
  /\ sent \in [Clients -> Nat]
  /\ fin \in [Clients -> BOOLEAN]
  /\ full \in [Clients -> BOOLEAN]
  /\ inbox \in [Clients -> Seq(Clients \cup {NoClient})]

KernelTypes ==
  /\ backlog \in Seq(Clients)
  /\ lisEdge \in BOOLEAN
  /\ alarm \in BOOLEAN
  /\ pipe \subseteq {"ALRM", "TERM"}
  /\ pipeEdge \in BOOLEAN
  /\ sock \in [Fds -> Clients \cup {NoClient}]
  /\ armed \in [Fds -> {"off", "IN", "OUT"}]

MainTypes ==
  /\ mpc \in {"wait", "dispatch", "accept", "tick"}
  /\ evListen \in BOOLEAN
  /\ evSignal \in BOOLEAN
  /\ ev \in [Fds -> Events]
  /\ timeout \in BOOLEAN
  /\ m_user_count \in Int
  /\ timer \in [Fds -> {"none", "live", "nulled", "freed"}]
  /\ m_workqueue \in Seq(Fds)

ConnTypes ==
  /\ m_sockfd \in [Fds -> Fds \cup {-1}]
  /\ m_io_state \in [Fds -> {"READ", "WRITE", "NOTHING"}]
  /\ m_read_buf \in [Fds -> Seq(Clients)]
  /\ m_checked_index \in [Fds -> Nat]
  /\ m_read_ret \in [Fds -> Verdicts \cup {"NO_REQUEST"}]
  /\ m_linger \in [Fds -> BOOLEAN]
  /\ bytes_to_send \in [Fds -> {0, 1}]
  /\ answer \in [Fds -> Clients \cup {NoClient}]

\* A worker is idle exactly when it holds no connection.
WorkerTypes ==
  /\ wpc \in [Workers -> WorkerPcs]
  /\ wobj \in [Workers -> Fds \cup {-1}]
  /\ \A w \in Workers : wpc[w] = "idle" <=> wobj[w] = -1

TypeOK == ClientTypes /\ KernelTypes /\ MainTypes /\ ConnTypes /\ WorkerTypes

Init ==
  /\ phase = [c \in Clients |-> "idle"]
  /\ rx = [c \in Clients |-> 0] /\ sent = [c \in Clients |-> 0]
  /\ fin = [c \in Clients |-> FALSE] /\ full = [c \in Clients |-> FALSE]
  /\ inbox = [c \in Clients |-> <<>>]
  /\ backlog = <<>> /\ lisEdge = FALSE
  /\ sock = [f \in Fds |-> NoClient]
  /\ armed = [f \in Fds |-> "off"]
  /\ alarm = TRUE /\ pipe = {} /\ pipeEdge = FALSE
  /\ mpc = "wait" /\ evListen = FALSE /\ evSignal = FALSE
  /\ ev = [f \in Fds |-> "NONE"]
  /\ timeout = FALSE /\ m_user_count = 0
  /\ timer = [f \in Fds |-> "none"]
  /\ m_workqueue = <<>>
  /\ m_sockfd = [f \in Fds |-> -1]
  /\ m_io_state = [f \in Fds |-> "NOTHING"]
  /\ m_read_buf = [f \in Fds |-> <<>>]
  /\ m_checked_index = [f \in Fds |-> 0]
  /\ m_read_ret = [f \in Fds |-> "NO_REQUEST"]
  /\ m_linger = [f \in Fds |-> FALSE]
  /\ bytes_to_send = [f \in Fds |-> 0]
  /\ answer = [f \in Fds |-> NoClient]
  /\ wpc = [w \in Workers |-> "idle"]
  /\ wobj = [w \in Workers |-> -1]

-----------------------------------------------------------------------------
(* Shared readings of the state.                                           *)

Open == {f \in Fds : sock[f] # NoClient}
Free == Fds \ Open
Live(f) == m_sockfd[f] # -1 /\ sock[m_sockfd[f]] # NoClient

\* What epoll_wait reports for f.  With EPOLLONESHOT arming a descriptor
\* that is already ready reports it, so readiness is a level here.
EventOf(f) ==
  IF sock[f] = NoClient \/ armed[f] = "off" THEN "NONE"
  ELSE IF fin[sock[f]] THEN "HUP"
  ELSE IF armed[f] = "IN" /\ rx[sock[f]] > 0 THEN "IN"
  ELSE IF armed[f] = "OUT" /\ ~full[sock[f]] THEN "OUT"
  ELSE "NONE"

Queued(f) == \E i \in 1..Len(m_workqueue) : m_workqueue[i] = f
Held(f) == \E w \in Workers : wobj[w] = f

\* A worker that reads m_linger has nothing else to do with the connection.
Owns(w, f) == wobj[w] = f /\ wpc[w] # "linger"

\* modfd(m_epollfd, m_sockfd, e): fails silently on a closed descriptor.
Modfd(f, e) ==
  armed' = IF Live(f) THEN [armed EXCEPT ![m_sockfd[f]] = e] ELSE armed

\* close(f): the descriptor leaves the epoll set, unread data is discarded.
CloseFd(f) ==
  /\ phase' = [phase EXCEPT ![sock[f]] = "gone"]
  /\ rx' = [rx EXCEPT ![sock[f]] = 0]
  /\ sock' = [sock EXCEPT ![f] = NoClient]
  /\ armed' = [armed EXCEPT ![f] = "off"]
  /\ UNCHANGED <<fin, full, sent, inbox>>

\* Mutation of InitConn: the data of the last request stay.
InitConnKeepsData(f) ==
  /\ m_io_state' = [m_io_state EXCEPT ![f] = "NOTHING"]
  /\ m_linger' = [m_linger EXCEPT ![f] = FALSE]
  /\ bytes_to_send' = [bytes_to_send EXCEPT ![f] = 0]
  /\ UNCHANGED <<m_read_buf, m_checked_index, m_read_ret, answer>>

\* http_conn::init(): the verdict and the file address are not reset.
InitConn(f) ==
  /\ m_io_state' = [m_io_state EXCEPT ![f] = "NOTHING"]
  /\ m_read_buf' = [m_read_buf EXCEPT ![f] = <<>>]
  /\ m_checked_index' = [m_checked_index EXCEPT ![f] = 0]
  /\ m_linger' = [m_linger EXCEPT ![f] = FALSE]
  /\ bytes_to_send' = [bytes_to_send EXCEPT ![f] = 0]
  /\ UNCHANGED <<m_read_ret, answer>>

\* Mutation of CloseConn: the counter is forgotten.
CloseConnUncounted(f) ==
  /\ CloseFd(f)
  /\ m_sockfd' = [m_sockfd EXCEPT ![f] = -1]
  /\ UNCHANGED m_user_count

\* http_conn::close_conn(), once per connection.
CloseConn(f) ==
  IF m_sockfd[f] # -1
  THEN /\ CloseFd(m_sockfd[f])
       /\ m_sockfd' = [m_sockfd EXCEPT ![f] = -1]
       /\ m_user_count' = m_user_count - 1
  ELSE UNCHANGED <<clientVars, sock, armed, m_sockfd, m_user_count>>

\* cb_func(epollfd, &users_data[f]): m_sockfd is left alone.
CbFunc(f) == CloseFd(f) /\ m_user_count' = m_user_count - 1

\* Mutation of DelTimer: the timer keeps its call-back.
KeepTimer(f) == f \in Fds /\ UNCHANGED timer

\* time_heap::del_timer clears the call-back; the timer stays in the heap.
DelTimer(f) ==
  timer' = [timer EXCEPT ![f] = IF @ = "live" THEN "nulled" ELSE @]

-----------------------------------------------------------------------------
(* Environment: clients, alarm, SIGTERM.                                   *)

Connect(c) ==
  /\ phase[c] = "idle"
  /\ phase' = [phase EXCEPT ![c] = "queued"]
  /\ backlog' = Append(backlog, c)
  /\ lisEdge' = TRUE
  /\ UNCHANGED <<rx, fin, full, sent, inbox, sock, armed, alarm, pipe,
                 pipeEdge, mainVars, m_workqueue, connVars, workerVars>>

\* A client sends one request at a time, a keep-alive one up to Requests.
SendSegment(c) ==
  /\ phase[c] \in {"queued", "up"} /\ ~fin[c]
  /\ sent[c] < Segments * (Len(inbox[c]) + 1)
  /\ sent[c] < Segments * (IF c \in KeepAlive THEN Requests ELSE 1)
  /\ rx' = [rx EXCEPT ![c] = @ + 1]
  /\ sent' = [sent EXCEPT ![c] = @ + 1]
  /\ UNCHANGED <<phase, fin, full, inbox, kernelVars, mainVars, m_workqueue,
                 connVars, workerVars>>

ClientClose(c) ==
  /\ phase[c] \in {"queued", "up"} /\ ~fin[c]
  /\ fin' = [fin EXCEPT ![c] = TRUE]
  /\ UNCHANGED <<phase, rx, full, sent, inbox, kernelVars, mainVars,
                 m_workqueue, connVars, workerVars>>

\* A slow client stops reading, or reads again.
SendBuffer(c) ==
  /\ c \in Slow /\ phase[c] = "up"
  /\ full' = [full EXCEPT ![c] = ~@]
  /\ UNCHANGED <<phase, rx, fin, sent, inbox, kernelVars, mainVars,
                 m_workqueue, connVars, workerVars>>

\* sig_handler writes the signal number to pipefd[1].
AlarmFires ==
  /\ alarm
  /\ alarm' = FALSE
  /\ pipe' = pipe \cup {"ALRM"} /\ pipeEdge' = TRUE
  /\ UNCHANGED <<clientVars, backlog, lisEdge, sock, armed, mainVars,
                 m_workqueue, connVars, workerVars>>

SigTerm ==
  /\ Terminate /\ "TERM" \notin pipe
  /\ pipe' = pipe \cup {"TERM"} /\ pipeEdge' = TRUE
  /\ UNCHANGED <<clientVars, backlog, lisEdge, sock, armed, alarm, mainVars,
                 m_workqueue, connVars, workerVars>>

-----------------------------------------------------------------------------
(* The main thread: TinyWebServer::eventloop.                              *)

\* Mutation of AfterReport: no EPOLLONESHOT.
StaysArmed(f) == armed[f]

\* EPOLLONESHOT: what is reported is disarmed.
AfterReport(f) == IF EventOf(f) = "NONE" THEN armed[f] ELSE "off"

EpollWait ==
  /\ mpc = "wait"
  /\ lisEdge \/ pipeEdge \/ \E f \in Fds : EventOf(f) # "NONE"
  /\ evListen' = lisEdge /\ lisEdge' = FALSE
  /\ evSignal' = pipeEdge /\ pipeEdge' = FALSE
  /\ ev' = [f \in Fds |-> EventOf(f)]
  /\ armed' = [f \in Fds |-> AfterReport(f)]
  /\ mpc' = "dispatch"
  /\ UNCHANGED <<clientVars, backlog, sock, alarm, pipe, timeout,
                 m_user_count, timer, m_workqueue, connVars, workerVars>>

\* dealwithsignal reads every byte: SIGALRM sets timeout, SIGTERM is ignored.
\* A drained pipe is not reported again, whatever edge came in between.
HandleSignal ==
  /\ mpc = "dispatch" /\ evSignal
  /\ evSignal' = FALSE
  /\ timeout' = (timeout \/ "ALRM" \in pipe)
  /\ pipe' = {} /\ pipeEdge' = FALSE
  /\ UNCHANGED <<clientVars, backlog, lisEdge, sock, armed, alarm, mpc,
                 evListen, ev, m_user_count, timer, m_workqueue, connVars,
                 workerVars>>

CanAccept == backlog # <<>> /\ Free # {}

\* One turn of while(connfd > 0): addfd, http_conn::init, timer.
RegisterAt(f) ==
  /\ sock' = [sock EXCEPT ![f] = Head(backlog)]
  /\ phase' = [phase EXCEPT ![Head(backlog)] = "up"]
  /\ armed' = [armed EXCEPT ![f] = "IN"]
  /\ m_user_count' = m_user_count + 1
  /\ timer' = [timer EXCEPT ![f] = "live"]
  /\ m_sockfd' = [m_sockfd EXCEPT ![f] = f]
  /\ InitConn(f)
  /\ backlog' = Tail(backlog)
  /\ mpc' = "accept"
  /\ UNCHANGED <<rx, fin, full, sent, inbox, alarm, pipe, pipeEdge, lisEdge,
                 evListen, evSignal, ev, timeout, m_workqueue, workerVars>>

\* accept returns the lowest free descriptor.
Register == \E f \in Free : (\A g \in Free : f <= g) /\ RegisterAt(f)

\* The first accept of the branch, and the only one preceded by the test of
\* the connection limit.
AcceptFirst ==
  /\ mpc = "dispatch" /\ evListen /\ CanAccept
  /\ m_user_count < MAX_FD
  /\ Register

\* At the limit the new connection is closed and the branch is left: what
\* else is queued waits for the next edge.
AcceptBusy ==
  /\ mpc = "dispatch" /\ evListen /\ CanAccept
  /\ m_user_count >= MAX_FD
  /\ evListen' = FALSE
  /\ backlog' = Tail(backlog)
  /\ phase' = [phase EXCEPT ![Head(backlog)] = "gone"]
  /\ rx' = [rx EXCEPT ![Head(backlog)] = 0]
  /\ UNCHANGED <<fin, full, sent, inbox, lisEdge, sock, armed, alarm, pipe,
                 pipeEdge, mpc, evSignal, ev, timeout, m_user_count, timer,
                 m_workqueue, connVars, workerVars>>

AcceptMore ==
  /\ mpc = "accept" /\ CanAccept
  /\ Register

\* Mutation of AcceptEnd: one connection per event, as with a plain if.
AcceptOnce ==
  /\ mpc = "accept" \/ (mpc = "dispatch" /\ evListen /\ ~CanAccept)
  /\ mpc' = "dispatch"
  /\ evListen' = FALSE
  /\ UNCHANGED <<clientVars, backlog, sock, armed, alarm, pipe, pipeEdge,
                 lisEdge, evSignal, ev, timeout, m_user_count, timer,
                 m_workqueue, connVars, workerVars>>

\* accept returns -1 (EAGAIN or EMFILE).  An empty listen queue is not
\* reported again, whatever edge came in between.
AcceptEnd ==
  /\ mpc = "accept" \/ (mpc = "dispatch" /\ evListen)
  /\ ~CanAccept
  /\ mpc' = "dispatch"
  /\ evListen' = FALSE
  /\ lisEdge' = (lisEdge /\ backlog # <<>>)
  /\ UNCHANGED <<clientVars, backlog, sock, armed, alarm, pipe, pipeEdge,
                 evSignal, ev, timeout, m_user_count, timer, m_workqueue,
                 connVars, workerVars>>

HandleHup(f) ==
  /\ mpc = "dispatch" /\ ev[f] = "HUP"
  /\ ev' = [ev EXCEPT ![f] = "NONE"]
  /\ DelTimer(f)
  /\ CloseConn(f)
  /\ UNCHANGED <<backlog, lisEdge, alarm, pipe, pipeEdge, mpc, evListen,
                 evSignal, timeout, m_workqueue, m_io_state, m_read_buf,
                 m_checked_index, m_read_ret, m_linger, bytes_to_send, answer,
                 workerVars>>

\* Mutation of AppendRequest: the queue is taken to be full one task early.
AppendRequestEarly(f) ==
  m_workqueue' = IF Len(m_workqueue) + 1 < MaxRequests
                 THEN Append(m_workqueue, f) ELSE m_workqueue

\* threadpool::append; its refusal is ignored by the caller.
AppendRequest(f) ==
  m_workqueue' = IF Len(m_workqueue) < MaxRequests
                 THEN Append(m_workqueue, f) ELSE m_workqueue

\* setIOState, append and the refresh of the timer, which stays live.
HandleIO(f, e, state) ==
  /\ mpc = "dispatch" /\ ev[f] = e
  /\ ev' = [ev EXCEPT ![f] = "NONE"]
  /\ m_io_state' = [m_io_state EXCEPT ![f] = state]
  /\ AppendRequest(f)
  /\ UNCHANGED <<clientVars, kernelVars, mpc, evListen, evSignal, timeout,
                 m_user_count, timer, m_sockfd, m_read_buf, m_checked_index,
                 m_read_ret, m_linger, bytes_to_send, answer, workerVars>>

\* Mutation of EndOfBatch: the tick does not wait for the rest of the batch.
TickAtOnce ==
  /\ mpc = "dispatch"
  /\ timeout \/ (~evListen /\ ~evSignal /\ \A f \in Fds : ev[f] = "NONE")
  /\ mpc' = IF timeout THEN "tick" ELSE "wait"
  /\ UNCHANGED <<clientVars, kernelVars, evListen, evSignal, ev, timeout,
                 m_user_count, timer, m_workqueue, connVars, workerVars>>

EndOfBatch ==
  /\ mpc = "dispatch"
  /\ ~evListen /\ ~evSignal /\ \A f \in Fds : ev[f] = "NONE"
  /\ mpc' = IF timeout THEN "tick" ELSE "wait"
  /\ UNCHANGED <<clientVars, kernelVars, evListen, evSignal, ev, timeout,
                 m_user_count, timer, m_workqueue, connVars, workerVars>>

\* Between the report of a piece and the rearming the server is at work, and
\* so it is while it owes the socket a response the socket has room for.
InService(f) ==
  Queued(f) \/ Held(f) \/ (armed[f] = "OUT" /\ sock[f] \notin Slow)

\* time_heap::tick pops one expired timer and runs its call-back, if any.  It
\* compares expire with the clock and nothing else: data that is in the socket
\* but not reported yet does not keep the connection.  Two assumptions on time
\* can be made.  Without Overrun the server's own work takes less than
\* 3 * TIMESLOT.  A client that is not Late sends each piece of a request at
\* least one turn of the loop before its timer ends.
TickExpire(f) ==
  /\ mpc = "tick"
  /\ \/ /\ timer[f] = "live"
        /\ \/ Overrun
           \/ ~InService(f) /\ (EventOf(f) = "IN" => sock[f] \in Late)
        /\ CbFunc(f)
     \/ /\ timer[f] = "nulled"
        /\ UNCHANGED <<clientVars, sock, armed, m_user_count>>
  /\ timer' = [timer EXCEPT ![f] = "freed"]
  /\ UNCHANGED <<backlog, lisEdge, alarm, pipe, pipeEdge, mpc, evListen,
                 evSignal, ev, timeout, m_workqueue, connVars, workerVars>>

\* Mutation of TickEnd: the next alarm is not asked for.
TickEndNoAlarm ==
  /\ mpc = "tick"
  /\ timeout' = FALSE
  /\ mpc' = "wait"
  /\ UNCHANGED <<clientVars, kernelVars, evListen, evSignal, ev, m_user_count,
                 timer, m_workqueue, connVars, workerVars>>

\* timer_handler asks for the next SIGALRM after the tick.
TickEnd ==
  /\ mpc = "tick"
  /\ alarm' = TRUE
  /\ timeout' = FALSE
  /\ mpc' = "wait"
  /\ UNCHANGED <<clientVars, backlog, lisEdge, sock, armed, pipe, pipeEdge,
                 evListen, evSignal, ev, m_user_count, timer, m_workqueue,
                 connVars, workerVars>>

Main ==
  \/ EpollWait \/ HandleSignal
  \/ AcceptFirst \/ AcceptBusy \/ AcceptMore \/ AcceptEnd
  \/ \E f \in Fds : \/ HandleHup(f)
                    \/ HandleIO(f, "IN", "READ")
                    \/ HandleIO(f, "OUT", "WRITE")
                    \/ TickExpire(f)
  \/ EndOfBatch \/ TickEnd

-----------------------------------------------------------------------------
(* The worker threads: threadpool::run calling http_conn::execute.         *)

Goto(w, pc) ==
  /\ wpc' = [wpc EXCEPT ![w] = pc]
  /\ wobj' = IF pc = "idle" THEN [wobj EXCEPT ![w] = -1] ELSE wobj

Take(w) ==
  /\ wpc[w] = "idle" /\ m_workqueue # <<>>
  /\ wobj' = [wobj EXCEPT ![w] = Head(m_workqueue)]
  /\ wpc' = [wpc EXCEPT ![w] = "exec"]
  /\ m_workqueue' = Tail(m_workqueue)
  /\ UNCHANGED <<clientVars, kernelVars, mainVars, connVars>>

Smaller(m, n) == IF m < n THEN m ELSE n

\* m_io_state == HAVE_DATA_TO_READ && read().  read() takes what there is;
\* it returns false when the buffer is or becomes full and when the peer has
\* closed, even if data was read.
CanRead(f) ==
  m_io_state[f] = "READ" /\ Live(f) /\ Len(m_read_buf[f]) < BufferSize

RecvNothing(w) ==
  /\ wpc[w] = "exec" /\ ~CanRead(wobj[w])
  /\ Goto(w, "respond")
  /\ UNCHANGED <<clientVars, kernelVars, mainVars, m_workqueue, connVars>>

RecvData(w) ==
  LET f == wobj[w]
      c == sock[m_sockfd[f]]
      room == BufferSize - Len(m_read_buf[f])
      n == Smaller(rx[c], room)
  IN /\ wpc[w] = "exec" /\ CanRead(f)
     /\ m_read_buf' = [m_read_buf EXCEPT ![f] = @ \o [i \in 1..n |-> c]]
     /\ rx' = [rx EXCEPT ![c] = @ - n]
     /\ Goto(w, IF n = room \/ fin[c] THEN "respond" ELSE "parse")
     /\ UNCHANGED <<phase, fin, full, sent, inbox, kernelVars, mainVars,
                    m_workqueue, m_sockfd, m_io_state, m_checked_index,
                    m_read_ret, m_linger, bytes_to_send, answer>>

\* m_read_ret = process_read().  A request is complete when Segments pieces
\* follow m_checked_index.
Complete(f) == Len(m_read_buf[f]) >= m_checked_index[f] + Segments

ParseMore(w) ==
  /\ wpc[w] = "parse" /\ ~Complete(wobj[w])
  /\ m_read_ret' = [m_read_ret EXCEPT ![wobj[w]] = "NO_REQUEST"]
  /\ Goto(w, "rearm")
  /\ UNCHANGED <<clientVars, kernelVars, mainVars, m_workqueue, m_sockfd,
                 m_io_state, m_read_buf, m_checked_index, m_linger,
                 bytes_to_send, answer>>

\* do_request prepares the file the request asks for.
ParseRequest(w) ==
  LET f == wobj[w]
      c == m_read_buf[f][m_checked_index[f] + 1]
  IN /\ wpc[w] = "parse" /\ Complete(f)
     /\ \E v \in Outcomes : m_read_ret' = [m_read_ret EXCEPT ![f] = v]
     /\ m_checked_index' = [m_checked_index EXCEPT ![f] = @ + Segments]
     /\ m_linger' = [m_linger EXCEPT ![f] = (c \in KeepAlive)]
     /\ answer' = [answer EXCEPT ![f] = c]
     /\ Goto(w, "rearm")
     /\ UNCHANGED <<clientVars, kernelVars, mainVars, m_workqueue, m_sockfd,
                    m_io_state, m_read_buf, bytes_to_send>>

\* Mutation of RearmFor: an incomplete request is not waited for.
RearmForOutput(f, verdict) ==
  IF verdict \in Answered THEN Modfd(f, "OUT") ELSE UNCHANGED armed

\* Only NO_REQUEST and the FILE_* verdicts arm the descriptor again.
RearmFor(f, verdict) ==
  CASE verdict = "NO_REQUEST"  -> Modfd(f, "IN")
    [] verdict = "ERROR" -> UNCHANGED armed
    [] OTHER                   -> Modfd(f, "OUT")

Rearm(w) ==
  /\ wpc[w] = "rearm"
  /\ RearmFor(wobj[w], m_read_ret[wobj[w]])
  /\ Goto(w, "idle")
  /\ UNCHANGED <<clientVars, backlog, lisEdge, sock, alarm, pipe, pipeEdge,
                 mainVars, m_workqueue, connVars>>

\* m_io_state == HAVE_DATA_TO_WRITE && process_write(m_read_ret), which is
\* true only when it has put a response of some bytes together: that of a
\* file, or an error page for some of the verdicts ERROR stands for.
Respond(w) ==
  LET f == wobj[w]
  IN /\ wpc[w] = "respond"
     /\ \/ /\ m_io_state[f] = "WRITE"
           /\ m_read_ret[f] \in Answered \cup {"ERROR"}
           /\ bytes_to_send' = [bytes_to_send EXCEPT ![f] = 1]
           /\ Goto(w, "write")
        \/ /\ ~(m_io_state[f] = "WRITE" /\ m_read_ret[f] \in Answered)
           /\ Goto(w, "idle")
           /\ UNCHANGED bytes_to_send
     /\ UNCHANGED <<clientVars, kernelVars, mainVars, m_workqueue, m_sockfd,
                    m_io_state, m_read_buf, m_checked_index, m_read_ret,
                    m_linger, answer>>

\* write() with nothing to send: modfd(EPOLLIN), then init().
WriteNothing(w) ==
  /\ wpc[w] = "write" /\ bytes_to_send[wobj[w]] = 0
  /\ Modfd(wobj[w], "IN")
  /\ Goto(w, "reset")
  /\ UNCHANGED <<clientVars, backlog, lisEdge, sock, alarm, pipe, pipeEdge,
                 mainVars, m_workqueue, connVars>>

\* writev fails: on a closed descriptor, with EPIPE or ECONNRESET once the
\* client has closed, or with EAGAIN once m_io_state is no longer
\* HAVE_DATA_TO_WRITE.  unmap(), return false.
WriteFails(w) ==
  LET f == wobj[w]
  IN /\ wpc[w] = "write" /\ bytes_to_send[f] # 0
     /\ Live(f) => \/ full[sock[m_sockfd[f]]] /\ m_io_state[f] # "WRITE"
                   \/ fin[sock[m_sockfd[f]]]
     /\ answer' = [answer EXCEPT ![f] = NoClient]
     /\ Goto(w, "idle")
     /\ UNCHANGED <<clientVars, kernelVars, mainVars, m_workqueue, m_sockfd,
                    m_io_state, m_read_buf, m_checked_index, m_read_ret,
                    m_linger, bytes_to_send>>

\* writev fails with EAGAIN: continue, that is, call writev again.
WriteAgain(w) ==
  LET f == wobj[w]
  IN /\ \/ /\ wpc[w] = "write" /\ bytes_to_send[f] # 0 /\ Live(f)
           /\ full[sock[m_sockfd[f]]] /\ m_io_state[f] = "WRITE"
           /\ Goto(w, "again")
        \/ wpc[w] = "again" /\ Goto(w, "write")
     /\ UNCHANGED <<clientVars, kernelVars, mainVars, m_workqueue, connVars>>

\* writev sends the response, unmap() drops the file.
WriteDone(w) ==
  LET f == wobj[w]
      c == sock[m_sockfd[f]]
  IN /\ wpc[w] = "write" /\ bytes_to_send[f] # 0 /\ Live(f) /\ ~full[c]
     /\ inbox' = [inbox EXCEPT ![c] = Append(@, answer[f])]
     /\ bytes_to_send' = [bytes_to_send EXCEPT ![f] = 0]
     /\ answer' = [answer EXCEPT ![f] = NoClient]
     /\ Goto(w, "done")
     /\ UNCHANGED <<phase, rx, fin, full, sent, kernelVars, mainVars,
                    m_workqueue, m_sockfd, m_io_state, m_read_buf,
                    m_checked_index, m_read_ret, m_linger>>

\* The end of write(): the descriptor is armed for input first, and only
\* then is m_linger read and does a keep-alive connection run init().
AfterWrite(w) ==
  LET f == wobj[w]
  IN /\ wpc[w] = "done"
     /\ Modfd(f, "IN")
     /\ Goto(w, "linger")
     /\ UNCHANGED <<clientVars, backlog, lisEdge, sock, alarm, pipe, pipeEdge,
                    mainVars, m_workqueue, connVars>>

TestLinger(w) ==
  /\ wpc[w] = "linger"
  /\ Goto(w, IF m_linger[wobj[w]] THEN "reset" ELSE "idle")
  /\ UNCHANGED <<clientVars, kernelVars, mainVars, m_workqueue, connVars>>

Reset(w) ==
  /\ wpc[w] = "reset"
  /\ InitConn(wobj[w])
  /\ Goto(w, "idle")
  /\ UNCHANGED <<clientVars, kernelVars, mainVars, m_workqueue, m_sockfd>>

Worker(w) ==
  \/ Take(w) \/ RecvNothing(w) \/ RecvData(w) \/ ParseMore(w)
  \/ ParseRequest(w) \/ Rearm(w) \/ Respond(w)
  \/ WriteNothing(w) \/ WriteFails(w) \/ WriteAgain(w) \/ WriteDone(w)
  \/ AfterWrite(w) \/ TestLinger(w) \/ Reset(w)

Environment ==
  \/ \E c \in Clients : \/ Connect(c) \/ SendSegment(c) \/ ClientClose(c)
                        \/ SendBuffer(c)
  \/ AlarmFires \/ SigTerm

Next == Main \/ (\E w \in Workers : Worker(w)) \/ Environment

Spec == Init /\ [][Next]_vars

\* The scheduler runs the main thread and every worker, the alarm fires, and
\* a timer that nobody refreshes is some day found expired by tick().
\* Nothing is assumed of the clients.
Fairness ==
  /\ WF_vars(Main)
  /\ \A w \in Workers : WF_vars(Worker(w))
  /\ WF_vars(AlarmFires)
  /\ \A f \in Fds : SF_vars(TickExpire(f))

FairSpec == Spec /\ Fairness

-----------------------------------------------------------------------------
(* Properties.                                                             *)

\* A timer armed to close a descriptor and an open connection are the same
\* thing: no connection is left without a timer, and cb_func never closes a
\* descriptor that is not its own (webserverhttp.cpp 33-39, 263-294).
TimerOwnsSocket == \A f \in Fds : timer[f] = "live" <=> sock[f] # NoClient

\* http_conn::m_user_count, decremented in cb_func and in close_conn, counts
\* the open connections (http_conn.cpp 83, 128; webserverhttp.cpp 38).
UserCount == m_user_count = Cardinality(Open)

\* An event of the batch in hand is about a connection that is still open:
\* no handler runs on a descriptor closed earlier in the same batch
\* (webserverhttp.cpp 231-355).
BatchIsFresh == \A f \in Fds : ev[f] # "NONE" => /\ sock[f] # NoClient
                                                 /\ m_sockfd[f] = f

\* The chain of ticks never breaks: an alarm is pending, or its byte is on
\* the way to the loop, or the loop owes a tick (webserverhttp.cpp 46-48,
\* 356-359).
TickChain ==
  \/ alarm
  \/ "ALRM" \in pipe /\ (pipeEdge \/ evSignal)
  \/ timeout /\ mpc # "wait"

\* The listening socket is edge-triggered, so nobody may wait in its queue
\* without an edge to report or an accept loop at work.  Holds as long as the
\* connection limit and the descriptors are not used up
\* (webserverhttp.cpp 237-272).
BacklogWatched == backlog # <<>> => lisEdge \/ evListen \/ mpc = "accept"

\* EPOLLONESHOT at work: a connection is armed, or in the batch, or queued,
\* or held by a worker that may still change it, and never two of these
\* (http_conn.cpp 46-49, 62-70).
Owners(f) ==
  Cardinality({i \in 1..Len(m_workqueue) : m_workqueue[i] = f})
    + Cardinality({w \in Workers : Owns(w, f)})
    + (IF armed[f] # "off" THEN 1 ELSE 0)
    + (IF ev[f] # "NONE" THEN 1 ELSE 0)

OneOwner == \A f \in Fds : Owners(f) <= 1

\* Every response reaches the client whose request it answers, and no request
\* is answered twice (http_conn.cpp 830-864, 712-783).
OwnAnswers ==
  \A c \in Clients :
    /\ \A i \in 1..Len(inbox[c]) : inbox[c][i] = c
    /\ Segments * Len(inbox[c]) <= sent[c]

\* Nothing runs short: every request asks for a file that is there and fits
\* the buffer, no client stops reading, and the task queue has room for every
\* connection.
Steady ==
  /\ Outcomes \subseteq Answered /\ Segments < BufferSize
  /\ Slow = {}
  /\ Cardinality(Fds) <= MaxRequests

\* What the clients see of the state.
Served == {sock[f] : f \in Open}
Gone == {c \in Clients : phase[c] = "gone"}
HungUp == {c \in Clients : fin[c]}
Asked == [c \in Clients |-> sent[c] \div Segments]
Taken == {c \in Served : sent[c] - rx[c] >= Segments * (Len(inbox[c]) + 1)}

Service == INSTANCE HttpService WITH
  Limit <- MAX_FD, Room <- Cardinality(Fds),
  queue <- backlog, served <- Served, left <- Gone, hungUp <- HungUp,
  asked <- Asked, replies <- inbox, inWork <- Taken

\* What the threads, events and timers come to for the clients: connections are
\* served in the order they were made and refused at the limit only, answers
\* go to those who asked and never twice, and if nothing runs short no client
\* that is owed an answer is closed on, unless it is a late one whose request
\* the server has not read yet (webserverhttp.cpp 220-375; timer.cpp 93-108;
\* http_conn.cpp 712-864).
ImplementsService == Service!Spec

\* Whatever the workers and the clients do, and whatever append refuses, every
\* accepted connection is closed in the end (webserverhttp.cpp 281-294,
\* 356-359; timer.cpp tick).
Reclaimed == \A c \in Clients : phase[c] = "up" ~> phase[c] = "gone"

\* A connected client whose request has been sent in full and is well formed
\* gets a response or has given up.  Of a late client this is asked only once
\* the server has read the request: until then the tick may close the
\* connection, request and all (http_conn.cpp 830-853; timer.cpp 93-108).
RequestAnswered ==
  \A c \in Clients :
    (phase[c] = "up" /\ sent[c] = Segments /\ (c \in Late => rx[c] = 0))
      ~> (inbox[c] # <<>> \/ fin[c])
=============================================================================
