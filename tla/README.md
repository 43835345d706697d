# rtdm-tinyserver in TLA+

A verification project for rtdm-tinyserver, a C++ server that receives
spectrometer frames over TCP and shows them, with a small user administration,
to browsers over HTTP. The project holds TLA+ models of its components, the TLC
configurations that check them on small instances, and TLAPS proofs that hold
for every value of the constants. Paths below are relative to `src/src/` of the
repository unless they start with `src/`.

## 1. The system

`main` (main.cpp:65-86) starts two threads, one running the HTTP server, one
running the frame receiver, and joins them. They share one buffer.

| Component | Code | State it keeps | Operations |
|---|---|---|---|
| Event loop `TinyWebServer` | webserverhttp/ | `users[fd]`, `users_data[fd]`, `pipefd`, `timeout`, `stop`, the epoll set | `eventListen`, `eventloop` (accept, signal, hang-up, input, output, tick), `cb_func`, `timer_handler`, `dealwithsignal`, `sql_pool` |
| Connection `http_conn` | http_connection/ | socket, read buffer and its indices, parser state, verdict, response, `m_user_count` | `init`, `read`, `process_read`, `do_request`, `process_write`, `write`, `execute`, `close_conn`, `initmysql_result` |
| Thread pool `threadpool<T>` | threadpool/, lock/ | `m_workqueue`, `m_mutex`, `cv`, the detached threads | `append`, `run` |
| Timer heap `time_heap` | timer/ | `array`, `cur_size`, each timer's `expire`, `cb_func`, `m_index` | `add_timer`, `del_timer`, `adjust`, `pop_timer`, `tick` |
| Connection pool | CGImysql/, lock/ | `connList`, `m_FreeConn`, `m_CurConn`, `lock`, `reserve` | `init`, `GetConnection`, `ReleaseConnection`, `DestroyPool`, `connectionRAII` |
| User table | http_connection/http_conn.cpp:6-7, 383-443, 866-897 | the map `users`, `m_lock`, the table `labuser` | register, login, reload on every accept |
| Frame receiver `APPTCP` | apptcpsocket/ | `splic_pack_buffer`, `splic_index`, `last_loop_buffer`, `last_loop_length` | `dataReceiverThread`, `parsePkg`, `parse_data_frame` |
| Shared buffer | sharedbuffer/ | `spec_share_buf`, `Json_share_buf`, `bufferMutex` | written by the receiver, read by the HTTP workers |
| Logger | log/, mutex/, fileutil/, singleton/ | loggers, appenders, formatters, levels, files | `log`, `addAppender`, `setFormatter`, `reopen`, `getLogger`, pattern parsing |
| Configuration | config/ | defaults | `parse_arg` (never called) |
| JSON library (vendored jsoncpp) | jsoncpp-update/ | `Value`: type and content; a reader: place, errors, comments, last value; a writer: text, indentation | operations of `Value`, conversions, order, paths; `Reader` and `OurReader`; four writers |

How they interact:

* Main loop and workers share the `http_conn` objects and the epoll set, with no
  lock. EPOLLONESHOT keeps them apart: a reported descriptor stays silent until
  a worker arms it again with `modfd`.
* The loop is the only producer of `threadpool<http_conn>`, the workers are its
  consumers, and the only user of the timer heap, whose call-backs close
  connections.
* SIGALRM and SIGTERM handlers write a byte into a pipe the loop reads;
  `alarm` is asked for again after each tick.
* The loop takes a database connection at every accept to reload the user
  table; it keeps the pointer in the `http_conn` after giving the connection
  back, and workers use that pointer to register users.
* The receiver thread writes the shared buffer under `bufferMutex`; the workers
  read it without.
* The receiver builds the text for `/jsondata` with a `Json::Value` and its
  `toStyledString` (apptcpsocket.cpp:247-251). The rest of the library is there to be
  used by whoever extends the server.

What is hard here: two workers in one connection, or a worker and the loop; a
descriptor number reused while something still refers to its former owner; a
tick against the events of the same batch; refused tasks; edge-triggered
readiness forgotten; timers freed while still referred to; semaphore and list
of the connection pool updated in two steps; frames cut and joined by TCP; a
request cut anywhere, in an object that has served others before; partial writes
against two buffers; a map and a database handle shared without a lock; three
levels of spinlocks in the logger; arrays with holes, readers that go on after an
error, comments that find their value by what was read last, numbers at the edges of
four integer types.

What makes each component correct:

* event loop and connections: one owner at a time, a timer for exactly the open
  connections, an exact connection count, no event handled on a closed
  descriptor, an unbroken chain of ticks, every connection reclaimed, every good
  request answered, answers never crossing connections;
* thread pool: no task lost, duplicated or reordered, no worker asleep while
  there is work, the bound never passed;
* timer heap: exactly the due timers fire, each once, earliest first, and
  `m_index` tells where a timer is;
* connection pool: a connection has one holder, the semaphore never promises a
  connection the list does not have, the two counters add up;
* parser and response: the verdict is the one the request's words call for, however
  they arrive and whatever the object did before, except where a flag of an earlier
  request is looked at; the client gets header and body in order, and in full unless
  `writev` fails;
* user table: a name is acknowledged once and then stored, a name on which map and
  table agree keeps its password, queries do not meet on a handle, requests end;
* receiver: what is handed on is a frame as sent, in order and once, however TCP
  cuts the stream and whatever is left of a lost connection; no frame is lost;
  nothing is written outside a buffer; parsing ends;
* logger: lines are not mixed, no formatter goes while a line is written with it, a
  renamed file is let go in time, no deadlock between the locks of loggers and
  appenders; a pattern means what it was written from;
* JSON: what is written is read back as the same value, a document is read if it is
  JSON and as what it says, errors and offsets are where they belong, conversions lose
  nothing that they do not announce, values are in one order, an array is a list.

## 2. Modules

| Module | What it is | Lines of code it stands for |
|---|---|---|
| `Reactor` | event loop, connections and workers, with clients and kernel as environment | webserverhttp.cpp 33-375; http_conn.cpp 39-155, 712-864 and the shape of the rest |
| `HttpService` | what it promises its clients: admitted in order, answered, parted from | the same |
| `ThreadPool` | `append` and `run` between the operations on mutex and condition variable | threadpool.h 71-199 |
| `TaskQueue` | what the pool promises: a bounded first-in first-out queue | the same |
| `TimeHeap` | the array heap, one round of a percolation loop per step | timer.cpp, timer.h 43-95 |
| `TimerService` | what the heap promises: a tick calls back exactly the due timers | the same |
| `SqlPool` | the connection pool between list, mutex, semaphore and counters | sql_connection_pool.cpp |
| `ConnectionPool` | what it promises: each connection free or held by one thread | the same |
| `TcpFraming` | the receiver: segments spliced, frames cut, leftovers, reconnects | apptcpsocket.cpp 70-228, apptcpsocket.h |
| `Accounts` | registration, login and reload over the map, `m_lock`, the table and the handles | http_conn.cpp 5-7, 361-452, 866-897 |
| `HttpRequest` | `read` and the parser of one `http_conn`, with the client and TCP as environment | http_conn.cpp 92-347, 492-529 |
| `HttpConn` | extends it with the response, the next request and the next client, and the shared buffers | http_conn.cpp 532-785; apptcpsocket.cpp 230-269; sharedbuffer.cpp |
| `LogPattern` | the pattern parser as a function, and what patterns mean | log.cc 446-559 |
| `Logger` | loggers, appenders and their locks under several threads, files and their rotation | log.cc 86-94, 247-408; log.h 42-49; mutex.h 48-92, 352-388; futil.cc 208-217 |
| `JsonText` | bytes: numbers and strings as text, UTF-8 | json_writer.cpp 92-316; json_tool.h 36-87 |
| `JsonValue` | `Value`: its types, operations, conversions, order, paths | json_value.cpp 40-87, 300-1000, 1031-1614 |
| `JsonLexer` | tokens, comments and escapes of both readers | json_reader.cpp 84-89, 248-461, 642-751, 785-789, 1204-1302, 1385-1434 |
| `JsonReader` | the recursive descent, its errors, offsets and comments | json_reader.cpp 126-246, 463-640, 753-781, 843-895 |
| `JsonReaders` | `Reader` and `OurReader`, as two instances of it | json_reader.cpp 67-79, 609-629, 1045-1784, 1841-1889, 1974-2003 |
| `JsonWriters` | `FastWriter`, and three editions of the styled writer | json_writer.cpp 337-1208 |
| `JsonList` | what value.h promises of an array: a list | value.h |
| `Json` | a program that builds a value or has a document typed; the properties | json_value.cpp; jsontestrunner/main.cpp 140-206 |
| `XProofs` | theorems about `X`, with their proofs | - |
| `MCX` and `MCX*.cfg` | instances of `X` for TLC | - |

How they fit: `Reactor` uses the task queue and the timers at the level of
`TaskQueue` and `TimerService` - `AppendRequest` and `Take` are `Put`/`Refuse`
and `Get`, `TickExpire` is `Fire` - and the modules `ThreadPool` and `TimeHeap`
are shown to implement these levels. `Reactor` in turn is shown to implement
`HttpService`, which knows of clients only. `Accounts` takes its handles from the pool the
way `ConnectionPool` promises them, and keeps them longer than that. `Reactor` shows
which threads may be in an `http_conn` at once and knows a request as a verdict and
a response as a token; `HttpConn` and `Accounts` look into one request and assume the
connection to be in one hand. `TcpFraming` is the other thread of the program;
what it hands on reaches `HttpConn` through the shared buffers.

### Reactor

Names follow the code. `mpc` says where `eventloop` is: in `epoll_wait`, in the
`for` over `events` ("dispatch"), in the inner accept loop, in `timer_handler`.
The events of one batch are `evListen`, `evSignal` and `ev[fd]`; they are handled
in any order, as the kernel may list them in any. A worker's `wpc` follows
`execute()`: `recv`, `process_read`, re-arming, `process_write`, `writev`, and the
three steps at the end of `write()` in their order: `modfd`, the test of
`m_linger`, `init()`. `users[fd]` is a row of the `m_*` functions and outlives the
connection, as in the code; what `init()` does not reset stays.

Data are abstracted: a request is `Segments` pieces, a response is the name of
the client whose request it answers, the parser's verdict is any member of
`Outcomes` once the pieces are there. Time is the choice of which timers a tick
finds expired. The tick compares `expire` with the clock and nothing else, and
`expire` is set anew only when an event is handled (webserverhttp.cpp:304-309), so a
client whose request lies in the socket when its 3 * TIMESLOT end is closed unanswered.
What is assumed of time is in the guard of `TickExpire`, in two parts. With
`Overrun = FALSE` the server's own work on a connection - the queue, a worker, a
response the socket has room for - takes less than 3 * TIMESLOT; with `Overrun = TRUE`
any timer may be due at any time. A client in `Late` may send a piece at the moment its
timer ends; any other is assumed to send it at least one turn of the loop before.

The branches after `setIOState` returns false and the sweep of `close_list` are
left out: `setIOState(0)` and `setIOState(1)` always return true, and a
`shared_ptr` in `users` never has the use count 0 or 1 that the branches test for.
`process()` is not called by anyone.

`HttpService` sees of all this the listen queue, who is behind a descriptor, who has
gone, who has hung up, how many requests each client has sent in full and what each has
received, and whose request the server has taken in hand. An `accept` is `Admit` or
`Refuse`, reading the last piece of a request is `TakeUp`, the end of a `writev` is
`Reply`, a hang-up handled or a timer expired is `Part`; every other step of the loop
and the workers is none. `Part` may close on a client that is owed an answer if the
client is a late one whose request has not been taken in hand; on others only if the
instance is not `Steady`: all verdicts are those that are answered, buffer and task
queue suffice, nobody stops reading. The code promises no more: it ignores refusals of
`append`, and verdicts without a response are left to the timer.

### TimeHeap

The array with a hole is modelled as the code has it: `hole` and `temp` are the
local variables of the percolation loops, `Store` is the pair of assignments that
ends each round. `Fire` is one turn of the loop in `tick()`, `pop_timer` included.
`Refresh` is what the event loop does on activity (webserverhttp.cpp 304-309): set
`expire` and call `adjust`. A timer is its address and may be allocated again.
The clock never goes backwards; the code needs that too, since `adjust` only
percolates down.

### ThreadPool

A step is one operation on the mutex, the condition variable or the list. A
waiting worker may wake without a notification. `Workers` are the threads the
constructor managed to start. `Destroy` is `~threadpool`, run when `epoll_wait`
fails and the event loop ends.

### SqlPool

A thread's `pc` goes through `GetConnection` (test of the size, semaphore, lock,
list, counters, unlock), use, and `ReleaseConnection` (lock, list, counters,
unlock, semaphore), as a `connectionRAII` does. The test of the size is a read
without the lock; it sees the list before or after a concurrent change.
`DestroyPool` runs in the destructor of a static object, with no thread inside.
In today's server the event loop is the only caller; the pool is modelled, as its
README promises it, for any number of threads.

### TcpFraming

A step is one `recv` and its splicing, the beginning of `parsePkg`, one round of its
loop, or the saving of what is left. Bytes are scaled to cells: header, length and
check are one cell each, and the sizes of the instances keep the proportions of
2047, 5139, 8192 and 16384, the last a multiple of what `uint8_t` counts. A cell is
named by its place in the stream, so that a frame handed on can be compared with
what was sent; buffers are kept whole, stale cells included, because `memcpy` copies
them. The copy at apptcpsocket.cpp:224 takes as many bytes as `last_loop_buffer` has from
wherever the frames ended; when that is inside `last_loop_buffer` itself it reads behind
its end, and what lies there is any member of `Outside`. The card is the environment: it
may be cut off anywhere and starts anew with a whole frame. What it puts between length
and check is `Noise`.

### Accounts

A worker's `wpc` follows `do_request` from the look-up to the page: `find`, `lock`,
the query and its answer, `insert`, unlock; the loop's `lpc` follows
`initmysql_result`. `users` is a `std::map` used by several threads with no common
lock. That is undefined behaviour, and the model takes what a build can produce: a
search while another thread links a node may miss what is there, and of two nodes
linked at once either may be lost. Two queries at the same time on one `MYSQL`
object may answer anything. A name to which either of these has happened is
`spoilt`, and the properties leave it out; what they say holds for all others.
Names and passwords are values: how they are cut out of the body and put into the
statement is not modelled. The schema of `labuser` is not in the repository:
`UniqueKey` says whether it refuses a second row for a name. A restart (a crash, or
the `NULL` a failed SELECT gives to `mysql_num_fields`) keeps the table only.

The `else` at http_conn.cpp:421 belongs to the `if` inside the logging macro; the
model has it so, with `LogsInfo` for the level of the logger. A request served on a
kept-alive connection replaces the handle by a fresh `mysql_init` (`Page`).

### HttpRequest and HttpConn

The buffer holds cells: a word of the request, CR, LF, or the NUL the parser writes.
The indices are the code's. `NextLine` is a turn of the loop of `process_read` that
has found a line, `NoMoreLines` the one that has not; `RequestLine`, `HeaderLine`,
`EndOfHeaders`, `Content` and `LineInContent` are what the turn does with it.
A response is a sequence of cells named by where they come from, so that what the
client has received can be compared with what it asked for. One `writev` takes any
number of cells; a write inside the header can end short `HeaderCuts` times.
`writev` may also fail: with nothing at the address of the second iovec ("dead"), or
because the client has gone ("lost"). `m_post_cgi` is set by a POST and cleared by
nobody, and the constructor does not set it; `do_request` takes it for "this is a POST"
(http_conn.cpp:364), so a GET of a form's URL may be led to one of `FormPages` by an
earlier request, of an earlier client even. `Number` is what `atol` makes of a word, and
need not be the length of the body; a negative one, with which `parse_content` writes
its NUL in front of the body or of the buffer (312), is left out by assumption.
`parse_data_frame` writes the spectrum in two halves, the text, and its length, and
the HTTP side reads all three with no lock. A response with which the receiver
interferes is `spoilt` and only has to end. One http_conn is followed through two
clients; its constructor initialises nothing, so `m_file_address` starts as anything.

### LogPattern and Logger

`LogFormatter(p)` is the loop of the constructor as a function on the number of its
rounds (`Rounds`); `Written` goes the other way, from pieces to the pattern, and `ParsedAsWritten`
compares, for pieces that can be told apart (`Separable`). `Piece` is what an author may
write at all; the run takes sequences of up to three of thirteen pieces.

In `Logger` a thread's `pc` goes through `Logger::log` (lock, or the lock of the root as
well), through each appender (level, `m_lastTime` read without the lock, `reopen`,
`m_lastTime` written without it, lock, the items of the formatter one by one) and back.
The text of a file is kept as its last two cells, which is what the property compares.
The file appender may be shared by both loggers (`Setups`): with one logger its lock
alone would order everything. Both classes' `setFormatter` may be given a null pointer,
which appenders keep (log.cc:91) and loggers hand on; `log()` calls `format` through it
without a test (373, 406), and the process ends there: `pc` is "crash" and nobody takes
another step. `nulled` remembers who was set to null. The interval of three seconds is
`Interval`. An event's time is read when the call begins, so events may reach the
appender out of order.

### JSON

A text is a sequence of bytes; the signs that matter have names. A double is
`<<"finite", m, e>>` for m * 10^e, or a named special value: what the properties need of
doubles is their order, their integer part, their printed form and that the two largest
integers are none. The ranges of the integer types are scaled down (`MaxInt`,
`MaxLargestInt`); how their limits lie to each other and to the doubles is kept. A value
is its type and content; an array is a function on the indices that something was stored
for, as the map of the code has it, so that it may have holes. Comments and offsets are
not in the value but beside it, by the path of the value they belong to.

`JsonReader` follows `readValue`, `readObject` and `readArray` function by function; a
loop of the code is a recursive operator, an error return ends in `RecoverFromError`. The
source calls `OurReader` an exact copy of `Reader`. It is one except for its tokens, its
reading of doubles and its numbers as names, and these three are the parameters
with which `JsonReaders` instantiates the module twice. The three styled writers are
one algorithm as well; `style.edition` says where they differ.

In `Json` the program fills a root through a spare value (`operator=`, `swap`,
`operator[]`, `append`, `resize`, `clear`, `removeIndex`, and `removeMember` by name and by
C string), or a document is typed from pieces. Every state is then written, read,
converted and compared in the invariants; `ImplementsList` is about the steps. `thrown`
says whether the last call failed an assertion; a program that catches it goes on with
what the call has left. A document is typed on as long as it may become right, with a
sign for its last piece; behind a piece that has made it wrong up to `MaxWrong` pieces of
`Behind` follow, brackets, a string and a comment with brackets inside, since the reader
goes on to the next bracket it knows as a token. Recursive operators keep these modules out of reach of the
proof system.

## 3. What TLC checks

| Run | Instance | Shows |
|---|---|---|
| `reactor_exclusive` | 2 clients, 2 descriptors, limit 1, 2 workers, requests in 2 pieces, well formed; no keep-alive, no overrun | one owner per connection, answers reach their client once, the listen queue is never forgotten, each request is answered or its client has gone; loop, events, workers and timers come to `HttpService`: first come, first served, refused at the limit only, nobody closed on while owed an answer unless it is late with its request; the second client is `Late` |
| `reactor_reclaim` | 2 clients on 1 descriptor, 1 worker, queue of 1, keep-alive, a slow client, all verdicts, overrun, SIGTERM | even then a live timer is an open connection, no event is handled on a closed one, the count is exact, the chain of ticks goes on, and every accepted connection is closed in the end |
| `reactor_keepalive` | 1 keep-alive client, 2 workers | **violated**: two owners |
| `heap` | 4 timers, delays 1 and 2, 4 instants | no timer lost or doubled; each tick calls back exactly the due timers, earliest first (refinement of `TimerService`) |
| `pool` | 3 workers, 2 tasks, queue of 2, 5 appends, the loop may end | no lost wake-up, every task executed unless the pool is deleted first, refinement of `TaskQueue` |
| `sql_pool` | 3 threads, 2 connections, 4 calls | semaphore and list, counters, service, refinement of `ConnectionPool` |
| `tcp` | 4 frames of 5 cells, segments of 1 or 2, 2 connections, headers among the data | no write outside a buffer and no parsing either, `parsePkg` returns, a frame found among what has just come is whole and newer than all handed on before |
| `tcp_frames` | 8 frames, 1 connection, quiet data | **violated**: a frame composed of two is handed on, those in between are lost |
| `accounts` | 2 workers, 2 names, 2 passwords, 1 row at the start, 2 handles, 3 accepts, 2 requests, 1 restart, queries may fail | acknowledged once and stored, a settled name keeps its password, queries apart, requests end |
| `http` | 1 object, 2 clients, 2 requests of 11 kinds, every cut, writes of any size, 2 frames of the receiver | verdict, method, keep-alive and body are the request's, and so is the URL but for a GET of a form; no complete request waits, unless its body was cut; responses in order, and in full unless `writev` fails |
| `logger` | 2 threads, 2 loggers, console and 1 file, 2 lines, 1 change of configuration, 1 rotation; 2380 sequences of pieces | lines whole, no formatter missing that was not set to null, rotation noticed in time, calls return, patterns parsed as written |
| `json` | values of up to 4 nodes from 5 samples, 3 names, arrays up to 3; 36 edges of the number types; documents of up to 6 pieces out of 2 scalars, 6 signs and 3 comments (the sixth a sign), and of up to 5 with 1 or 2 behind an error | what any writer makes of a value without NaN is read back by both readers; documents are read by their grammar, with offsets and errors in place, and refused whatever stands behind the error; comments survive being written and read again; conversions agree with what they announce; values are in one order; an array is a list (refinement of `JsonList`), but for two calls that cut one with places nobody has filled |

Why the bounds are enough to be interesting: two clients are needed for a descriptor to
change hands and for a batch of two events, two workers for an interleaving inside one
connection, two pieces for a request that waits for its rest; three workers or threads
over a resource of two make somebody wait while another passes; four timers give a heap
of three levels with a parent of one child, and more allocations than the array has
slots free. Bounds that cut behaviour are named: `Requests` (keep-alive requests of a
client), `MaxAppends`, `MaxTime`, `MaxHandles` (calls of `GetConnection`), `Frames`,
`Connections`, `MaxAccepts`, `MaxRequests`, `MaxCrashes`, `MaxClients`, `HeaderCuts`,
`Lines`, `Configs`, `Rotations`, `MaxNodes`, `MaxSize`, `MaxPieces`, `MaxWrong`. Two
requests of two workers, or of a worker before and after a reload or a restart, are what
every property of `accounts` can be broken with, as its mutants show; two clients and
two requests are one more than what `init()` has to separate; two lines of two threads
around one rotation and one change of configuration are the smallest case in which the
two loggers meet in the shared appender; the clock has two instants there and the
interval is one, so that an event can be due or not, and late or not, on either side of
an opening and of the rotation.

In `json` four nodes are a container in a container with a spare value beside it, or a
container with two entries and a spare one, which is what order, holes and removal are
about; six pieces are an object with one member and something before or inside it (a
comma behind the member among them), an array of two elements with a comma or a comment
more, or a container with a value and a comment before and behind it. Two pieces behind an error are enough for a
bracket that is taken and for one that is not, being in a string or a comment, with
something behind it. `Samples` has one value of each
kind, with a string that needs every sort of escape; `Edges` are each limit of each type
with its neighbours, as integers and as doubles, and they are held alone, since what is
said of them does not depend on where they are. `Names` are empty, plain, and
with a NUL. `RightMargin` makes arrays of short texts fall on both sides of it.
`StackLimit` is above every depth that occurs.

Clients and workers are
interchangeable, and so are timers; symmetry is used in runs without liveness
properties only. In `sql_pool` deadlock is allowed because the pool may have been
destroyed or the calls be used up, in the `tcp`
runs because the card stops sending, in `accounts`, `http` and `logger` because
requests, clients and calls are used up, in `json` because a document has all its pieces.

Fairness. The scheduler runs every thread (weak fairness of the loop and of each
worker), SIGALRM comes once it has been asked for, `execute()` and database queries
return. In the reactor strong fairness of `TickExpire` says that a timer nobody
refreshes for ever is found due by some tick: time passes. Nothing is assumed of
clients: they may stop in the middle of a request. The mutexes and the semaphore need no
more than weak fairness of the threads; that a *particular* thread gets a connection
would need a fair semaphore, which POSIX does not promise, so `WaitersServed` speaks of
some thread. `RequestsEnd` and `CallsReturn` do speak of each thread: with so few calls
nobody can be overtaken for ever. The receiver thread runs; the card may fall silent at
any point.

## 4. What the violations show

* `http_conn::write` arms the descriptor for input (http_conn.cpp:766) before it
  reads `m_linger` and runs `init()`. The next request of a keep-alive client can
  be queued and executed by a second worker meanwhile, and the first then resets
  the object under it. The comment at http_conn.cpp:47 wants one thread at a time.
* `parsePkg` compares the rest of a batch with `(uint8_t)sizeof(last_loop_buffer)`
  (apptcpsocket.cpp:220), which is 0, and so saves any rest with the length of the
  whole buffer, stale bytes included. The next batch is not put behind the rest but
  further on, and the frame between the two is lost; a first batch is more than one
  frame and less than two long, so the second frame already is. Later the header at
  the end of a rest can stand before the end of an older frame, check value and all,
  and the mixture is handed on; with other proportions of the sizes frames are also
  handed on twice or late. The check value notices none of this. Four frames are too
  few to see it: in run `tcp` everything handed on happens to be whole. What
  does hold, for any number of frames, is `FreshFramesWhole`: a frame whose header lies
  in the batch itself, and not in the rest before it, is handed on as it was sent, as long
  as data hold neither the check value nor a header's with a length behind it.

Also seen in the models, with no run of their own:

* Reactor. `execute` re-arms only for NO_REQUEST and the FILE verdicts
  (http_conn.cpp:837-849): after a bad, forbidden or missing request nothing happens
  until the timer closes the connection, and the pages for 400, 403, 404 and 500 in
  `process_write` are unreachable. On EAGAIN `write` calls `writev` again at once
  (http_conn.cpp:735), so a worker spins as long as a client does not read, against
  the comment at 729. The connection limit is tested once per event, so that
  clients already queued pass it, and at the limit all but one of the listen queue are
  left without an edge (webserverhttp.cpp:244-251). A request that has arrived but not
  been reported does not keep its connection from the tick (timer.cpp:93-108).
* Pools and timers. `m_stop` (threadpool.h:57) is set by the destructor and read by
  nobody; when `pthread_create` fails the constructor reads the entry it has just removed
  (threadpool.h:114); `GetConnection` creates a MYSQL object that it does not use
  (sql_connection_pool.cpp:68); `pop_timer` on the last timer percolates the timer
  it has just deleted (timer.cpp:79-81).
* Accounts. A name whose INSERT failed is entered into `users` all the same and can log
  in until the next restart, though the comment at http_conn.cpp:429 speaks of the table.
  Without a unique key a name can be registered twice, since it is looked up
  before the lock is taken (406). A worker's INSERT and the loop's SELECT may meet on one
  handle (412). On a kept-alive connection every registration after the first request
  fails, its handle being a fresh one.
* Requests. `parse_content` is given a text that begins at `m_start_line`, which every turn
  of the loop moves (http_conn.cpp:169-170), and compares with `m_checked_index`, which a
  line end inside the body moves. A body of which `read()` has taken only a part is
  therefore never found complete, and the connection waits until its timer closes it.
  `WholeRequestDecided` names this case (`bodyCut`) and shows that there is no other.
  `m_post_cgi` (231) is never cleared: after a POST a GET of `/2...` or `/3...` runs the
  login or registration of an earlier body, against the comment at http_conn.cpp:364.
  `Content-Length` goes through `atol` unchecked (292).
* Responses. `/specdata` or `/jsondata` served by an object that still has the file of an
  earlier client mapped (its connection was closed between `do_request` and
  `write`; `init()` does not reset `m_file_address`) continues with that file's bytes after
  a partial write (752). Without such a file the address there is null, the next `writev`
  fails with EFAULT, and the response ends wherever the first write that had passed its
  header did. Two short writes inside the header break any response: the test
  at 749 compares all that was sent with the header's length as the first of them has
  left it. With one such write at the most what the client has is in order, and it is whole
  if `writev` does not fail (theorem `ResponsesInOrder`). The length
  of the spectrum, `(uint8_t)sizeof`, is 238 of 5102 bytes. A POST to `/specdata` is refused.
  A request that fills the buffer makes the connection deaf. A file that disappears
  between `stat` and `open` is sent from `MAP_FAILED`.
* Receiver. A frame that is all that has come waits for the next one, since `splic_index`
  must pass its size (apptcpsocket.cpp:108); the copy of the rest at 224, with the length
  of the whole buffer, reads behind the end of `last_loop_buffer`; the spectrum is copied
  from the address of a pointer (apptcpsocket.cpp:233).
* Logger. A stream that has failed is not closed before it is opened again, so that
  opening fails too and the appender stays silent after one failed write (log.cc:397).
  A formatter that was set to null, which 91, 280, 300 and 387 provide for, ends the
  process with the next line (373, 406).
  `addAppender` asks for the appender's formatter and sets it in two steps, and can
  overwrite one given in between (299-302). Of `%%` only the first character is taken as
  text, so the second begins a conversion (456-461); an argument that is not closed is
  reported and then read as text.
* JSON values. `resize` to a smaller size on an array with holes fails the assertion at
  json_value.cpp:973 if the new last place is one of them, since the size is told by the
  last key that is left; value.h:397 promises any size. Removing the last element over
  holes takes them with it, where value.h:523 speaks of one element. `ImplementsList`
  leaves out exactly these two steps (`EndsAtHole`). `asInt64` takes the double 2^63
  that `isInt64` refuses, and casts it.
* JSON readers. A comma behind the last member of an object is accepted if its name is
  empty, as in `{"":1,}` (json_reader.cpp:475, 1448 test for an empty object by the
  name). Strict mode forbids comments, but those inside containers are skipped and
  accepted all the same (json_reader.cpp:471, 542; features.h:33 says they are
  forbidden). `Reader` and `OurReader` differ in "1e" (refused and taken), numbers too
  large for a double, an apostrophe outside a string and numbers as names, where
  `Reader` throws. `pushError` without another value counts the limit of the error from
  the end of the document (json_reader.cpp:866, 1864). `Reader::parse` of a string
  copies as many bytes as the string has room for (json_reader.cpp:105).
* JSON writers. `StyledWriter` takes a space at the end of a `//` comment for an
  indentation and goes on writing in the comment. A writer built with an empty indentation
  writes comments without ends of lines. `StyledWriter` and `StyledStreamWriter` cut names
  at a NUL.

## 5. What is proved

TLAPS proves the following for every value of the constants that satisfies the module's
named assumption. The assumptions say that the special values are not members of the
sets and that bounds and sizes are natural numbers, and a few things more: where the key
of `labuser` is unique, the table starts without two rows for a name (`Accounts`); a
request is made of words, none of its header lines is empty (an empty one ends the
headers), and no word is a negative number (`HttpRequest`); and patterns are sequences
of characters, of which `%`, `{` and `}` are no letters (`LogPattern`, `Logger`).

| Theorem | Property |
|---|---|
| `ReactorProofs!TypeCorrect`, `TimersOwnSockets`, `BatchesAreFresh`, `TicksGoOn`, `CountsUsers` | `TypeOK`, `TimerOwnsSocket`, `BatchIsFresh`, `TickChain`, `UserCount` |
| `ReactorProofs!OneOwnerAtATime`, `AnswersReachTheirClients`, `ReactorIsService` | `OneOwner`, `OwnAnswers`, `ImplementsService`, for `KeepAlive = {}` and `Overrun = FALSE` |
| `ReactorProofs!BacklogIsWatched`, `FewClientsAreWatched` | `BacklogWatched`, as long as limit and descriptors are not used up; the second for no more clients than descriptors and at most one more than the limit, when they never are |
| `HttpConnProofs!TypeCorrect` | `TypeOK`, whatever length a request announces |
| `HttpConnProofs!VerdictsAreRight`, `WholeRequestsAreDecided` | `RightVerdict`, `WholeRequestDecided`, if every request is `WellAnnounced` |
| `HttpConnProofs!ResponsesInOrder` | `ResponseInOrder`, under the same condition and for `HeaderCuts` of 0 or 1; with 2 it is false |
| `TimeHeapProofs!TypeCorrect`, `TimersOnce`, `HeapIsService` | `TypeOK`, `EveryTimerOnce`, `ImplementsService` |
| `TimeHeapProofs!IndicesAreSlots`, `EarliestOnTop` | `IndexIsSlot`, `TopIsEarliest` of `TimeHeap`, which the runs see through the refinement only |
| `ThreadPoolProofs!TypeCorrect`, `NobodySleepsOverWork`, `PoolIsQueue` | `TypeOK`, `NoSleepOverWork`, `ImplementsQueue` |
| `SqlPoolProofs!TypeCorrect`, `PopsFindOne`, `CountersAreExact`, `ListIsPool` | `TypeOK`, `PopFindsOne`, `CountersAgree`, `ImplementsPool` |
| `TcpFramingProofs!TypeCorrect`, `BuffersSuffice` | `TypeOK`, `InBounds`, for buffers that hold a frame and a segment once, and twice |
| `TcpFramingProofs!FreshFramesAreSent` | `FreshFramesWhole`, if no data holds the value of a header or a check (`Distinct`) |
| `AccountsProofs!TypeCorrect`, `AcknowledgedStay`, `OneIsTold`, `QueriesApart`, `PasswordsSettle` | `TypeOK`, `AcknowledgedIsStored`, `OneAcknowledged`, `HandlesApart`, `SettledForGood`; the third and the fifth say what they say with a unique key |
| `LoggerProofs!LinesStayWhole`, `RotationsNoticed` | `LinesWhole`, `RotationNoticed` |
| `LoggerProofs!PatternsReadBack`, `PatternsAreParsed` | `PatternsParsed`, for sequences of pieces of any number and length |

`WellAnnounced` asks of a request with a good request line that a `Content-Length` is
the length of its body, and that a body has one. Another length is not a request of HTTP:
the parser takes the end of the body where it is told to, which is not a matter of the
verdict. `ImplementsService` and `RequestAnswered` hold for clients in `Late` with the exception
they name, and for all others in full.

The type invariants of these modules are proved and no longer run: TLC would only repeat
them, and would stop at an expression without a value in any case.

That nobody keeps a connection alive is needed where it is stated: run
`reactor_keepalive` shows the second owner, who can also answer twice. `Overrun` is about
time: a worker that has been in a connection for longer than 3 * TIMESLOT finds it closed
and given to the next client under its hands.

The arguments:

* *Reactor.* That a live timer is an open connection is inductive only with what
  `cb_func` relies on: `m_sockfd` of an open connection is its own descriptor, and
  an event of the batch belongs to an open connection. The last needs that no
  tick runs inside a batch. The chain of ticks needs that the flag `timeout` is
  only set while a batch is being handled. `OneOwner` adds where a worker may be
  while its connection is armed: with neither keep-alive nor overrun only at the
  end of `write()`, when it has nothing left to do with it.
* *Reactor, listen queue.* Who waits there unseen was left behind by `AcceptBusy` or by an
  `accept` without a descriptor. So as long as there is room (`RoomLeft`) nobody is. With few
  clients there is always room, since each of them is in one place: waiting, behind one
  descriptor, or gone (`PlaceInv`). This is needed of every later theorem as well.
* *Reactor, answers.* What lies in the buffer, in `m_iv` and on the way to a worker
  belongs to the client that is behind the descriptor now, the pieces answered
  are among those parsed, those among what has been read, and this, with what waits in the
  socket, among what was sent (`Serves`). The worker
  needs to be the only owner for that, and `init()` has to leave nothing behind
  that is looked at.
* *Reactor, service.* Every step is one of `HttpService` or is not seen, given where each client is
  (`WhereInv`). The hard case is a timer: that it closes on nobody who is owed an answer. If
  nothing runs short somebody sees to each open connection until it is answered
  (`Attended` in `StayInv`): it is armed or reported and nothing has been parsed, or it
  is queued, or a worker reads it, or a worker is on the way from the last piece to the
  response. A timer that is due finds neither of the last three, nor, unless the client is
  late, a piece to be reported; so the request is not complete yet, or not taken in hand.
* *Parser.* The words of a request lie in a row in the flattened stream; `Cut` gives the place
  of each line, by recursive functions about which what is needed is proved through
  the least counterexample. What has been read, what waits in the socket and what the client has
  still to send make up the request (`Placed`). From the line in work on the buffer is
  as it was sent (`Ahead`; in the lines before it the parser has written NULs), the indices
  are inside that line (`AtLine`) or in the body (`InBody`), and the fields hold what
  the lines before say (`Known`). The verdict, the URL and the rest then follow
  from where the parser is; the URL of a form only up to `m_post_cgi`, of which nothing is
  known but that a POST has set it. It can only wait for a cell that has not come, or in
  a body of which an earlier read has taken a part: `bodyCut`.
* *Response.* What has been sent is a prefix of header and body, and the two iovecs hold the
  rest (`Partly`): as they were set up, or moved on once inside the header, or within the
  body. A second writev that ends inside the header would shrink `iov_len` twice. A
  write fails with EFAULT only behind the header, when nothing is mapped.
* *Heap.* With a hole the order is stated of the timer on its way instead of the
  content of the slot: parents are not later than children except at the hole, and
  the hole's parent is not later than its children. That the top is the earliest
  follows from the order of parents and children by induction over the slots,
  which is done through the least slot that would be a counterexample.
* *Thread pool.* The holder of the mutex is the one thread inside a critical
  section, and what it has read there is still true. `NoSleepOverWork` is
  inductive with that: every task in the list is matched by an awake worker on its
  way or by the notification the loop owes.
* *Connection pool.* The length of the list is the value of the semaphore, plus
  the threads past `wait` that have not yet taken, plus those that have put back
  and not yet posted. A thread about to take is in the second number, so the list
  is not empty. Elements of the list and connections held are all different.
* *Receiver.* Outside `parsePkg` at most a frame is spliced, and a segment more when it
  begins. If rest and batch are too long together, the batch is put where the excess
  ends, at most its own length from the front; twice that length fits. Frames
  (`Splicing`): the cells of a batch rise, and between any two of them either the stream
  runs on, or the second lies so near the beginning of its frame that this frame began
  behind the first, because a card starts each connection with a whole frame; so a
  header and a check in the batch, a frame apart, have everything between them. Where
  the check is looked for the length decides, and the cell behind a header in the batch
  is its length or another header, and that, read as a length, is longer than the
  buffers (43571 against 8192 and 16384). All that the rest and the frames handed on
  consist of is older than the batch; of the rest nothing else need be known, so the
  wrong length it is saved with does no harm here.
* *Accounts.* A worker inside the critical section is the only one there, and its
  handle is busy for it alone; what the table answered is still so when the worker acts
  on it, unless the name is spoilt or the server has been started anew. Rows are only
  added, so what is acknowledged stays stored.
* *Logger.* Who writes holds the lock of the appender, so the stream, the formatter and
  the text of its file stay as they are for it. An appender in a list has a formatter, or
  it or a logger was set to null before (`Able`); who has put it into the list and who is
  about to serve it rely on this. From this: a text that ends inside a line
  belongs to the thread that writes, which is exactly one item further, or to a stream
  that has failed, and such a stream takes nothing more before it has been opened anew,
  in a generation of its own. Rotation: as long as the stream still writes to a renamed
  generation, `m_lastTime` is not younger than the renaming (a younger one would have been
  set after a `reopen` of the present generation), so an event `Interval` younger is on
  its way through `reopen` and not to the stream.
* *Patterns.* The parser and the pattern are both built by recursion: the state after each
  round, the concatenation of the pieces. What is needed of either is said of numbers
  (rounds, pieces) and shown through the least one for which it would fail. In the
  pattern every piece has a place, and the places lie in a row (`LaidOut`). When the loop stands
  at the beginning of a piece, what it has collected is the pieces before it, the last
  of them, if a text, still in `nstr` (`After`). It takes one round over a conversion and one
  over each character of a text, so it comes to the next piece within as many rounds
  as the piece has characters (`Reached`), and that many the loop may make. That the scan for
  the name ends where the name does is where `Separable` is needed. For any
  pattern, written by rule or not, the items only grow and an error stays (`Growing`): so a
  formatter has items or an error, which `LinesStayWhole` needs.

Only model-checked: the liveness properties `Reclaimed`, `RequestAnswered`,
`TasksExecuted`, `WaitersServed`, `ParseEnds`, `RequestsEnd` and
`CallsReturn`, which are about fairness; and what is said of JSON: `RoundTrip`, `ReadsJson`,
`CommentsKept`, `ConversionsAgree`, `OrderTotal` and `ImplementsList`. Its values are trees
and its readers call themselves, so the modules are written with RECURSIVE operators, which
the provers do not take.

## 6. Not modelled, and the plan

Left out for good: configuration, `main`, the small templates, directory helpers, the
locks of mutex.h without a user (no behaviour over time); `toYamlString`, `delAppender`
and the configuration of loggers from YAML (no caller; the initialiser is commented
out); the load generator and the web pages; the kernel and the database beyond what the
code asks of them; a negative `Content-Length`. A clock that is set back: `expire` is
taken from the wall clock, and the heap's order then fails by design. The destructor of
the pool under its detached threads: they go on with freed memory, which has no states
to speak of, and the server does not leave its loop normally.

Of jsoncpp: the wording of error messages with their lines and columns; the parsing of path
texts (`Path::makePath`); `get` with a default and `resolve` with one; iterators beyond the
order of their keys; streams; the reference counts and lengths of strings; the tests. A
number in `Value` is an integer or a decimal fraction, so rounding is modelled only where
a limit of the integers meets it.

Left to do:

1. Proofs: the reactor's answers with keep-alive clients, as far as they go.
2. A composition of `Reactor` and `HttpConn` in which two owners meet in one parser.
3. Connections given back while a query is under way, across `SqlPool` and `Accounts`.
4. `Path::makePath` and the settings of `CharReaderBuilder`; errors by line and column.
