---------------------------- MODULE HttpService -----------------------------
(***************************************************************************)
(* What a browser sees of the server: clients queue up, are let in in this *)
(* order, ask, are answered and leave.  Nothing is said of threads, events *)
(* and timers; module Reactor implements this with an epoll loop, worker   *)
(* threads and a timer heap.                                               *)
(***************************************************************************)
EXTENDS Naturals, Sequences, FiniteSets

CONSTANTS
  Clients,
  Limit,        \* so many connections are served, later ones may be refused
  Room,         \* more than so many connections are never open
  Late,         \* who may ask when the server is about to give up on them
  Steady        \* nothing runs short: see Part

VARIABLES
  queue,        \* who waits to be let in
  served,       \* who is connected
  left,         \* whose connection has ended
  hungUp,       \* who has hung up, whether or not the server knows
  asked,        \* requests each client has sent in full
  replies,      \* responses each client has received: whose request they answer
  inWork        \* whose request the server has begun to work on

vars == <<queue, served, left, hungUp, asked, replies, inWork>>

Init ==
  /\ queue = <<>> /\ served = {} /\ left = {} /\ hungUp = {} /\ inWork = {}
  /\ asked = [c \in Clients |-> 0]
  /\ replies = [c \in Clients |-> <<>>]

Waits(c) == \E i \in 1..Len(queue) : queue[i] = c

Connect(c) ==
  /\ ~Waits(c) /\ c \notin served \cup left
  /\ queue' = Append(queue, c)
  /\ UNCHANGED <<served, left, hungUp, asked, replies, inWork>>

Ask(c) ==
  /\ Waits(c) \/ c \in served
  /\ c \notin hungUp
  /\ asked' = [asked EXCEPT ![c] = @ + 1]
  /\ UNCHANGED <<queue, served, left, hungUp, replies, inWork>>

HangUp(c) ==
  /\ Waits(c) \/ c \in served
  /\ hungUp' = hungUp \cup {c}
  /\ UNCHANGED <<queue, served, left, asked, replies, inWork>>

\* First come, first served.
Admit ==
  /\ queue # <<>> /\ Cardinality(served) < Room
  /\ served' = served \cup {Head(queue)}
  /\ queue' = Tail(queue)
  /\ UNCHANGED <<left, hungUp, asked, replies, inWork>>

\* Only a busy server refuses.
Refuse ==
  /\ queue # <<>> /\ Cardinality(served) >= Limit
  /\ left' = left \cup {Head(queue)}
  /\ queue' = Tail(queue)
  /\ UNCHANGED <<served, hungUp, asked, replies, inWork>>

\* A request that has not been answered yet is taken up.
TakeUp(c) ==
  /\ c \in served \ inWork /\ Len(replies[c]) < asked[c]
  /\ inWork' = inWork \cup {c}
  /\ UNCHANGED <<queue, served, left, hungUp, asked, replies>>

\* A response to a request of one's own that has been taken up.
Reply(c) ==
  /\ c \in inWork
  /\ replies' = [replies EXCEPT ![c] = Append(@, c)]
  /\ inWork' = inWork \ {c}
  /\ UNCHANGED <<queue, served, left, hungUp, asked>>

\* A connection ends when its client has hung up or has been silent for long.
\* If nothing runs short, who is silent is not owed an answer, or has asked
\* too late for the request to be taken up.
Part(c) ==
  /\ c \in served
  /\ Steady => \/ c \in hungUp
               \/ Len(replies[c]) = asked[c]
               \/ c \in Late /\ c \notin inWork
  /\ served' = served \ {c} /\ left' = left \cup {c}
  /\ inWork' = inWork \ {c}
  /\ UNCHANGED <<queue, hungUp, asked, replies>>

Next ==
  \/ \E c \in Clients :
       \/ Connect(c) \/ Ask(c) \/ HangUp(c)
       \/ TakeUp(c) \/ Reply(c) \/ Part(c)
  \/ Admit \/ Refuse

Spec == Init /\ [][Next]_vars
=============================================================================
