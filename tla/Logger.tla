------------------------------- MODULE Logger -------------------------------
(***************************************************************************)
(* Logger, LogAppender and FileLogAppender (log.cc) under the threads that *)
(* log: a line goes to the appenders of its logger, or, if it has none, to *)
(* those of the root logger; every logger and every appender has a         *)
(* spinlock, taken by the scoped lock of mutex.h.  A file appender opens   *)
(* its file anew when the event is three seconds younger than the last one *)
(* that did, so that a file renamed by log rotation is let go.             *)
(*                                                                         *)
(* Abstractions.  A line is written item by item (LogFormatter::format); a *)
(* cell of a file is one of them.  A file is a generation of its name:     *)
(* rotation renames the present one.  Whether an open or a write succeeds  *)
(* is the environment's choice.  Levels are numbers.  A formatter may be   *)
(* set to null; format() is then called through a null pointer, and the    *)
(* process ends there (crash).                                             *)
(***************************************************************************)
EXTENDS LogPattern, FiniteSets

CONSTANTS
  Threads,        \* threads that use the logger
  Nobody,         \* a lock that is free
  Loggers, Root,  \* the named loggers and m_root
  Files, Stdout,  \* file appenders and the StdoutLogAppender
  LoggerLevel,    \* m_level of each logger
  AppenderLevel,  \* m_level of each appender
  Levels,         \* levels of the events
  Patterns,       \* patterns given to setFormatter
  Default,        \* the pattern of the constructor
  Pieces,         \* what the patterns of PatternsParsed are written from
  Interval,       \* seconds between two openings (3 in FileLogAppender::log)
  MaxTime,        \* clock bound
  Setups,         \* what start-up may leave in m_appenders
  Lines,          \* lines logged (bound)
  Configs,        \* changes of the configuration (bound)
  Rotations       \* rotations (bound)

Appenders == Files \cup {Stdout}
NoFormatter == [m_items |-> <<>>, m_error |-> TRUE]

ASSUME LoggerAssumption ==
  /\ Nobody \notin Threads /\ Root \in Loggers /\ Stdout \notin Files
  /\ Interval \in Nat \ {0} /\ MaxTime \in Nat /\ Rotations \in Nat
  /\ Setups \subseteq [Loggers -> Seq(Appenders)]
  /\ Patterns \cup {Default} \subseteq Seq(Chars) /\ Pieces \subseteq Seq(Piece)

VARIABLES
  lockL, lockA,    \* m_mutex of each logger and appender
  m_appenders,     \* per logger, in order
  m_formatter,     \* per logger
  formatter, m_hasFormatter, \* per appender
  nulled,          \* history: the loggers and appenders set to null so far
  m_lastTime, open, bad, \* per file: generation m_filestream writes to (0:
                   \* not open), and whether the stream has failed
  text,            \* per appender and generation: the last two cells written
  now, present, rotated, \* clock, present generation, when each one ended
  pc, call, at, todo, item, \* per thread: where it is, its call, the logger
                   \* it is in, appenders still to do, items written
  lines, configs   \* lines logged, and changes of the configuration

locks == <<lockL, lockA>>
config == <<m_appenders, m_formatter, formatter, m_hasFormatter, nulled>>
streams == <<m_lastTime, open, bad, text>>
world == <<now, present, rotated>>
threads == <<pc, call, at, todo, item, lines, configs>>
vars == <<locks, config, streams, world, threads>>

ItemsOf(a) == formatter[a].m_items

NoCall == [op |-> "none"]

Init ==
  /\ lockL = [l \in Loggers |-> Nobody]
  /\ lockA = [a \in Appenders |-> Nobody]
  /\ m_appenders \in Setups
  /\ m_formatter = [l \in Loggers |-> LogFormatter(Default)]
  /\ formatter = [a \in Appenders |->
                    IF \E l \in Loggers : Contains(m_appenders[l], a)
                    THEN LogFormatter(Default) ELSE NoFormatter]
  /\ m_hasFormatter = [a \in Appenders |-> FALSE]
  /\ nulled = {}
  /\ m_lastTime = [a \in Files |-> 0]
  /\ open = [a \in Files |-> 1]
  /\ bad = [a \in Files |-> FALSE]
  /\ text = [a \in Appenders |-> [g \in 1..(Rotations + 1) |-> <<>>]]
  /\ now = Interval /\ present = 1
  /\ rotated = [g \in 1..Rotations |-> 0]
  /\ pc = [t \in Threads |-> "idle"]
  /\ call = [t \in Threads |-> NoCall]
  /\ at = [t \in Threads |-> Root]
  /\ todo = [t \in Threads |-> <<>>]
  /\ item = [t \in Threads |-> 0]
  /\ lines = 0 /\ configs = 0

-----------------------------------------------------------------------------
Goto(t, from, to) == pc[t] = from /\ pc' = [pc EXCEPT ![t] = to]

Free(lock, x) == lock[x] = Nobody

\* The clock is read when an event is made and when a file is renamed: it has
\* advanced by any amount since it was last read.
Passing == now' \in now..MaxTime

\* A call begins.  The event of a line carries the time and the level it was
\* made with; a level below the logger's ends the call at once.
Begin(t, first, c) ==
  /\ Goto(t, "idle", first)
  /\ call' = [call EXCEPT ![t] = c]
  /\ at' = [at EXCEPT ![t] = c.logger]
  /\ UNCHANGED <<locks, config, streams, present, rotated, todo, item>>

BeginLog(t) ==
  /\ lines < Lines /\ lines' = lines + 1
  /\ Passing
  /\ \E l \in Loggers, v \in Levels :
       /\ v >= LoggerLevel[l]
       /\ Begin(t, "enter", [op |-> "log", logger |-> l, level |-> v, time |-> now'])
  /\ UNCHANGED configs

\* What a program may set: a formatter, or none (a null pointer).  The string
\* overload refuses a pattern with an error; the one that takes the pointer
\* takes it as it is.
Settable == {LogFormatter(p) : p \in Patterns} \cup {NoFormatter}

BeginConfig(t) ==
  /\ configs < Configs /\ configs' = configs + 1
  /\ \/ \E l \in Loggers, a \in Files :
          Begin(t, "add", [op |-> "add", logger |-> l, appender |-> a])
     \/ \E l \in Loggers, f \in Settable :
          Begin(t, "set", [op |-> "set", logger |-> l, val |-> f])
     \/ \E l \in Loggers :
          Begin(t, "clear", [op |-> "clear", logger |-> l])
     \/ \E a \in Files, f \in Settable :
          Begin(t, "own", [op |-> "own", logger |-> Root, appender |-> a, val |-> f])
  /\ UNCHANGED <<now, lines>>

\* A call returns.
Return(t, from) ==
  /\ Goto(t, from, "idle")
  /\ call' = [call EXCEPT ![t] = NoCall]
  /\ at' = [at EXCEPT ![t] = Root]
  /\ item' = [item EXCEPT ![t] = 0]

-----------------------------------------------------------------------------
(* Logger::log and the appenders' log.                                     *)

\* The logger's lock; the appenders to serve cannot change while it is held.
\* A logger without any hands the event to the root, its own lock held.
Target(l) == IF m_appenders[l] = <<>> /\ l # Root THEN Root ELSE l

Enter(t) ==
  LET l == at[t]
  IN /\ pc[t] = "enter" /\ Free(lockL, l)
     /\ lockL' = [lockL EXCEPT ![l] = t]
     /\ IF Target(l) # l /\ call[t].level >= LoggerLevel[Target(l)]
        THEN /\ Goto(t, "enter", "enter")
             /\ at' = [at EXCEPT ![t] = Target(l)]
             /\ UNCHANGED todo
        ELSE /\ Goto(t, "enter", "next")
             /\ todo' = [todo EXCEPT ![t] = m_appenders[l]]
             /\ UNCHANGED at
     /\ UNCHANGED <<lockA, config, streams, world, call, item, lines, configs>>

\* Mutation of Leave: of the locks taken on the way only the last is released.
LeaveKeepsLock(t) ==
  /\ todo[t] = <<>>
  /\ Return(t, "next")
  /\ lockL' = [lockL EXCEPT ![at[t]] = Nobody]
  /\ UNCHANGED <<lockA, config, streams, world, todo, lines, configs>>

\* The last appender is done: all locks the thread has are released.
Leave(t) ==
  /\ todo[t] = <<>>
  /\ Return(t, "next")
  /\ lockL' = [l \in Loggers |-> IF lockL[l] = t THEN Nobody ELSE lockL[l]]
  /\ UNCHANGED <<lockA, config, streams, world, todo, lines, configs>>

\* Mutation of Check: m_lastTime is set before the file is opened anew.
CheckStamps(t) ==
  LET a == todo[t][1]
      due == a \in Files /\ call[t].time >= m_lastTime[a] + Interval
  IN /\ pc[t] = "next" /\ todo[t] # <<>>
     /\ Goto(t, "next", IF due THEN "reopen" ELSE "lock")
     /\ m_lastTime' = IF due THEN [m_lastTime EXCEPT ![a] = call[t].time] ELSE m_lastTime
     /\ UNCHANGED <<locks, config, open, bad, text, world, call, at, todo, item,
                    lines, configs>>

\* FileLogAppender::log up to its lock: m_lastTime is read without it.
Check(t) ==
  LET a == todo[t][1]
      due == a \in Files /\ call[t].time >= m_lastTime[a] + Interval
  IN /\ pc[t] = "next" /\ todo[t] # <<>>
     /\ IF call[t].level < AppenderLevel[a]
        THEN /\ Goto(t, "next", "next")
             /\ todo' = [todo EXCEPT ![t] = Tail(@)]
        ELSE /\ Goto(t, "next", IF due THEN "reopen" ELSE "lock")
             /\ UNCHANGED todo
     /\ UNCHANGED <<locks, config, streams, world, call, at, item, lines, configs>>

\* reopen(): a stream that has failed is not closed, and opening an open one
\* fails; OpenForWrite tries again after making the directory.
Reopen(t) ==
  LET a == todo[t][1]
  IN /\ Goto(t, "reopen", "stamp")
     /\ Free(lockA, a)
     /\ IF bad[a] /\ open[a] # 0
        THEN UNCHANGED <<open, bad>>
        ELSE \E ok \in BOOLEAN : /\ open' = [open EXCEPT ![a] = IF ok THEN present ELSE 0]
                                 /\ bad' = [bad EXCEPT ![a] = ~ok]
     /\ UNCHANGED <<locks, config, m_lastTime, text, world, call, at, todo,
                    item, lines, configs>>

Stamp(t) ==
  /\ Goto(t, "stamp", "lock")
  /\ m_lastTime' = [m_lastTime EXCEPT ![todo[t][1]] = call[t].time]
  /\ UNCHANGED <<locks, config, open, bad, text, world, call, at, todo, item,
                 lines, configs>>

\* With the lock m_formatter is used, unless it is null.
Formatting(a) == IF formatter[a] = NoFormatter THEN "crash" ELSE "write"

\* Mutation of Lock: the appender's lock is taken from whoever has it.
LockNoWait(t) ==
  /\ Goto(t, "lock", Formatting(todo[t][1]))
  /\ lockA' = [lockA EXCEPT ![todo[t][1]] = t]
  /\ item' = [item EXCEPT ![t] = 1]
  /\ UNCHANGED <<lockL, config, streams, world, call, at, todo, lines, configs>>

Lock(t) ==
  /\ Goto(t, "lock", Formatting(todo[t][1]))
  /\ Free(lockA, todo[t][1])
  /\ lockA' = [lockA EXCEPT ![todo[t][1]] = t]
  /\ item' = [item EXCEPT ![t] = 1]
  /\ UNCHANGED <<lockL, config, streams, world, call, at, todo, lines, configs>>

\* m_formatter->format: the next item.  A stream that has failed takes none.
Failed(a) == a \in Files /\ bad[a]
Generation(a) == IF a = Stdout THEN 1 ELSE open[a]
Recent(cells) == IF Len(cells) > 2 THEN Tail(cells) ELSE cells
\* A cell is late if its event came Interval seconds or more after the file
\* it is written to was renamed.
Late(t, a) ==
  LET g == Generation(a)
  IN a \in Files /\ g < present /\ call[t].time >= rotated[g] + Interval
Cell(t, a) == [line |-> t, k |-> item[t], of |-> Len(ItemsOf(a)), late |-> Late(t, a)]

Write(t) ==
  LET a == todo[t][1]
  IN /\ pc[t] = "write" /\ UNCHANGED pc
     /\ item[t] <= Len(ItemsOf(a)) /\ ~Failed(a)
     /\ item' = [item EXCEPT ![t] = @ + 1]
     /\ \/ /\ text' = [text EXCEPT ![a][Generation(a)] = Recent(Append(@, Cell(t, a)))]
           /\ UNCHANGED bad
        \/ /\ a \in Files
           /\ bad' = [bad EXCEPT ![a] = TRUE]
           /\ UNCHANGED text
     /\ UNCHANGED <<locks, config, m_lastTime, open, world, call, at, todo, lines, configs>>

Finish(t) ==
  LET a == todo[t][1]
  IN /\ Goto(t, "write", "next")
     /\ item[t] > Len(ItemsOf(a)) \/ Failed(a)
     /\ lockA' = [lockA EXCEPT ![a] = Nobody]
     /\ todo' = [todo EXCEPT ![t] = Tail(@)]
     /\ UNCHANGED <<lockL, config, streams, world, call, at, item, lines, configs>>

-----------------------------------------------------------------------------
(* The configuration of a logger.                                          *)

\* addAppender: the logger's lock, getFormatter, the appender's lock.
Add(t) ==
  LET l == at[t]
      a == call[t].appender
  IN \/ /\ Goto(t, "add", "get")
        /\ Free(lockL, l)
        /\ lockL' = [lockL EXCEPT ![l] = t]
        /\ UNCHANGED <<lockA, config, call, at, item>>
     \/ /\ pc[t] = "get" /\ Free(lockA, a)
        /\ pc' = [pc EXCEPT ![t] = IF formatter[a] = NoFormatter THEN "give"
                                                                 ELSE "push"]
        /\ UNCHANGED <<locks, config, call, at, item>>
     \/ /\ Goto(t, "give", "push")
        /\ Free(lockA, a)
        /\ formatter' = [formatter EXCEPT ![a] = m_formatter[l]]
        /\ UNCHANGED <<locks, m_appenders, m_formatter, m_hasFormatter, nulled, call, at, item>>
     \/ /\ Return(t, "push")
        /\ m_appenders' = [m_appenders EXCEPT ![l] = Append(@, a)]
        /\ lockL' = [lockL EXCEPT ![l] = Nobody]
        /\ UNCHANGED <<lockA, m_formatter, formatter, m_hasFormatter, nulled>>

Nulled(f, x) == IF f = NoFormatter THEN nulled \cup {x} ELSE nulled

\* setFormatter: the logger's, and that of each appender without its own.
Set(t) ==
  LET l == at[t]
  IN \/ /\ Goto(t, "set", "give to all")
        /\ Free(lockL, l)
        /\ lockL' = [lockL EXCEPT ![l] = t]
        /\ m_formatter' = [m_formatter EXCEPT ![l] = call[t].val]
        /\ nulled' = Nulled(call[t].val, l)
        /\ todo' = [todo EXCEPT ![t] = m_appenders[l]]
        /\ UNCHANGED <<lockA, m_appenders, formatter, m_hasFormatter, call, at, item>>
     \/ /\ Goto(t, "give to all", "give to all")
        /\ todo[t] # <<>> /\ Free(lockA, todo[t][1])
        /\ formatter' = IF m_hasFormatter[todo[t][1]] THEN formatter
                        ELSE [formatter EXCEPT ![todo[t][1]] = m_formatter[l]]
        /\ todo' = [todo EXCEPT ![t] = Tail(@)]
        /\ UNCHANGED <<locks, m_appenders, m_formatter, m_hasFormatter, nulled, call, at, item>>
     \/ /\ Return(t, "give to all")
        /\ todo[t] = <<>>
        /\ lockL' = [lockL EXCEPT ![l] = Nobody]
        /\ UNCHANGED <<lockA, config, todo>>

\* clearAppenders.
Clear(t) ==
  /\ Return(t, "clear")
  /\ Free(lockL, at[t])
  /\ m_appenders' = [m_appenders EXCEPT ![at[t]] = <<>>]
  /\ UNCHANGED <<locks, m_formatter, formatter, m_hasFormatter, nulled, streams,
                 world, todo, lines, configs>>

\* LogAppender::setFormatter.
Own(t) ==
  LET a == call[t].appender
  IN /\ Return(t, "own")
     /\ Free(lockA, a)
     /\ formatter' = [formatter EXCEPT ![a] = call[t].val]
     /\ m_hasFormatter' = [m_hasFormatter EXCEPT ![a] = call[t].val # NoFormatter]
     /\ nulled' = Nulled(call[t].val, a)
     /\ UNCHANGED <<locks, m_appenders, m_formatter, streams, world, todo,
                    lines, configs>>

-----------------------------------------------------------------------------
(* A tool renames the files.                                               *)

Rotate ==
  /\ present <= Rotations
  /\ present' = present + 1
  /\ Passing /\ rotated' = [rotated EXCEPT ![present] = now']
  /\ UNCHANGED <<locks, config, streams, threads>>

Logging(t) ==
  \/ Enter(t) \/ Leave(t) \/ Check(t) \/ Reopen(t) \/ Stamp(t) \/ Lock(t)
  \/ Write(t) \/ Finish(t)

Configuring(t) ==
  \/ Add(t) /\ UNCHANGED <<streams, world, todo, lines, configs>>
  \/ Set(t) /\ UNCHANGED <<streams, world, lines, configs>>
  \/ Clear(t) \/ Own(t)

Alive == \A t \in Threads : pc[t] # "crash"

Step(t) == Alive /\ (Logging(t) \/ Configuring(t))
Next == \/ Alive /\ \E t \in Threads : BeginLog(t) \/ BeginConfig(t) \/ Step(t)
        \/ Rotate

Spec == Init /\ [][Next]_vars
FairSpec == Spec /\ \A t \in Threads : WF_vars(Step(t))

-----------------------------------------------------------------------------
(* Properties.                                                             *)

\* Appenders that setFormatter may have left without a formatter.
MayLack == {a \in Appenders : a \in nulled \/ \E l \in Loggers : l \in nulled}

\* Lines are not mixed, whoever writes them and however the formatters change
\* meanwhile: in every file the items of a line stand together and in order,
\* and a line is followed by another only when it is complete, for a stream
\* that failed inside a line takes nothing more.  A formatter does not go while
\* a line is written with it, and no line reaches an appender without one
\* unless setFormatter was given a null pointer before, by the appender or by
\* a logger (log.cc 86-94, 239-257, 298-305, 323-337, 364-377, 403-408;
\* mutex.h 48-92).
LinesWhole ==
  /\ \A a \in Appenders, g \in 1..(Rotations + 1) :
       /\ Len(text[a][g]) = 1 => text[a][g][1].k = 1
       /\ Len(text[a][g]) = 2 =>
            LET first == text[a][g][1]
                second == text[a][g][2]
            IN IF second.k = 1 THEN first.k = first.of
               ELSE second = [first EXCEPT !.k = @ + 1]
  /\ \A t \in Threads :
       /\ pc[t] = "write" => formatter[todo[t][1]] # NoFormatter
       /\ pc[t] = "crash" => todo[t][1] \in MayLack

\* A file that was renamed is let go: no line whose event came Interval
\* seconds or more after the rotation is written to it, although m_lastTime
\* is read and set without the appender's lock (log.cc 364-377, 395-401).
RotationNoticed ==
  \A a \in Files, g \in 1..(Rotations + 1) :
    \A i \in 1..Len(text[a][g]) : ~text[a][g][i].late

\* Every call returns, as long as the process lives: the locks of loggers and
\* appenders are always taken in the order logger, root, appender, also while
\* the configuration changes (log.cc 247-257, 298-337).
CallsReturn == \A t \in Threads : pc[t] # "idle" ~> (pc[t] = "idle" \/ ~Alive)

\* A pattern of pieces that can be told apart is parsed into these pieces, and
\* refused only for a conversion that is not known; this depends on no
\* variable, and is evaluated where no call has been made (log.cc 446-559).
NoCallYet == lines = 0 /\ configs = 0
PatternsParsed == NoCallYet => \A s \in Pieces : Separable(s) => ParsedAsWritten(s)
=============================================================================
