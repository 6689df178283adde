------------------------------- MODULE NanoLog -------------------------------
(***************************************************************************)
(* The log (NanoLog.cpp), with the guaranteed logger, which is the one the *)
(* service and the tools use.  Threads push lines into buffers of a fixed  *)
(* size: each takes an index of the current buffer, and the thread that    *)
(* completes a buffer sets up the next one.  One thread pops the lines in  *)
(* the order of their indexes, writes them, and frees a buffer when it has *)
(* popped its last line.                                                   *)
(***************************************************************************)
EXTENDS LogLine, FiniteSets

CONSTANTS Thread,
          Message,     \* what a thread logs, in this order
          LogLevel,    \* the least level that is logged
          BufferSize,  \* Buffer::size
          None         \* no line

ASSUME NanoLogAssumption ==
    /\ IsFiniteSet(Thread) /\ BufferSize \in Nat \ {0} /\ LogLevel \in Nat
    /\ \A t \in Thread : \A i \in DOMAIN Message[t] : Message[t][i].level \in Nat

VARIABLES state,        \* the logger's: "init", "ready", "shutdown", then "joined"
          writeIndex, current,   \* m_write_index, m_current_write_buffer
          buffer,       \* the buffers ever set up, numbered from 1
          queue,        \* m_buffers
          producer,     \* what a thread is doing
          reading, readIndex,    \* m_current_read_buffer, m_read_index
          popped,       \* the line taken and not yet written
          written,      \* what is in the file
          stale,        \* history: a thread used a buffer that was freed
          before        \* history: what was logged when the logger was shut down

writerVars == <<reading, readIndex, popped, written>>
vars == <<state, writeIndex, current, buffer, queue, producer, writerVars, stale, before>>

NewBuffer == [line |-> [i \in 0..BufferSize - 1 |-> None], count |-> 0, freed |-> FALSE]

\* A thread is at the statement ("out"), has an index, waits for the next
\* buffer, has a buffer, has stored its line, sets up the next buffer.
Out(n) == [at |-> "out", next |-> n, index |-> 0, into |-> 0]

Init ==
    /\ state = "init"
    /\ writeIndex = 0 /\ current = 1
    /\ buffer = <<NewBuffer>> /\ queue = <<1>>
    /\ producer = [t \in Thread |-> Out(1)]
    /\ reading = 0 /\ readIndex = 0 /\ popped = <<>> /\ written = <<>>
    /\ stale = FALSE /\ before = None
-----------------------------------------------------------------------------
(* push *)

is_logged(level) == level >= LogLevel
Logs(t) == producer[t].next <= Len(Message[t])
Runs(t, at) == state \in {"ready", "shutdown"} /\ producer[t].at = at
Moves(t, at) == producer' = [producer EXCEPT ![t].at = at]

\* A statement below the level.
Skip(t) ==
    /\ Runs(t, "out") /\ Logs(t) /\ ~ is_logged(Message[t][producer[t].next].level)
    /\ producer' = [producer EXCEPT ![t] = Out(@.next + 1)]
    /\ UNCHANGED <<state, writeIndex, current, buffer, queue, writerVars, stale, before>>

\* An index, fetched and incremented at once.
TakeIndex(t) ==
    /\ Runs(t, "out") /\ Logs(t) /\ is_logged(Message[t][producer[t].next].level)
    /\ writeIndex' = writeIndex + 1
    /\ producer' = [producer EXCEPT ![t] = [@ EXCEPT !.index = writeIndex,
                       !.at = IF writeIndex < BufferSize THEN "index" ELSE "spin"]]
    /\ UNCHANGED <<state, current, buffer, queue, writerVars, stale, before>>

\* All indexes of the buffer are taken; try again once there is a new one.
Spin(t) ==
    /\ Runs(t, "spin") /\ writeIndex < BufferSize
    /\ Moves(t, "out")
    /\ UNCHANGED <<state, writeIndex, current, buffer, queue, writerVars, stale, before>>

LoadBuffer(t) ==
    /\ Runs(t, "index")
    /\ producer' = [producer EXCEPT ![t].at = "buffer", ![t].into = current]
    /\ UNCHANGED <<state, writeIndex, current, buffer, queue, writerVars, stale, before>>

\* The line, then its write state.
StoreLine(t) ==
    /\ Runs(t, "buffer")
    /\ LET p == producer[t] IN
       buffer' = [buffer EXCEPT ![p.into].line[p.index] =
                     [by |-> t, line |-> Line(Message[t][p.next])]]
    /\ Moves(t, "stored")
    /\ UNCHANGED <<state, writeIndex, current, queue, writerVars, stale, before>>

CountLineBefore(t) ==                                       \* mutant
    /\ Runs(t, "stored")
    /\ LET b == producer[t].into IN
          /\ buffer' = [buffer EXCEPT ![b].count = @ + 1]
          /\ producer' = [producer EXCEPT ![t] = IF buffer[b].count = BufferSize
                                                 THEN [@ EXCEPT !.at = "last"]
                                                 ELSE Out(@.next + 1)]
    /\ UNCHANGED <<state, writeIndex, current, queue, writerVars, stale, before>>

\* The count of lines; a counter in memory that was freed has any value.
CountLine(t) ==
    /\ Runs(t, "stored")
    /\ LET b == producer[t].into IN
       \E last \in IF buffer[b].freed THEN BOOLEAN ELSE {buffer[b].count + 1 = BufferSize} :
          /\ buffer' = [buffer EXCEPT ![b].count = @ + 1]
          /\ stale' = (stale \/ buffer[b].freed)
          /\ producer' = [producer EXCEPT ![t] = IF last THEN [@ EXCEPT !.at = "last"]
                                                        ELSE Out(@.next + 1)]
    /\ UNCHANGED <<state, writeIndex, current, queue, writerVars, before>>

\* setup_next_write_buffer: first where to write, then the queue and the index.
SetCurrent(t) ==
    /\ Runs(t, "last")
    /\ buffer' = Append(buffer, NewBuffer)
    /\ current' = Len(buffer) + 1
    /\ producer' = [producer EXCEPT ![t].at = "set", ![t].into = Len(buffer) + 1]
    /\ UNCHANGED <<state, writeIndex, queue, writerVars, stale, before>>

PublishBuffer(t) ==
    /\ Runs(t, "set")
    /\ queue' = Append(queue, producer[t].into)
    /\ writeIndex' = 0
    /\ producer' = [producer EXCEPT ![t] = Out(@.next + 1)]
    /\ UNCHANGED <<state, current, buffer, writerVars, stale, before>>
-----------------------------------------------------------------------------
(* pop, the thread of the logger. *)

Pops == state \in {"ready", "shutdown"} /\ popped = <<>>

NextReadBufferBack ==                                       \* mutant
    /\ Pops /\ reading = 0 /\ queue # <<>>
    /\ reading' = queue[Len(queue)]
    /\ UNCHANGED <<state, writeIndex, current, buffer, queue, producer, readIndex, popped,
                   written, stale, before>>

\* get_next_read_buffer
NextReadBuffer ==
    /\ Pops /\ reading = 0 /\ queue # <<>>
    /\ reading' = Head(queue)
    /\ UNCHANGED <<state, writeIndex, current, buffer, queue, producer, readIndex, popped,
                   written, stale, before>>

\* try_pop; the last line of a buffer ends it.
PopLine ==
    /\ Pops /\ reading # 0 /\ buffer[reading].line[readIndex] # None
    /\ popped' = <<buffer[reading].line[readIndex]>>
    /\ IF readIndex + 1 < BufferSize
       THEN /\ readIndex' = readIndex + 1
            /\ UNCHANGED <<reading, queue, buffer>>
       ELSE /\ readIndex' = 0 /\ reading' = 0
            /\ queue' = Tail(queue)
            /\ buffer' = [buffer EXCEPT ![Head(queue)].freed = TRUE]
    /\ UNCHANGED <<state, writeIndex, current, producer, written, stale, before>>

WriteLine ==
    /\ popped # <<>>
    /\ written' = Append(written, [by |-> popped[1].by, what |-> stringify(popped[1].line)])
    /\ popped' = <<>>
    /\ UNCHANGED <<state, writeIndex, current, buffer, queue, producer, reading, readIndex,
                   stale, before>>

\* Nothing to pop: the thread looks again later, or ends after a shutdown.
NothingToPop == IF reading = 0 THEN queue = <<>> ELSE buffer[reading].line[readIndex] = None

EndsAtOnce ==                                               \* mutant
    /\ state = "shutdown" /\ popped = <<>>
    /\ state' = "joined"
    /\ UNCHANGED <<writeIndex, current, buffer, queue, producer, writerVars, stale, before>>

Ends ==
    /\ state = "shutdown" /\ popped = <<>> /\ NothingToPop
    /\ state' = "joined"
    /\ UNCHANGED <<writeIndex, current, buffer, queue, producer, writerVars, stale, before>>

\* The end of the constructor, and initialize.
Ready ==
    /\ state = "init"
    /\ state' = "ready"
    /\ UNCHANGED <<writeIndex, current, buffer, queue, producer, writerVars, stale, before>>

\* The logger is destroyed.
Shutdown ==
    /\ state = "ready"
    /\ state' = "shutdown"
    /\ before' = producer
    /\ UNCHANGED <<writeIndex, current, buffer, queue, producer, writerVars, stale>>

Push(t) == \/ Skip(t) \/ TakeIndex(t) \/ Spin(t) \/ LoadBuffer(t) \/ StoreLine(t)
           \/ CountLine(t) \/ SetCurrent(t) \/ PublishBuffer(t)
Pop == NextReadBuffer \/ PopLine \/ WriteLine \/ Ends

Next == (\E t \in Thread : Push(t)) \/ Pop \/ Ready \/ Shutdown

Spec == Init /\ [][Next]_vars

\* The threads are scheduled.
FairSpec == Spec /\ WF_vars(Pop) /\ \A t \in Thread : WF_vars(Push(t))
-----------------------------------------------------------------------------
(* Properties. *)

\* What the first n statements of a thread put into the log.
LoggedOf(t, n) ==
    SelectSeq(SubSeq(Message[t], 1, IF n > Len(Message[t]) THEN Len(Message[t]) ELSE n),
              LAMBDA m : is_logged(m.level))
Of(t) == SelectSeq(written, LAMBDA w : w.by = t)

\* The file has, of every thread, the lines it logged: each once, in their
\* order, without gaps, and saying what the statement said, whoever else logs
\* at the same time and whichever buffers the lines went through.
ThreadOrder ==
    \A t \in Thread :
        LET logged == LoggedOf(t, producer[t].next)
        IN  /\ Len(Of(t)) <= Len(logged)
            /\ \A i \in DOMAIN Of(t) : Of(t)[i].what = Said(logged[i])

\* When the logger is shut down while no thread is inside a log statement, all
\* that was logged by then is in the file when its thread has ended (unless a
\* thread used a buffer that was freed).
Drained ==
    state = "joined" /\ ~ stale /\ (\A t \in Thread : before[t].at = "out") =>
        \A t \in Thread : Len(Of(t)) >= Len(LoggedOf(t, before[t].next - 1))

\* A thread that waits for the next buffer waits for one that is going to set it
\* up, never for itself or for nobody (unless a thread used a buffer that was freed).
SomeoneSetsUp ==
    (\E t \in Thread : producer[t].at = "spin") /\ writeIndex >= BufferSize =>
        stale \/ \E t \in Thread : producer[t].at \notin {"out", "spin"}

\* Log lines are not dropped: what a thread begins to log gets into the file,
\* unless the logger is shut down.
NotDropped ==
    \A t \in Thread : \A i \in DOMAIN Message[t] :
        (producer[t].next = i /\ producer[t].at # "out")
            ~> Len(Of(t)) >= Len(LoggedOf(t, i)) \/ state # "ready"
=============================================================================
