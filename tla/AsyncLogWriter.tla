---------------------------- MODULE AsyncLogWriter ----------------------------
(***************************************************************************)
(* The AsyncLogWriter class of ws_client.cpp: the correlator thread hands  *)
(* lines to a queue under a mutex, a writer thread moves them to a file,   *)
(* and the main thread destroys the object once the correlator thread has  *)
(* been joined.  Lines are numbered in the order they are written.  A      *)
(* critical section that touches nothing but the queue is one step; the    *)
(* drain at exit, which does its I/O with the mutex held, is not.  The     *)
(* stream is a buffer in front of the file: libstdc++ may pass lines on    *)
(* to the file at any insertion, must do so at a flush, and ignores every  *)
(* insertion after one that failed.  A failed write is taken to fail as a  *)
(* whole: a line cut in the middle is not represented.                     *)
(***************************************************************************)
EXTENDS Integers, Sequences

CONSTANTS FlushEvery,  \* lines between two flushes, 500 in the program
          MaxLines     \* bound of the model: how many lines are written

ASSUME FlushAssumption == FlushEvery \in Nat \ {0}
ASSUME LinesAssumption == MaxLines \in Nat

VARIABLES
  running,      \* running_
  queue,        \* queue_
  locked,       \* mutex_ is held by the writer thread between two steps
  pc,           \* where the writer thread is
  line,         \* the line it took and has not inserted yet, if any
  write_count,  \* write_count_
  buffer,       \* the part of log_file_ that is still in the stream
  file,         \* the part that reached the file
  bad,          \* an I/O error has put log_file_ in a failed state
  corr,         \* the correlator thread has not returned yet
  owner,        \* where the main thread is
  written       \* history: the lines passed to write(), in order

vars == <<running, queue, locked, pc, line, write_count, buffer, file, bad,
          corr, owner, written>>
stream == <<buffer, file, bad>>
callers == <<corr, owner, written>>

-----------------------------------------------------------------------------
(* std::ofstream *)

\* Mutant: the error is cleared and the next line inserted.
InsertAfterError(l) ==
  \/ \E n \in 0..Len(buffer) + 1 :
       /\ file' = file \o SubSeq(Append(buffer, l), 1, n)
       /\ buffer' = SubSeq(Append(buffer, l), n + 1, Len(buffer) + 1)
       /\ UNCHANGED bad
  \/ bad' = TRUE /\ UNCHANGED <<buffer, file>>

\* log_file_ << line
Insert(l) ==
  \/ /\ ~bad
     /\ \E n \in 0..Len(buffer) + 1 :
          /\ file' = file \o SubSeq(Append(buffer, l), 1, n)
          /\ buffer' = SubSeq(Append(buffer, l), n + 1, Len(buffer) + 1)
     /\ UNCHANGED bad
  \/ bad' = TRUE /\ UNCHANGED <<buffer, file>>

\* log_file_.flush(): it succeeds as a whole or fails.  After an error some
\* versions of libstdc++ try again and others do nothing.
Flush ==
  \/ file' = file \o buffer /\ buffer' = << >> /\ UNCHANGED bad
  \/ bad' = TRUE /\ UNCHANGED <<buffer, file>>

\* log_file_.close(): the stream tries once more, whatever its state.
Close == Flush

-----------------------------------------------------------------------------
\* The constructor has opened the file and started the thread.
Init ==
  /\ running = TRUE
  /\ queue = << >>
  /\ locked = FALSE
  /\ pc = "loop"
  /\ line = << >>
  /\ write_count = 0
  /\ buffer = << >>
  /\ file = << >>
  /\ bad = FALSE
  /\ corr = TRUE
  /\ owner = "run"
  /\ written = << >>

-----------------------------------------------------------------------------
(* The correlator thread *)

write ==
  /\ corr
  /\ Len(written) < MaxLines
  /\ ~locked
  /\ queue' = Append(queue, Len(written) + 1)
  /\ written' = Append(written, Len(written) + 1)
  /\ UNCHANGED <<running, locked, pc, line, write_count, stream, corr, owner>>

\* g_running is false; the last pass is over.
CorrReturns ==
  /\ corr
  /\ corr' = FALSE
  /\ UNCHANGED <<running, queue, locked, pc, line, write_count, stream, owner,
                 written>>

-----------------------------------------------------------------------------
(* The writer thread *)

\* while (running_)
Loop ==
  /\ pc = "loop"
  /\ pc' = IF running THEN "take" ELSE "exit"
  /\ UNCHANGED <<running, queue, locked, line, write_count, stream, callers>>

\* The queue is empty: unlock, sleep, continue.
TakeNothing ==
  /\ pc = "take"
  /\ queue = << >>
  /\ pc' = "loop"
  /\ UNCHANGED <<running, queue, locked, line, write_count, stream, callers>>

\* Mutant: pop() is forgotten.
TakeWithoutPop ==
  /\ pc = "take"
  /\ queue # << >>
  /\ line' = <<Head(queue)>>
  /\ pc' = "insert"
  /\ UNCHANGED <<running, queue, locked, write_count, stream, callers>>

\* Mutant: the mutex is kept until the line has been written.
TakeAndHold ==
  /\ pc = "take"
  /\ queue # << >>
  /\ line' = <<Head(queue)>>
  /\ queue' = Tail(queue)
  /\ locked' = TRUE
  /\ pc' = "insert"
  /\ UNCHANGED <<running, write_count, stream, callers>>

Take ==
  /\ pc = "take"
  /\ queue # << >>
  /\ line' = <<Head(queue)>>
  /\ queue' = Tail(queue)
  /\ pc' = "insert"
  /\ UNCHANGED <<running, locked, write_count, stream, callers>>

\* The insertion, outside the lock
Write ==
  /\ pc = "insert"
  /\ Insert(line[1])
  /\ line' = << >>
  /\ pc' = "count"
  /\ UNCHANGED <<running, queue, locked, write_count, callers>>

\* Mutant: no flush before the end.
CountOnly ==
  /\ pc = "count"
  /\ write_count' = write_count + 1
  /\ pc' = "loop"
  /\ UNCHANGED <<running, queue, locked, line, stream, callers>>

\* if (++write_count_ % 500 == 0) log_file_.flush();
Count ==
  /\ pc = "count"
  /\ write_count' = write_count + 1
  /\ IF write_count' % FlushEvery = 0 THEN Flush ELSE UNCHANGED stream
  /\ pc' = "loop"
  /\ UNCHANGED <<running, queue, locked, line, callers>>

\* The lock after the loop, held to the end of the thread
DrainLock ==
  /\ pc = "exit"
  /\ ~locked
  /\ locked' = TRUE
  /\ pc' = "drain"
  /\ UNCHANGED <<running, queue, line, write_count, stream, callers>>

DrainOne ==
  /\ pc = "drain"
  /\ queue # << >>
  /\ Insert(Head(queue))
  /\ queue' = Tail(queue)
  /\ UNCHANGED <<running, locked, pc, line, write_count, callers>>

\* Mutant: what is still queued at exit is forgotten.
DrainNothing ==
  /\ pc = "drain"
  /\ Flush
  /\ locked' = FALSE
  /\ pc' = "done"
  /\ UNCHANGED <<running, queue, line, write_count, callers>>

\* The queue is empty: flush, unlock, end of the thread.
DrainEnd ==
  /\ pc = "drain"
  /\ queue = << >>
  /\ Flush
  /\ locked' = FALSE
  /\ pc' = "done"
  /\ UNCHANGED <<running, queue, line, write_count, callers>>

Writer ==
  \/ Loop
  \/ TakeNothing
  \/ Take
  \/ Write
  \/ Count
  \/ DrainLock
  \/ DrainOne
  \/ DrainEnd

-----------------------------------------------------------------------------
(* The main thread: join of corr_thread, then ~AsyncLogWriter *)

\* Mutant: the destructor forgets running_ = false.
StopForgotten ==
  /\ owner = "run"
  /\ ~corr
  /\ owner' = "join"
  /\ UNCHANGED <<running, queue, locked, pc, line, write_count, stream, corr,
                 written>>

Stop ==
  /\ owner = "run"
  /\ ~corr
  /\ running' = FALSE
  /\ owner' = "join"
  /\ UNCHANGED <<queue, locked, pc, line, write_count, stream, corr, written>>

JoinAndClose ==
  /\ owner = "join"
  /\ pc = "done"
  /\ Close
  /\ owner' = "closed"
  /\ UNCHANGED <<running, queue, locked, pc, line, write_count, corr, written>>

Owner == Stop \/ JoinAndClose

\* The program has ended.
Ended == owner = "closed" /\ UNCHANGED vars

Next == write \/ CorrReturns \/ Writer \/ Owner \/ Ended

Spec == Init /\ [][Next]_vars

\* Both threads are scheduled; nothing obliges the correlator thread to
\* return, which waits for a signal.
FairSpec == Spec /\ WF_vars(Writer) /\ WF_vars(Owner)

-----------------------------------------------------------------------------
(* Properties *)

\* Every variable stays in its domain.
TypeOK ==
  /\ running \in BOOLEAN /\ locked \in BOOLEAN /\ bad \in BOOLEAN
  /\ corr \in BOOLEAN
  /\ pc \in {"loop", "take", "insert", "count", "exit", "drain", "done"}
  /\ owner \in {"run", "join", "closed"}
  /\ queue \in Seq(Nat) /\ buffer \in Seq(Nat) /\ file \in Seq(Nat)
  /\ written \in Seq(Nat)
  /\ pc = "insert" => line \in [1..1 -> Nat]
  /\ pc # "insert" => line = << >>
  /\ write_count \in Nat

\* A crash at any moment, and an I/O error at any insertion or flush, leaves
\* the first lines in the file, in order and without a gap.
FileIsPrefix ==
  /\ Len(file) <= Len(written)
  /\ file = SubSeq(written, 1, Len(file))

\* Until an I/O error, every line passed to write() is in exactly one place:
\* in the file, in the stream, in the writer's hand or in the queue, in order.
EveryLineSomewhere ==
  ~bad => file \o buffer \o line \o queue = written

\* When the destructor returns, every line passed to write() is in the file,
\* unless an I/O error occurred.
CompleteAtClose == owner = "closed" /\ ~bad => file = written

\* Until an I/O error, of the lines that left the queue a crash loses at most
\* FlushEvery while the writer thread is in its loop, the one in its hand
\* included.  The drain flushes only at its end: a crash in it loses all that it
\* has inserted and fewer than FlushEvery of those before; one after it nothing.
LossBounded ==
  ~bad =>
    /\ pc \notin {"drain", "done"} =>
         Len(written) - Len(queue) - Len(file) <= FlushEvery
    /\ pc = "drain" => write_count - Len(file) < FlushEvery
    /\ pc = "done" => file = written

\* write() does not block: while the correlator thread runs, the mutex is
\* never held across an I/O operation.
WriteNeverWaits == corr => ~locked

\* The destructor returns: the writer thread leaves its loop and empties the
\* queue.
CloseTerminates == owner = "join" ~> owner = "closed"
=============================================================================
