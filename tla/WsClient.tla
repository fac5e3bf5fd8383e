------------------------------- MODULE WsClient -------------------------------
(***************************************************************************)
(* The life of the ws_client_delay process: the main thread, which reads   *)
(* its arguments, sets everything up, starts two threads, runs the         *)
(* WebSocket event loop and takes everything down again, the thread that   *)
(* waits for a signal and stops the event loop, and the correlator thread. *)
(* What is followed is who may still touch the shared queue and the log    *)
(* writer, and whether the process always ends.  The queue is a count of   *)
(* events here (SharedQueue has its contents, SegmentLifecycle its         *)
(* segment), the log writer is open or destroyed (AsyncLogWriter has its   *)
(* inside), and the event loop of websocketpp runs until it is stopped or  *)
(* has no connection left; a stop before run() is remembered by it.        *)
(***************************************************************************)
EXTENDS Integers, Sequences

CONSTANTS MaxArgs,    \* bounds of the model: arguments of the program,
          MaxFetched, \*   trading pairs the exchange lists,
          MaxQueued,  \*   events in the shared queue
          MAX_SUBSCRIPTIONS  \* 205 in the program

ASSUME BoundAssumption == {MaxArgs, MaxFetched, MaxQueued} \subseteq Nat
ASSUME LimitAssumption == MAX_SUBSCRIPTIONS \in Nat \ {0}

VARIABLES
  args,       \* the arguments: options, WebSocket addresses, ZeroMQ endpoints
  g_running,  \* the flag that the signal handler clears
  main,       \* where the main thread is
  shutdown,   \* where shutdown_thread is
  corr,       \* where corr_thread is
  symbols,    \* how many trading pairs will be subscribed to
  connected,  \* the event loop still has a connection to serve,
  subscribed, \*   and how many pairs its open handler has subscribed to
  stopped,    \* the event loop has been told to stop
  mapped,     \* g_shared_queue is mapped
  logging,    \* async_writer: none, open or destroyed
  queued,     \* the number of events in the shared queue
  failed      \* history: the step that made main return 1

vars == <<args, g_running, main, shutdown, corr, symbols, connected, subscribed, stopped,
          mapped, logging, queued, failed>>
setup == <<args, symbols, failed>>
loop == <<connected, subscribed, stopped>>
resources == <<mapped, logging, queued>>

\* main has installed the handlers and read its arguments.
Init ==
  /\ args \in UNION {[1..n -> {"-wlogs", "wss", "tcp"}] : n \in 0..MaxArgs}
  /\ g_running = TRUE
  /\ main = "log"
  /\ shutdown = "none" /\ corr = "none"
  /\ symbols = 0
  /\ connected = FALSE /\ subscribed = 0 /\ stopped = FALSE
  /\ mapped = FALSE /\ logging = "none" /\ queued = 0
  /\ failed = "none"

-----------------------------------------------------------------------------
(* Outside *)

\* SIGINT or SIGTERM, at any time
signal_handler ==
  /\ main # "exited"
  /\ g_running' = FALSE
  /\ UNCHANGED <<setup, main, shutdown, corr, loop, resources>>

\* The connection fails or the exchange closes it; there is no reconnection.
PeerCloses ==
  /\ connected
  /\ connected' = FALSE
  /\ UNCHANGED <<setup, g_running, main, shutdown, corr, subscribed, stopped, resources>>

\* A capture process puts an event in the queue, through its own mapping.
CapturePush ==
  /\ queued < MaxQueued
  /\ queued' = queued + 1
  /\ UNCHANGED <<setup, g_running, main, shutdown, corr, loop, mapped, logging>>

-----------------------------------------------------------------------------
(* The main thread *)

\* return 1: the log writer, if any, is destroyed, the queue left as it is.
Fail(step) ==
  /\ main' = "exited"
  /\ failed' = step
  /\ logging' = IF logging = "open" THEN "destroyed" ELSE logging

\* -wlogs, anywhere; a file that cannot be opened is only reported.
CreateLog ==
  /\ main = "log" /\ main' = "symbols"
  /\ \/ (\E i \in DOMAIN args : args[i] = "-wlogs") /\ logging' = "open"
     \/ UNCHANGED logging
  /\ UNCHANGED <<setup, g_running, shutdown, corr, loop, mapped, queued>>

\* One default if nothing was fetched, no more than the limit of a connection
Subscriptions(n) ==
  IF n = 0 THEN 1 ELSE IF n > MAX_SUBSCRIPTIONS THEN MAX_SUBSCRIPTIONS ELSE n

\* fetch_all_symbols gives the trading pairs, none if any part of it fails.
FetchSymbols ==
  /\ main = "symbols" /\ main' = "queue"
  /\ \E n \in 0..MaxFetched : symbols' = Subscriptions(n)
  /\ UNCHANGED <<args, failed, g_running, shutdown, corr, loop, resources>>

CreateQueue ==
  /\ main = "queue"
  /\ \/ main' = "zmq" /\ mapped' = TRUE /\ UNCHANGED <<failed, logging>>
     \/ Fail("queue") /\ UNCHANGED mapped
  /\ UNCHANGED <<args, symbols, g_running, shutdown, corr, loop, queued>>

\* The second argument, whatever it is, is the endpoint to bind to.
Endpoint == IF Len(args) >= 2 THEN args[2] ELSE "tcp"

BindZmq ==
  /\ main = "zmq"
  /\ \/ Endpoint = "tcp" /\ main' = "connect" /\ UNCHANGED <<failed, logging>>
     \/ Endpoint = "tcp" /\ Fail("port in use")
     \/ Endpoint # "tcp" /\ Fail("not an endpoint")
  /\ UNCHANGED <<args, symbols, g_running, shutdown, corr, loop, mapped, queued>>

\* get_connection and connect, or a report of an error
Connect ==
  /\ main = "connect"
  /\ \/ main' = "start_shutdown" /\ connected' = TRUE /\ UNCHANGED <<failed, logging>>
     \/ Fail("connect") /\ UNCHANGED connected
  /\ UNCHANGED <<args, symbols, g_running, shutdown, corr, subscribed, stopped, mapped, queued>>

StartShutdown ==
  /\ main = "start_shutdown" /\ main' = "start_corr"
  /\ shutdown' = "wait"
  /\ UNCHANGED <<setup, g_running, corr, loop, resources>>

StartCorr ==
  /\ main = "start_corr" /\ main' = "run"
  /\ corr' = "loop"
  /\ UNCHANGED <<setup, g_running, shutdown, loop, resources>>

\* The open handler: publish the socket's descriptor, subscribe
OpenHandler ==
  /\ main = "run"
  /\ connected /\ ~stopped /\ subscribed = 0
  /\ subscribed' = symbols
  /\ UNCHANGED <<setup, g_running, main, shutdown, corr, connected, stopped, resources>>

\* The message handler, in the event loop: push, or drop when full
HandleMessage ==
  /\ main = "run"
  /\ connected /\ ~stopped /\ subscribed > 0
  /\ queued' = IF queued < MaxQueued THEN queued + 1 ELSE queued
  /\ UNCHANGED <<setup, g_running, main, shutdown, corr, loop, mapped, logging>>

RunReturns ==
  /\ main = "run" /\ main' = "clear"
  /\ stopped \/ ~connected
  /\ UNCHANGED <<setup, g_running, shutdown, corr, loop, resources>>

\* Mutant: the flag is left to the signal handler.
KeepRunning == g_running

\* g_running = false
RunningAfterLoop == FALSE

ClearRunning ==
  /\ main = "clear" /\ main' = "join_corr"
  /\ g_running' = RunningAfterLoop
  /\ UNCHANGED <<setup, shutdown, corr, loop, resources>>

\* Mutant: corr_thread is not waited for.
CorrForgotten == TRUE

\* corr_thread.join() can return.
CorrEnded == corr = "done"

JoinCorr ==
  /\ main = "join_corr" /\ main' = "join_shutdown"
  /\ CorrEnded
  /\ UNCHANGED <<setup, g_running, shutdown, corr, loop, resources>>

JoinShutdown ==
  /\ main = "join_shutdown" /\ main' = "close_log"
  /\ shutdown = "done"
  /\ UNCHANGED <<setup, g_running, shutdown, corr, loop, resources>>

\* async_writer.reset()
CloseLog ==
  /\ main = "close_log" /\ main' = "cleanup"
  /\ logging' = IF logging = "open" THEN "destroyed" ELSE logging
  /\ UNCHANGED <<setup, g_running, shutdown, corr, loop, mapped, queued>>

\* cleanup_shared_queue; return 0
Cleanup ==
  /\ main = "cleanup" /\ main' = "exited"
  /\ mapped' = FALSE
  /\ UNCHANGED <<setup, g_running, shutdown, corr, loop, logging, queued>>

Main ==
  \/ CreateLog \/ FetchSymbols \/ CreateQueue \/ BindZmq \/ Connect \/ StartShutdown
  \/ StartCorr \/ RunReturns \/ ClearRunning \/ JoinCorr \/ JoinShutdown \/ CloseLog
  \/ Cleanup

-----------------------------------------------------------------------------
(* shutdown_thread *)

\* while (g_running) sleep; then con->close
ShutdownClose ==
  /\ shutdown = "wait"
  /\ ~g_running
  /\ shutdown' = "stop"
  /\ UNCHANGED <<setup, g_running, main, corr, loop, resources>>

\* Mutant: the event loop is left to end by itself.
NoStop == stopped

\* stop_listening, stop, io_service.stop
StoppedAfter == TRUE

ShutdownStop ==
  /\ shutdown = "stop"
  /\ stopped' = StoppedAfter
  /\ shutdown' = "done"
  /\ UNCHANGED <<setup, g_running, main, corr, connected, subscribed, resources>>

Shutdown == ShutdownClose \/ ShutdownStop

-----------------------------------------------------------------------------
(* corr_thread *)

\* while (g_running): pop an event, correlate and log, or sleep
CorrPop ==
  /\ corr = "loop"
  /\ g_running
  /\ queued' = IF queued > 0 THEN queued - 1 ELSE queued
  /\ UNCHANGED <<setup, g_running, main, shutdown, corr, loop, mapped, logging>>

CorrLeave ==
  /\ corr = "loop"
  /\ ~g_running
  /\ corr' = "final"
  /\ UNCHANGED <<setup, g_running, main, shutdown, loop, resources>>

\* The last pass, which writes to the log
CorrFinalPass ==
  /\ corr = "final"
  /\ corr' = "done"
  /\ UNCHANGED <<setup, g_running, main, shutdown, loop, resources>>

Corr == CorrPop \/ CorrLeave \/ CorrFinalPass

-----------------------------------------------------------------------------
Ended == main = "exited" /\ UNCHANGED vars

\* Everything but the message handler, which also publishes: see ClientProcess.
Process ==
  \/ signal_handler \/ PeerCloses \/ CapturePush
  \/ Main \/ OpenHandler \/ Shutdown \/ Corr \/ Ended

Next == Process \/ HandleMessage

Spec == Init /\ [][Next]_vars

-----------------------------------------------------------------------------
(* Properties *)

\* The queue stays mapped as long as the message handler or the correlator
\* thread can use it, and the log writer outlives the correlator's last pass.
NoUseAfterRelease ==
  /\ main = "run" => mapped
  /\ corr \in {"loop", "final"} => mapped /\ logging # "destroyed"

\* No thread is left when main returns: destroying a joinable std::thread
\* would abort the process.
AllJoinedAtExit ==
  main = "exited" => corr \in {"none", "done"} /\ shutdown \in {"none", "done"}

\* A signal at any time, also during start-up or before the event loop runs,
\* ends the process.
SignalEndsProcess == ~g_running ~> main = "exited"

\* So does the end of the connection, with no signal at all.
LostConnectionEndsProcess ==
  (main = "run" /\ ~connected) ~> main = "exited"
=============================================================================
