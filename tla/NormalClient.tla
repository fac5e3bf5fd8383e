----------------------------- MODULE NormalClient -----------------------------
(***************************************************************************)
(* binance_market_nologger_00.cc, the client without capture: one thread   *)
(* that sets up a WebSocket client, connects, runs its event loop and      *)
(* handles messages, and a signal handler that may strike between any two  *)
(* steps of it.  websocketpp and asio are external: stop() needs the       *)
(* io_service that init_asio makes and is remembered by it; run() returns  *)
(* when it was stopped or has no work left, and a handler that is running  *)
(* counts as work.                                                         *)
(***************************************************************************)
EXTENDS Integers

CONSTANTS MaxSignals, MaxReceived  \* bounds of the model

ASSUME NormalAssumption == MaxSignals \in Nat /\ MaxReceived \in Nat

VARIABLES
  place,         \* where the thread is
  conn,          \* the connection: none, opening, open, closed or failed
  nested,        \* run() has been called again by the handler on_close posts
  g_client_ptr,  \* is set
  io_stopped,    \* the io_service has been stopped
  should_stop,
  message_count,
  messages,      \* history: messages received
  heard,         \* history: a signal came when the client could be stopped
  signals

nvars == <<place, conn, nested, g_client_ptr, io_stopped, should_stop, message_count,
           messages, heard, signals>>
flags == <<g_client_ptr, io_stopped, should_stop, heard, signals>>
counts == <<message_count, messages>>

NInit ==
  /\ place = "main"
  /\ conn = "none" /\ nested = FALSE
  /\ g_client_ptr = FALSE /\ io_stopped = FALSE /\ should_stop = FALSE /\ heard = FALSE
  /\ message_count = 0 /\ messages = 0 /\ signals = 0

Over == place \in {"exited", "crashed"}
HasIoService == place \notin {"main", "construct"}

-----------------------------------------------------------------------------
(* SIGINT *)

\* Mutant: the flag alone is to end the program.
FlagOnly == UNCHANGED <<place, io_stopped>>

\* if (g_client_ptr) g_client_ptr->stop(): a null io_service is a crash.
StopClient ==
  /\ io_stopped' = (io_stopped \/ (g_client_ptr /\ HasIoService))
  /\ place' = IF g_client_ptr /\ ~HasIoService THEN "crashed" ELSE place

sigint_handler ==
  /\ ~Over
  /\ signals < MaxSignals
  /\ signals' = signals + 1
  /\ should_stop' = TRUE
  /\ heard' = (heard \/ HasIoService)
  /\ StopClient
  /\ UNCHANGED <<conn, nested, g_client_ptr, counts>>

-----------------------------------------------------------------------------
(* The thread *)

\* main has installed the handler; the constructor publishes the pointer.
SetPointer ==
  /\ place = "main" /\ place' = "construct"
  /\ g_client_ptr' = TRUE
  /\ UNCHANGED <<conn, nested, io_stopped, should_stop, heard, signals, counts>>

\* init_asio and the callbacks
Construct ==
  /\ place = "construct" /\ place' = "connect"
  /\ UNCHANGED <<conn, nested, flags, counts>>

\* get_connection and m_client.connect, or "conn fail" and back to main
connect ==
  /\ place = "connect"
  /\ \/ place' = "run" /\ conn' = "opening"
     \/ place' = "exited" /\ UNCHANGED conn
  /\ UNCHANGED <<nested, flags, counts>>

\* The event loop calls handlers as long as it has not been stopped.
Serving == place = "run" /\ ~io_stopped

\* on_open subscribes. There is no fail handler.
Opens ==
  /\ Serving /\ conn = "opening"
  /\ conn' \in {"open", "failed"}
  /\ UNCHANGED <<place, nested, flags, counts>>

\* Mutant: the close is only reported.
ReportClose == UNCHANGED nested

\* on_close posts a handler that calls run() inside run().
PostRun == nested' = TRUE

on_close ==
  /\ Serving /\ conn = "open"
  /\ conn' = "closed"
  /\ PostRun
  /\ UNCHANGED <<place, flags, counts>>

\* on_message ignores what comes after the signal.
Handled == ~should_stop

\* A message arrives; a ping is answered in the same way, by on_ping.
MessageBegins ==
  /\ Serving /\ conn = "open"
  /\ messages < MaxReceived
  /\ messages' = messages + 1
  /\ place' = IF Handled THEN "message" ELSE "run"
  /\ UNCHANGED <<conn, nested, flags, message_count>>

\* A bookTicker is counted and printed; another message, or one whose numbers
\* do not parse, is left at that.
MessageEnds ==
  /\ place = "message" /\ place' = "run"
  /\ message_count' \in {message_count, message_count + 1}
  /\ UNCHANGED <<conn, nested, flags, messages>>

\* rapidjson asserts that the payload is an object with the members it reads.
MessageAborts ==
  /\ place = "message" /\ place' = "crashed"
  /\ UNCHANGED <<conn, nested, flags, counts>>

\* Stopped, or no work: no connection, and no handler under way.
LoopEnds ==
  /\ place = "run"
  /\ io_stopped \/ (conn \in {"closed", "failed"} /\ ~nested)
  /\ place' = "exited"
  /\ UNCHANGED <<conn, nested, flags, counts>>

Thread == SetPointer \/ Construct \/ connect \/ MessageEnds \/ LoopEnds

Done == Over /\ UNCHANGED nvars
\* Nobody ends the connection, or nothing ever happens again.
Waits == place = "run" /\ UNCHANGED nvars

NNext ==
  \/ sigint_handler \/ Thread \/ Opens \/ on_close \/ MessageBegins \/ MessageAborts
  \/ Done \/ Waits

NSpec == NInit /\ [][NNext]_nvars

\* The thread is scheduled; nothing is assumed of signals and of the exchange.
NFairSpec == NSpec /\ WF_nvars(Thread)

-----------------------------------------------------------------------------
(* Properties *)

\* A signal that finds the client set up ends the process, whether it waits
\* to connect, handles a message or has lost its connection.
HeardSignalEnds == heard ~> Over

\* A client that was connected once ends, short of a crash, only by a signal:
\* the run() nested in run() keeps it waiting after the connection is gone.
ConnectedEndsOnlyBySignal ==
  place = "exited" /\ conn \in {"open", "closed"} => heard
=============================================================================
