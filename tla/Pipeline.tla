------------------------------- MODULE Pipeline -------------------------------
(***************************************************************************)
(* The whole path of a message: the network card and its capture, the      *)
(* client's receive and the probes around it, the loader, the message      *)
(* handler, the shared queue and the correlator.  Other processes of the   *)
(* machine, and other threads of the client (the I/O thread of ZeroMQ),    *)
(* receive too, and the probe does not tell their calls apart: a receive   *)
(* is foreign unless it is one of the WebSocket connection.  The question  *)
(* is which receive a report is made of.                                   *)
(* Correlator gives the windows, the passes and the matching; the inside   *)
(* of the other parts is in the modules of their own.  Every stamp is a    *)
(* tick of the one monotonic clock, so that a stamp names its receive.     *)
(***************************************************************************)
EXTENDS Correlator

CONSTANTS MaxMessages, MaxForeign  \* bounds: messages, foreign receives

ASSUME PipelineAssumption == MaxMessages \in Nat /\ MaxForeign \in Nat

VARIABLES
  now,       \* the monotonic clock
  arrived,   \* messages that have arrived
  card,      \* packets the DPDK capture has not taken yet
  socket,    \* messages in the client's receive buffer
  entry,     \* entry stamp of the client's receive under way, 0 if none
  hand,      \* messages of the last receive not handled yet
  stamp,     \* ts_userspace_ns of the message being handled, 0 if none
  foreign,   \* entry stamp of the foreign receive under way, 0 if none
  rb,        \* entry stamps in the probe's ring buffer
  queue,     \* the shared queue; an event gets its number when it is popped
  own,       \* history: the entry stamp of the receive that completed a message
  foreigns   \* history: the entry stamps of the foreign receives

source == <<arrived, card, socket, entry, hand, stamp, foreign, own, foreigns>>
pvars == <<vars, now, rb, queue, source>>

PInit ==
  /\ Init
  /\ now = 0
  /\ arrived = 0 /\ card = << >> /\ socket = << >>
  /\ entry = 0 /\ hand = << >> /\ stamp = 0
  /\ foreign = 0
  /\ rb = << >> /\ queue = << >>
  /\ own = << >>
  /\ foreigns = {}

Ticks == now + 1 \in Times /\ now' = now + 1

-----------------------------------------------------------------------------
(* The machine *)

Arrive ==
  /\ arrived < MaxMessages
  /\ arrived' = arrived + 1
  /\ card' = Append(card, arrived')
  /\ socket' = Append(socket, arrived')
  /\ UNCHANGED <<vars, now, rb, queue, entry, hand, stamp, foreign, own, foreigns>>

\* The DPDK capture stamps and pushes its copy of a packet.
CaptureNic ==
  /\ card # << >> /\ Ticks
  /\ queue' = Append(queue, [id |-> 0, type |-> "NIC", ts |-> now', tcp_seq |-> Head(card),
                             sock_ptr |-> 0])
  /\ card' = Tail(card)
  /\ UNCHANGED <<vars, rb, arrived, socket, entry, hand, stamp, foreign, own, foreigns>>

\* The event loop of the client finds its socket readable and receives.
Enter ==
  /\ entry = 0 /\ hand = << >> /\ socket # << >> /\ Ticks
  /\ entry' = now'
  /\ UNCHANGED <<vars, rb, queue, arrived, card, socket, hand, stamp, foreign, own, foreigns>>

\* The receive completes some messages, or none when it ends inside the first.
Return ==
  /\ entry # 0
  /\ \E n \in 0..Len(socket) :
       /\ hand' = SubSeq(socket, 1, n)
       /\ socket' = SubSeq(socket, n + 1, Len(socket))
       /\ own' = own \o [i \in 1..n |-> entry]
  /\ rb' = Append(rb, entry)
  /\ entry' = 0
  /\ UNCHANGED <<vars, now, queue, arrived, card, stamp, foreign, foreigns>>

\* A receive of another process or thread
ForeignEnter ==
  /\ foreign = 0 /\ Cardinality(foreigns) < MaxForeign /\ Ticks
  /\ foreign' = now'
  /\ foreigns' = foreigns \cup {now'}
  /\ UNCHANGED <<vars, rb, queue, arrived, card, socket, entry, hand, stamp, own>>

ForeignReturn ==
  /\ foreign # 0
  /\ foreign' = 0
  /\ rb' = Append(rb, foreign)
  /\ UNCHANGED <<vars, now, queue, arrived, card, socket, entry, hand, stamp, own, foreigns>>

\* The loader pushes a record; what the copy leaves in tcp_seq is arbitrary.
LoaderPush ==
  /\ rb # << >>
  /\ \E s \in TcpSeqs :
       queue' = Append(queue, [id |-> 0, type |-> "KERNEL", ts |-> Head(rb), tcp_seq |-> s,
                               sock_ptr |-> 1])
  /\ rb' = Tail(rb)
  /\ UNCHANGED <<vars, now, source>>

-----------------------------------------------------------------------------
(* The message handler *)

\* Its first statement takes the time.
Stamp ==
  /\ hand # << >> /\ stamp = 0 /\ Ticks
  /\ stamp' = now'
  /\ UNCHANGED <<vars, rb, queue, arrived, card, socket, entry, hand, foreign, own, foreigns>>

\* The payload has been parsed and published: the user event is pushed.
HandlerPush ==
  /\ stamp # 0
  /\ queue' = Append(queue, [id |-> 0, type |-> "USERSPACE", ts |-> stamp, tcp_seq |-> 0,
                             sock_ptr |-> 0, timed |-> TRUE, msg |-> Head(hand)])
  /\ stamp' = 0
  /\ hand' = Tail(hand)
  /\ UNCHANGED <<vars, now, rb, arrived, card, socket, entry, foreign, own, foreigns>>

-----------------------------------------------------------------------------
(* The correlator thread *)

\* The event popped, with its number, in a window that holds events of this type
With(window, type) ==
  LET e == Head(queue)
  IN  IF e.type = type THEN Append(window, [e EXCEPT !.id = popped + 1]) ELSE window

Pop ==
  /\ ~ended /\ queue # << >> /\ popped < MaxEvents
  /\ Added(With(nic_events, "NIC"), With(kernel_events, "KERNEL"),
           With(user_events, "USERSPACE"))
  /\ users' = IF Head(queue).type = "USERSPACE" THEN users \cup {popped + 1} ELSE users
  /\ queue' = Tail(queue)
  /\ UNCHANGED <<inOrder, now, rb, source>>

LastPass == FinalPass /\ UNCHANGED <<now, rb, queue, source>>

PNext ==
  \/ Arrive \/ CaptureNic \/ Enter \/ Return \/ ForeignEnter \/ ForeignReturn
  \/ LoaderPush \/ Stamp \/ HandlerPush \/ Pop \/ LastPass

PSpec == PInit /\ [][PNext]_pvars

-----------------------------------------------------------------------------
(* Properties.  They speak of the reports of the pass just made, and of user *)
(* events whose own kernel event was in the window then.                     *)

OwnInWindow(r) ==
  /\ Due(cnt) \/ ended
  /\ \E j \in DOMAIN kernel_events : kernel_events[j].ts = own[r.u.msg]

\* A report is made of the message's own receive unless another process,
\* or another thread of the client, began one between that receive and the
\* handler's stamp: the connection's further receives never get in between,
\* although several messages may share one.
OwnReceiveUnlessForeign ==
  \A i \in DOMAIN report :
    LET r == report[i]  o == own[r.u.msg]
    IN  OwnInWindow(r) /\ ~(\E f \in foreigns : o < f /\ f < r.u.ts) => r.k.ts = o
=============================================================================
