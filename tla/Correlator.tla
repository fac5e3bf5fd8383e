------------------------------ MODULE Correlator ------------------------------
(***************************************************************************)
(* The correlator thread of ws_client.cpp with its EventCorrelator: every  *)
(* event popped from the shared queue joins the window of its kind, and    *)
(* after every Batch events a pass trims the windows and matches every     *)
(* user event in its window with a kernel event and that one with a NIC    *)
(* event.  A last pass is made when the program stops.  An event is        *)
(* abstracted to its number in the order of the pops, the timestamp of its *)
(* layer, and the two fields matches are made by; a user event also tells  *)
(* whether its payload gave a send time before its arrival, which decides  *)
(* whether its report goes to the log file.                                *)
(***************************************************************************)
EXTENDS Integers, Sequences, SequencesExt

CONSTANTS Window,     \* MAX_WINDOW, 4096 in the program
          Batch,      \* events between two passes, 200 in the program
          CntWord,    \* the modulus of cnt, 2^32 in the program
          Times,      \* the timestamps
          TcpSeqs,    \* the TCP sequence numbers; 0 is an unset one
          MaxEvents   \* bound of the model: how many events are popped

ASSUME WindowAssumption == Window \in Nat /\ Batch \in Nat \ {0} /\ Batch <= Window
ASSUME CntAssumption == CntWord \in Nat /\ Batch <= CntWord
ASSUME ValueAssumption == Times \subseteq Nat \ {0} /\ TcpSeqs \subseteq Nat
ASSUME EventsAssumption == MaxEvents \in Nat

VARIABLES
  nic_events, kernel_events, user_events,  \* the windows
  cnt,        \* events since the start, a uint32_t
  ended,      \* the thread has returned
  report,     \* the reports of the latest pass, in order
  popped,     \* history: how many events were popped
  users,      \* history: the numbers of the user events popped
  considered, \* history: those that took part in some pass
  inOrder     \* history: kernel events came in the order of their timestamps

vars == <<nic_events, kernel_events, user_events, cnt, ended, report, popped,
          users, considered, inOrder>>

-----------------------------------------------------------------------------
(* Events *)

NicEvents(id) ==
  {[id |-> id, ts |-> t, tcp_seq |-> s, sock_ptr |-> 0] :
     t \in Times, s \in TcpSeqs}

\* The bytes that reach the two fields of a kernel event are arbitrary (see
\* the loader); only whether sock_ptr is set could matter.
KernelEvents(id) ==
  {[id |-> id, ts |-> t, tcp_seq |-> s, sock_ptr |-> 1] :
     t \in Times, s \in TcpSeqs}

\* The message handler knows neither the TCP sequence number nor the socket
\* pointer and sets both to 0.
UserEvents(id) ==
  {[id |-> id, ts |-> t, tcp_seq |-> 0, sock_ptr |-> 0, timed |-> b] :
     t \in Times, b \in BOOLEAN}

-----------------------------------------------------------------------------
(* Matching.  A result is a sequence: empty, or the event that was found. *)

\* The first event with this TCP sequence number
BySeq(events, seq) ==
  LET i == SelectInSeq(events, LAMBDA e : e.tcp_seq = seq /\ e.tcp_seq # 0)
  IN  IF i = 0 THEN << >> ELSE <<events[i]>>

\* Mutant: <= instead of <, so that the last of several is kept.
CloserOrSame(best, e, t) ==
  IF e.ts > 0 /\ e.ts <= t /\ (best = << >> \/ t - e.ts <= t - best[1].ts)
    THEN <<e>> ELSE best

\* Mutant: an event after t counts as well.
AtAnyTime(best, e, t) ==
  IF e.ts > 0 /\ (best = << >> \/ t - e.ts < t - best[1].ts)
    THEN <<e>> ELSE best

\* One round of the scan for the event closest to t among those not after it
Closer(best, e, t) ==
  IF e.ts > 0 /\ e.ts <= t /\ (best = << >> \/ t - e.ts < t - best[1].ts)
    THEN <<e>> ELSE best

\* The scan over the events with these indices; best[i] is its state after i of
\* them.
ByTime(events, among, t) ==
  LET best[i \in 0..Len(events)] ==
        IF i = 0 THEN << >>
        ELSE IF i \in among THEN Closer(best[i - 1], events[i], t) ELSE best[i - 1]
  IN  best[Len(events)]

OtherSocket(ke, ue) ==
  ke.sock_ptr # 0 /\ ue.sock_ptr # 0 /\ ke.sock_ptr # ue.sock_ptr

MatchKernel(kernel, ue) ==
  LET exact == BySeq(kernel, ue.tcp_seq)
  IN  IF exact # << >> THEN exact
      ELSE ByTime(kernel, {i \in DOMAIN kernel : ~OtherSocket(kernel[i], ue)}, ue.ts)

MatchNic(nic, ke) ==
  LET exact == BySeq(nic, ke.tcp_seq)
  IN  IF exact # << >> THEN exact ELSE ByTime(nic, DOMAIN nic, ke.ts)

\* The report of a user event, if it has a kernel event; logged tells whether
\* it is also passed to the AsyncLogWriter.
ReportOf(nic, kernel, ue) ==
  LET found == MatchKernel(kernel, ue)
  IN  IF found = << >> THEN << >>
      ELSE <<[u |-> ue, k |-> found[1], n |-> MatchNic(nic, found[1]), logged |-> ue.timed]>>

\* The reports of a pass over these windows, in the order of the user events
Reports(nic, kernel, user) ==
  LET made[i \in 0..Len(user)] ==
        IF i = 0 THEN << >> ELSE made[i - 1] \o ReportOf(nic, kernel, user[i])
  IN  made[Len(user)]

-----------------------------------------------------------------------------
(* The windows *)

\* Mutants: the end is erased; one event too many is kept.
KeepFront(s, n) == IF Len(s) > n THEN SubSeq(s, 1, Len(s) - n) ELSE s
KeepOneMore(s, n) == IF Len(s) > n THEN SubSeq(s, Len(s) - n, Len(s)) ELSE s

\* trim_deques keeps the last n events of a window.
LastAtMost(s, n) == IF Len(s) > n THEN SubSeq(s, Len(s) - n + 1, Len(s)) ELSE s

\* The trimming at the end of a pass drops half of the limit when it is passed.
DropOldHalf(s, limit) ==
  IF Len(s) > limit THEN SubSeq(s, limit \div 2 + 1, Len(s)) ELSE s

\* correlate_and_log on windows that hold nic, kernel and user
Pass(nic, kernel, user) ==
  LET n == LastAtMost(nic, Window)
      k == LastAtMost(kernel, Window)
      u == LastAtMost(user, Window)
  IN  /\ report' = Reports(n, k, u)
      /\ considered' = considered \cup {u[i].id : i \in DOMAIN u}
      /\ user_events' = DropOldHalf(u, Window)
      /\ kernel_events' = DropOldHalf(k, 2 * Window)
      /\ nic_events' = DropOldHalf(n, 2 * Window)

-----------------------------------------------------------------------------
Init ==
  /\ nic_events = << >> /\ kernel_events = << >> /\ user_events = << >>
  /\ cnt = 0
  /\ ended = FALSE
  /\ report = << >>
  /\ popped = 0
  /\ users = {}
  /\ considered = {}
  /\ inOrder = TRUE

\* ++cnt % 200 == 0
Due(c) == c % Batch = 0

\* add_event has put the event in its window; a pass follows if it is due.
Added(nic, kernel, user) ==
  /\ popped' = popped + 1
  /\ cnt' = (cnt + 1) % CntWord
  /\ IF Due(cnt')
       THEN Pass(nic, kernel, user)
       ELSE /\ nic_events' = nic /\ kernel_events' = kernel /\ user_events' = user
            /\ UNCHANGED <<report, considered>>
  /\ UNCHANGED ended

PopNic ==
  /\ ~ended /\ popped < MaxEvents
  /\ \E e \in NicEvents(popped + 1) :
       Added(Append(nic_events, e), kernel_events, user_events)
  /\ UNCHANGED <<users, inOrder>>

PopKernel ==
  /\ ~ended /\ popped < MaxEvents
  /\ \E e \in KernelEvents(popped + 1) :
       /\ Added(nic_events, Append(kernel_events, e), user_events)
       /\ inOrder' = (inOrder /\ (kernel_events # << >> =>
                                    Last(kernel_events).ts <= e.ts))
  /\ UNCHANGED users

\* The handler runs in one thread and its clock is steady.
PopUser ==
  /\ ~ended /\ popped < MaxEvents
  /\ \E e \in UserEvents(popped + 1) :
       /\ user_events # << >> => Last(user_events).ts <= e.ts
       /\ Added(nic_events, kernel_events, Append(user_events, e))
       /\ users' = users \cup {e.id}
  /\ UNCHANGED inOrder

\* g_running is false: the last pass, whatever is still in the shared queue.
FinalPass ==
  /\ ~ended
  /\ ended' = TRUE
  /\ Pass(nic_events, kernel_events, user_events)
  /\ UNCHANGED <<cnt, popped, users, inOrder>>

\* The thread has returned.
Ended == ended /\ UNCHANGED vars

Next == PopNic \/ PopKernel \/ PopUser \/ FinalPass \/ Ended

Spec == Init /\ [][Next]_vars

-----------------------------------------------------------------------------
(* Properties *)

\* The windows stay bounded, whatever the mix of kinds, also when cnt wraps.
WindowsBounded ==
  \A w \in {nic_events, kernel_events, user_events} :
    Len(w) <= Window + (cnt % Batch)

\* No user event is trimmed before a pass has tried to match it, and none is
\* left untried when the thread returns.
NoUserEventSkipped ==
  /\ users \ considered \subseteq {user_events[i].id : i \in DOMAIN user_events}
  /\ ended => users = considered

\* A user event is matched with the latest kernel event not after it, the one
\* popped first if there are several, of those in the window.
MatchIsNearest ==
  \A i \in DOMAIN report :
    LET r == report[i]
    IN  /\ r.k.ts > 0 /\ r.k.ts <= r.u.ts
        /\ Due(cnt) \/ ended =>
             \A j \in DOMAIN kernel_events :
               LET ke == kernel_events[j]
               IN  ke.ts <= r.u.ts =>
                     \/ ke.ts < r.k.ts
                     \/ ke.ts = r.k.ts /\ r.k.id <= ke.id

\* As long as kernel events come in the order of their timestamps, a later
\* pass over the same user event never replaces its kernel event by an earlier
\* one, although windows are trimmed in between.
MatchNeverWorsens ==
  [][inOrder' =>
       \A i \in DOMAIN report, j \in DOMAIN report' :
         report'[j].u.id = report[i].u.id => report'[j].k.ts >= report[i].k.ts]_vars
=============================================================================
