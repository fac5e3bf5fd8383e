----------------------------- MODULE KernelProbe -----------------------------
(***************************************************************************)
(* bpf_program.c and ebpf_loader.cpp: the two probes on tcp_recvmsg, the   *)
(* map that hands the entry's time stamp to the return, the ring buffer to *)
(* user space, and the loader process that attaches the probes, turns      *)
(* every record into a UnifiedEvent and pushes it.  Threads of any process *)
(* receive all the time; a call that was entered before the return probe   *)
(* was attached, or that found no free kretprobe instance, has a return    *)
(* that nobody sees, and an entry probe can be skipped too.  The clock     *)
(* ticks with every call and every arrival, so a stamp names its call.     *)
(***************************************************************************)
EXTENDS Integers, Sequences, FiniteSets

CONSTANTS Threads,   \* the threads that receive from TCP sockets, 1..n
          MaxCtx,    \* entries recv_ctx_map holds, 1024 in the program
          RingSize,  \* records the ring buffer holds, 2^24 bytes in the program
          MaxTime    \* bound of the model: the clock

ASSUME ThreadAssumption == Threads \subseteq Nat \ {0}
ASSUME SizeAssumption == MaxCtx \in Nat /\ RingSize \in Nat /\ MaxTime \in Nat

VARIABLES
  clock,
  data,       \* when the data that waits in each thread's socket came, 0 if none
  call,       \* each thread's call: entry time, 0 if none, and which probes see it
  recv_ctx,   \* recv_ctx_map: the entry stamp stored for each thread, 0 if none
  rb,         \* the ring buffer: records not yet handled
  place,      \* where the loader is
  g_running,
  submitted,  \* history: every record submitted
  pushed,     \* history: every UnifiedEvent offered to the shared queue
  unseen      \* history: entry times of the calls whose return was not seen

vars == <<clock, data, call, recv_ctx, rb, place, g_running, submitted, pushed, unseen>>
kernel == <<clock, data, call, recv_ctx, submitted, unseen>>
loader == <<place, g_running, pushed>>

NoCall == [entry |-> 0, entryRuns |-> FALSE, returnRuns |-> FALSE]

Init ==
  /\ clock = 0
  /\ data = [t \in Threads |-> 0]
  /\ call = [t \in Threads |-> NoCall]
  /\ recv_ctx = [t \in Threads |-> 0]
  /\ rb = << >>
  /\ place = "open"
  /\ g_running = TRUE
  /\ submitted = << >>
  /\ pushed = << >>
  /\ unseen = {}

Polling == place \in {"test", "poll"}
EntryAttached == Polling \/ place \in {"kretprobe", "ring", "detach_entry"}
ReturnAttached == Polling \/ place \in {"ring", "detach_entry", "detach_return"}

-----------------------------------------------------------------------------
(* The kernel *)

Arrive(t) ==
  /\ clock < MaxTime
  /\ data[t] = 0
  /\ clock' = clock + 1
  /\ data' = [data EXCEPT ![t] = clock']
  /\ UNCHANGED <<call, recv_ctx, submitted, unseen, rb, loader>>

\* Mutant: BPF_NOEXIST.
UpdateIfAbsent(ctx, t, ts) ==
  IF ctx[t] = 0 /\ Cardinality({u \in Threads : ctx[u] # 0}) < MaxCtx
    THEN [ctx EXCEPT ![t] = ts] ELSE ctx

\* bpf_map_update_elem with BPF_ANY; its failure on a full map is ignored.
Update(ctx, t, ts) ==
  IF ctx[t] # 0 \/ Cardinality({u \in Threads : ctx[u] # 0}) < MaxCtx
    THEN [ctx EXCEPT ![t] = ts] ELSE ctx

\* tcp_recvmsg is entered: kprobe__tcp_recvmsg runs, if it is attached and not
\* skipped, and the return is hooked, if that probe is attached and has room.
Enter(t) ==
  /\ clock < MaxTime
  /\ call[t] = NoCall
  /\ clock' = clock + 1
  /\ \E e \in {EntryAttached, FALSE}, r \in {ReturnAttached, FALSE} :
       /\ call' = [call EXCEPT ![t] = [entry |-> clock', entryRuns |-> e, returnRuns |-> r]]
       /\ recv_ctx' = IF e THEN Update(recv_ctx, t, clock') ELSE recv_ctx
  /\ UNCHANGED <<data, submitted, unseen, rb, loader>>

Delete(t) == [recv_ctx EXCEPT ![t] = 0]

\* The record kretprobe__tcp_recvmsg fills in: data[512] is left as it was.
EventOf(t) ==
  [type |-> 2, seq_no |-> 0, ts_nic_ns |-> 0, ts_kernel_ns |-> recv_ctx[t],
   ts_userspace_ns |-> 0, sock_fd |-> -1, sock_ptr |-> t, tcp_seq |-> 0, pid |-> t,
   pkt_len |-> 1, data_len |-> 0, src_port |-> 0, dst_port |-> 0, data |-> "unset"]

\* Mutants: the entry of a failed or of a reported receive is not removed.
KeepOnError(t, bytes) == IF bytes > 0 THEN Delete(t) ELSE recv_ctx
KeepOnSubmit(t, bytes) == IF bytes > 0 /\ Len(rb) < RingSize THEN recv_ctx ELSE Delete(t)

\* Every way out of kretprobe__tcp_recvmsg that found an entry removes it.
AfterReturn(t, bytes) == Delete(t)

\* tcp_recvmsg returns and the return probe runs.
ReturnSeen(t, bytes) ==
  /\ call[t].returnRuns /\ ReturnAttached
  /\ IF recv_ctx[t] = 0
       THEN UNCHANGED <<recv_ctx, rb, submitted>>
       ELSE /\ recv_ctx' = AfterReturn(t, bytes)
            /\ IF bytes > 0 /\ Len(rb) < RingSize
                 THEN /\ rb' = Append(rb, EventOf(t))
                      /\ submitted' = Append(submitted,
                           [ts |-> recv_ctx[t], call |-> call[t]])
                 ELSE UNCHANGED <<rb, submitted>>
  /\ UNCHANGED unseen

ReturnUnseen(t) ==
  /\ ~(call[t].returnRuns /\ ReturnAttached)
  /\ unseen' = unseen \cup {call[t].entry}
  /\ UNCHANGED <<recv_ctx, rb, submitted>>

\* A call returns what has arrived, or an error or the end of the stream.
Return(t) ==
  /\ call[t] # NoCall
  /\ \E bytes \in {0, data[t]} :
       /\ ReturnSeen(t, bytes) \/ ReturnUnseen(t)
       /\ data' = [data EXCEPT ![t] = IF bytes > 0 THEN 0 ELSE @]
  /\ call' = [call EXCEPT ![t] = NoCall]
  /\ UNCHANGED <<clock, loader>>

-----------------------------------------------------------------------------
(* The two record layouts: names and sizes of the fields, in order.  A field *)
(* is aligned to its size, data to a byte.                                   *)

Stamps == << <<"type", 4>>, <<"seq_no", 8>>, <<"ts_nic_ns", 8>>, <<"ts_kernel_ns", 8>>,
             <<"ts_userspace_ns", 8>> >>
Rest == << <<"sock_fd", 4>>, <<"sock_ptr", 8>>, <<"tcp_seq", 4>>, <<"pid", 4>>,
           <<"pkt_len", 4>>, <<"data_len", 4>>, <<"src_port", 2>>, <<"dst_port", 2>>,
           <<"data", 512>> >>

\* Mutant: the type is a 16-byte header of its own.
LongHeaderFields == << <<"type", 16>> >> \o Tail(Stamps) \o Rest

BpfFields == Stamps \o Rest

UnifiedFields ==
  Stamps \o << <<"ts_userspace_epoch_ns", 8>>, <<"ts_cpu_deserialization", 8>>,
               <<"src_send_ts_ns", 8>>, <<"ts_msk_send_ns", 8>> >> \o Rest

RoundUp(n, a) == ((n + a - 1) \div a) * a

Alignment(f) == IF f[1] = "data" THEN 1 ELSE f[2]

\* The first byte of every field: end[i] is the first one after field i.
Offsets(fields) ==
  LET end[i \in 0..Len(fields)] ==
        IF i = 0 THEN 0 ELSE RoundUp(end[i - 1], Alignment(fields[i])) + fields[i][2]
      IndexOf(f) == CHOOSE i \in DOMAIN fields : fields[i][1] = f
  IN  [f \in {fields[i][1] : i \in DOMAIN fields} |-> end[IndexOf(f)] - fields[IndexOf(f)][2]]

BpfAt == Offsets(BpfFields)
UnifiedAt == Offsets(UnifiedFields)

\* memcpy(&unified, e, sizeof(UnifiedEvent)): a field gets what stood at its
\* offset, a whole field of the record or bytes that are no field.
Copied(e) ==
  [f \in DOMAIN UnifiedAt |->
     LET from == {g \in DOMAIN BpfAt : g # "data" /\ BpfAt[g] = UnifiedAt[f]}
     IN  IF from = {} THEN "bytes" ELSE e[CHOOSE g \in from : TRUE]]

-----------------------------------------------------------------------------
(* The loader *)

NextPlace ==
  [open |-> "load", load |-> "kprobe", kprobe |-> "kretprobe", kretprobe |-> "ring",
   ring |-> "test", detach_entry |-> "detach_return", detach_return |-> "exited"]

\* open_shared_queue, open and load the object, attach each probe, make the
\* ring buffer; later, detach the probes in the same order
Proceed ==
  /\ place \in DOMAIN NextPlace
  /\ place' = NextPlace[place]
  /\ UNCHANGED <<kernel, rb, g_running, pushed>>

\* Any step before the loop may fail: return 1, and the kernel detaches the
\* probes and drops the maps.  So does a kill at any time.
Fails ==
  /\ place # "exited"
  /\ place' = "exited"
  /\ UNCHANGED <<kernel, rb, g_running, pushed>>

signal_handler ==
  /\ place # "exited"
  /\ g_running' = FALSE
  /\ UNCHANGED <<kernel, rb, place, pushed>>

\* ring_buffer__poll calls handle_event for every record it finds: convert and
\* push.  A full shared queue drops the event (SharedQueue).
handle_event ==
  /\ place = "poll"
  /\ rb # << >>
  /\ rb' = Tail(rb)
  /\ pushed' = Append(pushed, [from |-> Head(rb), to |-> Copied(Head(rb))])
  /\ UNCHANGED <<kernel, place, g_running>>

\* Nothing is left to handle: the call times out, or a signal interrupts it.
PollReturns ==
  /\ place = "poll" /\ rb = << >>
  /\ place' = "test"
  /\ UNCHANGED <<kernel, rb, g_running, pushed>>

\* while (g_running)
LoopTest ==
  /\ place = "test"
  /\ place' = IF g_running THEN "poll" ELSE "detach_entry"
  /\ UNCHANGED <<kernel, rb, g_running, pushed>>

\* ring_buffer__poll reports an error other than -EINTR: break
PollError ==
  /\ place = "poll"
  /\ place' = "detach_entry"
  /\ UNCHANGED <<kernel, rb, g_running, pushed>>

Loader == Proceed \/ handle_event \/ PollReturns \/ LoopTest \/ PollError

-----------------------------------------------------------------------------
\* The loader is gone and the threads receive as before, or not at all.
Ended == place = "exited" /\ UNCHANGED vars

Next ==
  \/ \E t \in Threads : Arrive(t) \/ Enter(t) \/ Return(t)
  \/ Loader \/ Fails \/ signal_handler \/ Ended

Spec == Init /\ [][Next]_vars

-----------------------------------------------------------------------------
(* Properties *)

\* A record carries the stamp of its own call whenever the entry probe ran,
\* although an earlier call of the thread may have left a stamp behind.
OwnStamp ==
  \A i \in DOMAIN submitted :
    submitted[i].call.entryRuns => submitted[i].ts = submitted[i].call.entry

\* A stamp is reported once: an entry probe that is skipped never makes the
\* thread report an earlier, already reported call again.
StampReportedOnce ==
  \A i, j \in DOMAIN submitted : i # j => submitted[i].ts # submitted[j].ts

\* recv_ctx_map only fills up with calls under way and with calls whose return
\* no probe saw; failed receives and a full ring buffer leave nothing behind.
LeakOnlyUnseen ==
  \A t \in Threads :
    recv_ctx[t] # 0 => recv_ctx[t] = call[t].entry \/ recv_ctx[t] \in unseen

\* The copy keeps what the correlator uses of a kernel event: its kind and its
\* stamp, each at the offset the other layout has it.
StampSurvivesCopy ==
  \A i \in DOMAIN pushed :
    LET e == pushed[i].from  u == pushed[i].to
    IN  u.type = e.type /\ u.ts_kernel_ns = e.ts_kernel_ns

=============================================================================
