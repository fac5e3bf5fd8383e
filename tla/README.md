# A verification of the WebSocket latency profiler

The program measures where time goes between the exchange sending a market
message and the client having passed it on. Three processes record events, a
shared-memory ring collects them, and a correlator joins them into latency
reports. This directory holds TLA+ models of its core, the TLC runs that check
them on small instances, and proofs of the central results for all instances.

## 1. The system

| Part | Source | State | Operations |
|---|---|---|---|
| Shared event queue | `shared_events.h` | `head`, `tail`, `capacity`, `mask`, slots in `/dev/shm/ws_latency_queue` | `create_shared_queue`, `open_shared_queue`, `shared_queue_push`, `shared_queue_pop`, `cleanup_shared_queue`, `write_socket_fd_to_ebpf` |
| Message handler | `ws_client.cpp` 637-777 | `g_seq_no` | stamp, parse, publish to ZeroMQ, push a user event |
| Event correlator | `ws_client.cpp` 299-512, 809-826 | three windows, `cnt` | `add_event`, `correlate_and_log`, `trim_deques` |
| Log writer | `ws_client.cpp` 213-296 | `running_`, `queue_`, `mutex_`, the stream, `write_count_` | `write`, the writer thread, the destructor |
| Client process | `ws_client.cpp` 82-160, 514-845 | `g_running`, arguments, three threads, the event loop | start-up, signal handler, run, join, clean up |
| ZeroMQ publisher / subscriber | `ws_client.cpp` 51-80, `zmq_subscriber_test.cpp` | a PUB and a SUB socket | `send_message` (two frames), two receives |
| eBPF probe and loader | `bpf_program.c`, `ebpf_loader.cpp` | `recv_ctx_map`, a ring buffer, `g_running` | entry and return probe of `tcp_recvmsg`, attach, poll, `handle_event` (copy, push), detach |
| DPDK capture | `dpdk_capture.cpp` | a NIC queue, a buffer pool, counters | `parse_tcp_packet`, the capture loop (burst, stamp, push, free), statistics |
| Plain client | `binance_market_nologger_00.cc` | `g_client_ptr`, `should_stop`, one connection | connect, `on_open`, `on_message`, `on_close`, signal handler |
| Scripts | `start_houtai.sh`, `stop.sh`, ... | the processes, the segment's name | start one after the other, signal, remove the segment, report |
| Analysis | `analyze_latency.py` | - | statistics over a log file |

**Interaction.** The message handler (in the client's main thread), the eBPF
loader and the DPDK capture push to the same ring; the client's correlator
thread is the only consumer. The correlator hands lines to the log writer, whose
thread moves them to a file; the handler publishes every message to ZeroMQ
subscribers. The client creates the segment, resets it and unlinks its name; the
captures open it by name. A signal clears `g_running`; `shutdown_thread` then
stops the event loop, `main` joins the threads, destroys the log writer and
unmaps and unlinks the ring.

**What is hard.** Push and pop are lock-free and cross process boundaries:
their correctness depends on the order of single loads and stores, and on who
else is between two of them. Any process may die and be started again while the
others keep the segment mapped. Probes are missed, buffers and maps fill up, the
two clocks of the machine drift apart, subscribers come late. The writer thread
and the destructor meet through a flag, a mutex and a join. Teardown must not
release what a thread still uses, for every moment a signal or a lost connection
can come. The correlator sees the three kinds of events in any mix and order,
over windows that it trims. The full list, line by line, is `hazards` in
`PROJECT.json`.

**What makes each part correct.** Queue: an accepted event is popped once, whole
and in order, and a push is refused only when the ring is full; an old segment
that is used again does not give its events to the next run. Log writer: nothing is lost, the file is always a prefix,
the destructor leaves a complete file and returns. Correlator: bounded memory, no
user event skipped, the nearest match, latencies that are the true ones up to a
stated error. Process: it always ends, and nothing is used after its release.
Probe: a record carries its own call's stamp, and the map does not fill up by
itself. Capture: no read outside a packet, no buffer lost.

## 2. Modules

| Module | Models | Depends on |
|---|---|---|
| `EventFifo` | the promise of the queue: a bounded FIFO that refuses only when full | |
| `SharedQueue` | push and pop, one step per access to shared memory | `EventFifo` (refined) |
| `MCSharedQueue` | the symmetry of the capture processes for TLC | `SharedQueue` |
| `SharedQueueProofs` | its proofs, for any number of producers and for one, the refinement included | `SharedQueue` |
| `SegmentLifecycle` | the segment: create, reset, open, unlink, processes that die and return | |
| `SegmentLifecycleProofs` | proofs about the segment | `SegmentLifecycle` |
| `AsyncLogWriter` | the log writer with its thread, its stream and I/O errors | |
| `AsyncLogWriterProofs` | its proofs | `AsyncLogWriter` |
| `Correlator` | windows, passes and matching | |
| `LatencyReport` | the stamps of one message and the arithmetic of its report | |
| `WsClient` | start-up, threads, signals and teardown of the process | |
| `ZmqPublisher` | the two-frame messages and a subscriber | |
| `ClientProcess` | the process together with what its handler publishes | `WsClient`, `ZmqPublisher` |
| `KernelProbe` | both probes, map, ring buffer, record layouts, loader process | |
| `DpdkCapture` | the packet parser and the capture loop | |
| `MCDpdkCapture` | the packets TLC tries | `DpdkCapture` |
| `LatencyReportProofs`, `DpdkCaptureProofs`, `KernelProbeProofs` | their proofs | the module each is named after |
| `NormalClient` | the plain client and its signal handler | |
| `ClientProcessProofs` | proofs about both client processes | `ClientProcess`, `NormalClient` |
| `Pipeline` | a message from the card to its report, with other processes' receives | `Correlator` |
| `CorrelatorProofs` | proofs about the correlator, alone and in the pipeline | `Pipeline` |

### SharedQueue

`head`, `tail` and `slots` are the shared memory; `pc`, `ev`, `h` are a
producer's place in `shared_queue_push`, its event and its local `head`; `cpc`,
`ch`, `ct`, `out` the same for `shared_queue_pop`. The steps are `PushLoadHead`
(118), `PushFull` / `PushRoom` (119-123: the load of `tail` and the test),
`PushCopyLo`, `PushCopyHi` (126), `PushPublish` (128) and their counterparts of
pop. A slot has two halves so that a torn copy differs from a whole one. An
event is the number of the push that offers it; the payload does not matter to
the ring. Loads and stores are taken in program order: the code uses acquire
loads and release stores, and only whole steps of different threads are
reordered by interleaving. Subtraction keeps its unsigned width (`Sub64`, with
`Word` for 2^64). `Loaders` are the producers in processes of their own, which
may die at any step (`ProducerCrash`); the message handler dies only together
with the consumer, which then creates the queue anew. The run with one producer lets
it die inside a push, which covers a capture as well as the handler.

### AsyncLogWriter

`write` is the critical section of lines 268-269. The warning at 10000 lines
changes nothing and is left out. The writer thread is `Loop`, `TakeNothing`,
`Take`, `Write`, `Count`; after the loop `DrainLock`, `DrainOne`, `DrainEnd`,
which hold the mutex (`locked`) across I/O. `Stop` and `JoinAndClose` are the
destructor, which the main thread enters once the correlator thread was joined
(`WsClient` shows that it is). The stream is external: `Insert` appends to
`buffer` and may pass any number of the oldest lines on to `file`, `Flush` passes
all, a failure sets `bad`, after which insertions do nothing, while a later
`Flush` or `Close` may try once more or not, as versions of libstdc++ differ. A
failing write is taken to fail as a whole, so a line cut in the middle, which a real
crash or a full disk can leave at the end of the file, is not represented.

### Correlator

`PopNic`, `PopKernel`, `PopUser` are one round of the loop at 812-819 with
`add_event` and, when `++cnt % 200 == 0`, the whole of `correlate_and_log`
(`Pass`): the trim, the matching of every user event, the trims at the end (494-497,
which never fire, because `trim_deques` has cut every window to 4096 already).
`FinalPass` is line 825. Events carry what is matched on. User events have
`tcp_seq = 0` and `sock_ptr = 0` (766-767), so the exact match of a kernel event
is never taken and every user event is matched by time; both branches are
modelled as written. What reaches `tcp_seq` and `sock_ptr` of a kernel event is
arbitrary, see hazard `ebpf_loader.cpp:54`. `cnt` keeps its width (`CntWord`).
`report` is what the latest pass printed, `logged` whether the line also went to
the log file (condition at 478, reduced to the truth of `bn_to_user_ns > 0`).
User events come in the order of their steady-clock timestamps because one
thread stamps and pushes them; NIC and kernel events come in any order.

### SegmentLifecycle

`name` is what `/dev/shm/ws_latency_queue` stands for, `mem` the segments that
exist, `at` and `seg` where each process is and what it has mapped.
`create_shared_queue` is `ShmOpen`, `Truncate` and the four stores, one step each;
a client pops in two steps, leaves, and `Cleanup` unlinks *the name*, whatever it
stands for by then. A capture opens, and pushes in two steps: the test on the
loaded indices, then copy and store of `head`. Every process may die at any step
(`ClientEnds`, `CaptureEnds`) and be started again; a push into an object that has
no size yet is a SIGBUS (`PushFaults`). Nothing is assumed of the order in which
processes start and the name is removed, as the scripts assure none: `stop.sh` signals
and waits for nobody, and `start_houtai.sh` sleeps for 2 s before the captures while the
client may fetch the trading pairs for 10 s first (`ws_client.cpp` 592-598). Captures
outlive a killed client and go on pushing into the segment that the next client resets,
or open it before the reset.
Events are abstracted to the generation of the queue that their push found, which
`StoreHead` begins. `early` records that a push which began before the reset, or
before the mask was stored, has ended since: such a push stores an index of the old
queue, or puts two events into slot 0. `OldOnlyByEarlyPush` says that only this can
make a client pop an old event or unwritten memory.

### KernelProbe

Threads of any process enter and leave `tcp_recvmsg`; the clock ticks with each
call and arrival, so that a stamp names its call. `Enter` is the call with the
entry probe, if it is attached and runs, `Return` with the return probe. Entries of
`recv_ctx_map` are kept per thread, `MaxCtx` is its size. The record layouts are
lists of fields and sizes; `Offsets` places them as the C ABI does, and `Copied` is
the `memcpy` of `handle_event`: a field of `UnifiedEvent` gets what stands at its
offset. The loader walks through `open`, `load`, `kprobe`, `kretprobe`, `ring`, the
poll loop, and detaches the probes in the order of the code.

### DpdkCapture

A packet is what the parser tells apart. The tests of `parse_tcp_packet` are
operators in their order, `Reads` the bytes read on the way. The loop is `LoopTest`,
`Burst`, `Handle` (stamp, parse, push, free; 179-223), `Report`, `Shutdown`; the
card (`Arrive`) takes a buffer for every packet and drops it when none is free. The
start-up calls are one step that may fail.

### LatencyReport

`now` is the steady clock; the system clock is `Boot + now + skew`, and `Adjust`
lets NTP change `skew` at any moment. `g_clock_offset_ns` is measured in two
readings at the start. The stamps of a message are taken in the order of the code;
the receive may have begun before the packet came. `Report` computes the parts as
correlate_and_log does, subtraction of unsigned 64-bit values included (`Word`).
Matching is left to `Correlator`.

### WsClient, ZmqPublisher and ClientProcess

`args` are the arguments; `main` walks through `log`, `symbols`, `queue`, `zmq`,
`connect`, `start_shutdown`, `start_corr`, `run`, `clear`, `join_corr`,
`join_shutdown`, `close_log`, `cleanup`, `exited`, and every start-up step may fail
as in the code. `signal_handler` can strike at any step, `PeerCloses` at any time
the connection exists. `g_running` is a `volatile bool`; the build reloads it in
every round, so it is an ordinary variable here. The event loop is external:
`run()` returns when it was stopped or has no connection left, and a `stop()` before
`run()` is remembered. The REST answer is reduced to a number of trading pairs.

ZeroMQ is external: frames up to one sent without `sndmore` are delivered or
dropped as a whole, and frames sent with it wait in the socket. `BodyFails` is an
exception between the two frames. In `ClientProcess` one `MessageHandler` step is a
publication together with the push, and runs only inside the event loop; the
subscriber goes on after the client.

### NormalClient

One thread (`place`) and a signal handler between any two of its steps. `sigint_handler` is
this program's `signal_handler`; the names differ from those of `WsClient`, so that one
module can prove about both. `stop()`
before `init_asio` has made the io_service is a crash, before the client object
exists it is not called at all. `on_close` posts a handler that calls `run()`
inside `run()`: no new connection is made, and the outer loop never runs out of
work (`nested`).

### Pipeline

`Correlator` (windows, passes, matching) is fed by the card's capture, the client's
receives, the loader, the message handler and, with receives of its own, one other
process or thread: every receive that is not the connection's is foreign, those of the
client's ZeroMQ thread included. The queue is a sequence here: `ring_one_producer` and
`ring_two_producers_loss` say when that is right.

## 3. Runs

| Run | Instance | States | Shows |
|---|---|---|---|
| `ring_one_producer` | 1 producer that may die, capacity 2, 6 pushes | 13654 | bounded FIFO by refinement, nothing lost, torn or reordered, no slot shared, every accepted event popped |
| `ring_three_producers` | client and two capture processes, capacity 2, 4 pushes | 1.3 M | never over capacity, never unwritten memory; a wedged queue stays wedged |
| `ring_two_producers_loss` | 2 producers | violation | an accepted event is overwritten |
| `segment_lifecycle` | 2 clients, 2 captures, 2 segments, 2 starts, 3 pushes | 5.1 M | old events popped only by way of an early push, nothing accepted before the capacity is stored, captures cut off only by an unlink |
| `log_writer` | 5 lines, flush at every 2nd | 2194 | conservation, prefix, completeness, bounded loss in a crash, non-blocking `write`, termination |
| `correlator` | windows of 2, a pass after 2, 5 events, 3 timestamps | 1.5 M | bounded windows, no user event skipped, nearest match, matches only improve |
| `latency_report` | 3 ticks a millisecond, skew of 1, 6 ticks | 0.87 M | total, parts and BN->NIC against the true times |
| `client_process` | all arguments up to two, 3 messages, a restarted subscriber | 0.44 M | always ends, all threads joined, nothing used after release, published pairs never mixed up unless one was cut |
| `kernel_probe` | 2 threads, a map of 1, a ring of 1, 4 ticks | 134204 | own stamp, reported once, leaks only by unseen returns, stamp survives the copy |
| `dpdk_capture` | 11 packets around the parser's limits, pool and burst of 2 | 139023 | reads inside the packet, header found exactly, no buffer lost, stamps in order |
| `normal_client` | 3 signals, 3 messages | 261 | a heard signal ends it, nothing else does once it was connected |
| `pipeline` | 2 messages, 1 foreign receive, 6 ticks | 1.6 M | a report is made of the message's own receive unless a foreign one began in between |

**Bounds.** Six pushes through two slots fill, empty and wrap the ring three
times. Four pushes by three producers are enough for a stale `head` to be
stored, for `head` to fall behind `tail` and for a further push to meet the
wedged queue; nothing in the code depends on the capacity beyond the laps. Two
clients and two captures over two segments cover a restart over a full segment, a
late unlink, and a capture that outlives its client. Five lines with a flush at
every second cover a line in each place at once and a drain of several. In the
correlator the third event of a kind is trimmed, the counter wraps at 5, off the
beat of 2 as 2^32 is off 200, and a user event takes part in up to four passes.
`Batch <= Window` is assumed as in the code (200, 4096). Six ticks give every
stamp of a message a time of its own, and three ticks a millisecond make the
rounding visible. One tick of skew is enough for the wrap of BN->NIC. A map of one
entry is full as soon as one call has left its entry behind. The packets sit at
both sides of every length test, with and without VLAN tag and options, and one is
longer than 2^16. Pipeline keeps `tcp_seq` at 0: user events have no sequence
number, so the exact match is not taken (`Correlator` checks both). All bounds are
constants with a comment.

**Fairness.** `ring_one_producer` assumes that the correlator thread keeps
calling pop, which is its loop (812-823); nothing is assumed of producers.
`log_writer`, `client_process` and `normal_client` assume that started threads
are scheduled; neither a signal, nor the exchange, nor the subscriber is assumed to
do anything. Mutexes are held for finite critical sections only, so weak fairness
is enough. The other runs check safety only. `CHECK_DEADLOCK FALSE` stands where
the bounds or the end of every process stop the model.

**One disagreement, shown by a run.** The queue is drawn as "(MPMC)" and has three
producers, but push is only correct for one: two producers can load the same
`head`, and one of two accepted events is lost (`ring_two_producers_loss`).

**Disagreements met while modelling.** Where a property stands behind one, it is
named.

- A late store can put `head` behind `tail`, and `head - tail` wraps: push then
  returns false although the ring is empty (`shared_events.h` 116 says "if full"),
  and never recovers (`WedgedIsForever`).
- The log file is said to hold complete records only; the code also writes records
  without a NIC event (`ws_client.cpp` 477-478).
- The documentation limits the time fallback to 10 ms (`README.md` 318); the code
  does not. The client's own receive is still the one taken unless a foreign
  receive began in between (`OwnReceiveUnlessForeign`, for kernel records that are in
  the window in time; a late one is taken by a later pass, `MatchNeverWorsens`). The
  report therefore is not always of one packet, as `README.md` 276-278 has it, because
  user events carry `tcp_seq = 0` (`ws_client.cpp` 767).
- A second client started while the first runs resets its live queue
  (`shared_events.h` 89-92), and a push under way across a reset, or between the
  stores of capacity and mask, makes the new queue show old or unwritten slots
  (`OldOnlyByEarlyPush` says when). `start_houtai.sh` checks for neither.
- `stop.sh` reports that all components have stopped (30), but it only sends signals: a
  client that is still closing down unlinks the segment of the client started next
  (`Cleanup` in `SegmentLifecycle`; `OrphanOnlyByUnlink` says that nothing but an unlink
  cuts a capture off).
- The record of the probe and `UnifiedEvent` differ after the fourth time stamp,
  and the `memcpy` reads past the record (`ebpf_loader.cpp` 54). What the correlator
  matches by time survives (`StampSurvivesCopy`).
- The kernel stamp is taken when `tcp_recvmsg` is entered, not when the data
  arrives (`bpf_program.c` 63): Kernel->User then includes the wait, and the NIC
  event that is matched, which is never after the kernel event, is an older packet's.
- DPDK packets are stamped when they are handled, so the stamps of one burst
  include the handling of the packets before (`dpdk_capture.cpp` 184;
  `StampsFollowArrivals` is what remains). The printed rate is the number of packets
  that were not TCP (230). A later fragment of an IP packet is parsed as if it began
  with a TCP header.
- The total is not the sum of the parts: it is computed over the system clock, the
  parts over the steady clock (`ws_client.cpp` 446, 463). `TotalIsTrueLatency` and
  `BnNicIsNetworkTime` state what each is off, the wrap of BN->NIC included.
- An exception between the two frames leaves a topic in the socket, after which a
  subscriber takes topics for bodies (`ws_client.cpp` 64-71; `PairsMatchUnlessCut`).
- The second argument is the ZeroMQ endpoint whatever it is, `-wlogs` included
  (`ws_client.cpp` 604).
- In the plain client a signal before the client object exists only sets a flag,
  and one between lines 81 and 87 uses a client without an io_service; `stop()` also
  takes asio's mutex inside a signal handler.
- A user event is reported, and its line logged, again in every pass while it stays
  in its window. Events in the ring when `g_running` is cleared are never
  correlated.

## 4. Proofs

Every safety invariant and every action property that a run checks is also a
theorem, for every value of the constants. The runs check the same definitions on
small instances, and the inductive invariants were checked there before they were
proved.

**Assumptions.** `Capacity` is a positive natural and the number of pushes plus the
capacity stays below 2^64 (`BoundAssumption`: the indices do not wrap);
`FlushEvery` is positive; a pass is made at least once in a window's length and in
a round of the counter (`Batch <= Window`, `Batch <= CntWord`: 200, 4096, 2^32);
time stamps are positive, because 0 means "no stamp" in the code. The capacity
being a power of two is only needed to read `index & mask` as a remainder.

*Any number of producers* (`SharedQueueProofs`). `IndexInv` is the type
invariant together with `HeldIndices` (whoever holds an index holds one below the
number of pushes; the consumer holds the tail) and `RoomKept` (a push that passed
the test still has room, because `tail` only grows). `NeverOverCapacity` alone is
not inductive: a producer that publishes an old `head` needs `RoomKept`.
`WrittenInv` adds that every slot below any held index has been written, whence
`PoppedWasWritten`. `WedgedIsForever` follows step by step from `IndexInv`.

*One producer* (`SharedQueueProofs`). `FifoInv` ties the histories to the
indices (`Counts`), the slots to the histories (`Contents`) and both local
copies to the slots (`PushUnderWay`, `PopUnderWay`). The arithmetic core is
`SlotInjective`: indices less than a lap apart name different slots. It gives
`NothingLostNothingTorn`, `NoSlotRace` and the refinement `Spec => Fifo!Spec`,
where a publication is `Put`, a refusal is `Refuse`, a commit is `Take` and every
other step stutters. The premise `SingleProducer` is necessary, as `ring_two_producers_loss`
shows; it is a premise of the theorems, not of the module.

*Segment* (`SegmentLifecycleProofs`). `NothingAcceptedBeforeReady` needs only the
types: until the capacity is stored the zero of fresh memory reads as full, also when
the segment is an old one. `Opening` says that a process which opened its segment after
the latest removal has the segment the name stands for, and that two which opened
theirs between the same removals have the same one: `OrphanOnlyByUnlink`, which is not
inductive without the first part. `Contents` says that, as long as no early push has
ended in a queue, every slot below `head`, and below the index of a push of the present
generation, was written in that generation, and that a client pops through the full
mask. `OldOnlyByEarlyPush` is not inductive without it: a pop reads a slot that was
written long before. `Begun` adds that no push is of a later generation than its queue,
so that a reset makes every push under way one of an earlier generation.

*Log writer* (`AsyncLogWriterProofs`). `LogInv` joins the control relation of the
threads, conservation (`EveryLineSomewhere`), the prefix property of file and
stream together (needed because after an error conservation no longer holds) and
`Lag`, which bounds the stream by `write_count % FlushEvery`. `Counted` says that file
and stream together hold the lines that `write_count` counted, and that in the drain,
which counts nothing and flushes only at its end, fewer than `FlushEvery` of those are
not in the file yet; with conservation this is `LossBounded`.

*Client process* (`ClientProcessProofs`). `ProcessInv` says between which places of
`main` each thread exists (`Threads`) and each resource is alive (`Resources`);
`AllJoinedAtExit` and `NoUseAfterRelease` follow. `ImplementsWsClient` shows that the
composed process is still one of `WsClient`, so the results carry over. For the
subscriber, `ZmqInv` says that as long as no topic came without its body, the frame
it holds followed by the frames on their way is a sequence of whole pairs;
`PairsMatchUnlessCut` is not inductive without it.

The same module has the plain client: `PlainInv` says that only a signal stops
the event loop and that a closed connection has left the nested `run()` behind, so
that the loop never runs out of work: `ConnectedEndsOnlyBySignal`.

*Correlator* (`CorrelatorProofs`). `WindowInv` numbers the events of a window in the
order they came and bounds the windows by what came since the last pass (`cnt %
Batch`, which goes on by one or falls to 0, also where the counter wraps).
`ReportInv` is what a pass leaves behind: each report has the nearest kernel event of
the window that is not after the user event. `Tried` says that the user events
no pass has tried are the last of their window, at most as many as came since the last
pass; trimming keeps at least a batch, whence `NoUserEventSkipped`. `History` adds,
as long as kernel events come in order, that the window still has the kernel event of
every report or only later ones (`Reaches`), and therefore `MatchNeverWorsens`.

*From the card to the report* (`CorrelatorProofs`, for `Pipeline`). `PInv` says where
the messages are (`Messages`), that no stamp is ahead of the clock and no two receives
share one (`Clock`), and that the client's receives and the handling of their messages
take turns (`Turns`): the entry stamp of any receive that is not foreign lies at or
before the one of a handled message, or after its handling. With the nearest match of
`ReportInv` this is `OwnReceiveUnlessForeign`. Most steps only move stamps between
`rb`, the queue, the windows and the reports; they are covered at once, because the
sets `Received` and `Handled` do not grow.

*Latency report* (`LatencyReportProofs`). `ReportInv` orders the stamps of a message
(`StampOrder`), bounds the rounding of E (`SendStamp`) and the measured offset
(`OffsetMeasured`: it cannot wrap). The rest is arithmetic with `ModSmall` and
`ModNegative`. The assumptions are that the skew is less than the time of the boot
since the epoch and that all times fit in 64 bits.

*Capture* (`DpdkCaptureProofs`). The parser's results hold for any packet
(`ParserReadsInside`, `ParserExact`); `CaptureInv` carries them to the burst, keeps
the sum of free and used buffers, and orders arrivals from the events over the burst
to the card, which `StampsFollowArrivals` alone does not say.

*Probes* (`KernelProbeProofs`). `ProbeInv` adds to the three properties that no
stamp is in the future, that a stamp in the map belongs to one thread and was not
reported (`Fresh`), and that an entry probe that ran left its own stamp or, with the
map full, none (`Current`).

*The copy* (`KernelProbeProofs`). The offsets of the two layouts are computed from
their lists of fields (`Ends`, `BpfPlaces`, `UnifiedPlaces`): the type and the
kernel's stamp lie at the same offsets and nothing else does, so `Copied` keeps them
(`CopyKeeps`); `CopyInv` carries this to what the loader pushed.

*Recursion.* What a loop computes is written as a recursive function, and a proof about
it first needs that such a function exists. `Iteration` shows it for any step over an
index, by `SetInduction`, which takes the set of numbers with a property in place of the
property and rests on the least element of a set of naturals (`WFMin`). `ScanFindsNearest`
and `ReportsMade` then say what the scan of `correlate_and_log` and its outer loop
compute, for windows of any length. The layouts have a fixed length: there a function is
given field by field.

Only model-checked: liveness (`AcceptedIsPopped`, `CloseTerminates`,
`SignalEndsProcess`, `LostConnectionEndsProcess`, `HeardSignalEnds`). It rests on
fairness, that is on `ENABLED`, which the prover does not reach.

## 5. Limits

**Not modelled.** `write_socket_fd_to_ebpf` and `read_socket_fd_from_ebpf`: the
descriptor is only printed. JSON and REST parsing, and the text of reports, are
library code or formatting. `socket_map` and `trace_socket_update` of the probe:
nothing reads or attaches them. The Kafka producer the plain client names is not in
the repository. `analyze_latency.py` keeps no state; build files have no behaviour.
A write to the log that fails half-way is taken to fail as a whole.
