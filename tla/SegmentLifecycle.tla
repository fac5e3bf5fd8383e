--------------------------- MODULE SegmentLifecycle ---------------------------
(***************************************************************************)
(* The life of the shared-memory segment behind the event queue: clients   *)
(* create it, reset it and unlink its name, capture processes open it by   *)
(* name and push to whatever they opened, and any of them may die at any   *)
(* step and be started again, in any order.  SharedQueue has the inside of *)
(* push and pop; here a push is two steps, the test on the loaded indices  *)
(* and the copy with the store of head, and a pop is two steps as well,    *)
(* the copy and the store of tail, because what matters is what another    *)
(* process does to the segment in between.  An event is abstracted to the  *)
(* generation of the queue that its push found: how often create had reset *)
(* the segment's head by then.                                             *)
(***************************************************************************)
EXTENDS Integers, FiniteSets

CONSTANTS Clients,     \* ws_client_delay processes
          Captures,    \* ebpf_loader and dpdk_capture processes
          Capacity,    \* 1 << 20 in the program
          Word,        \* 2^64
          MaxSegments, \* bounds of the model: segments made,
          MaxCreates,  \*   times a client is started,
          MaxPushes    \*   pushes begun

ASSUME ProcessAssumption == Clients \cap Captures = {}
ASSUME CapacityAssumption == Capacity \in Nat \ {0} /\ Word \in Nat /\ Capacity < Word
ASSUME BoundAssumption == {MaxSegments, MaxCreates, MaxPushes} \subseteq Nat

VARIABLES
  name,     \* the segment that SHARED_QUEUE_NAME stands for, 0 if none
  mem,      \* the segments: their size, the fields of SharedQueue, and history
  at,       \* where each process is
  seg,      \* the segment each process has mapped
  held,     \* the index a push or a pop has loaded, and the generation then
  popped,   \* history: the generation of the event popped last and of its queue,
            \*   and whether an early push had ended in that queue
  unlinks,  \* history: how often the name was removed,
  opened,   \*   and how often it had been when a process opened its segment
  creates, pushes  \* the bounds

vars == <<name, mem, at, seg, held, popped, unlinks, opened, creates, pushes>>
bounds == <<creates, pushes>>

Processes == Clients \cup Captures
Segments == 1..MaxSegments

\* ftruncate gives zeroed memory; an object of size 0 has no memory at all.
\* History: gen counts the resets of head; early says that a push which began
\* before the latest one, or before create had stored the mask, ended after it.
Untouched == [made |-> FALSE, sized |-> FALSE, head |-> 0, tail |-> 0, capacity |-> 0,
              mask |-> 0, slots |-> [i \in 0..Capacity - 1 |-> 0],
              gen |-> 0, early |-> FALSE]

Init ==
  /\ name = 0
  /\ mem = [s \in Segments |-> Untouched]
  /\ at = [p \in Processes |-> "off"]
  /\ seg = [p \in Processes |-> 0]
  /\ held = [p \in Processes |-> [index |-> 0, gen |-> 0]]
  /\ popped = [gen |-> 0, of |-> 0, early |-> FALSE]
  /\ unlinks = 0
  /\ opened = [p \in Processes |-> 0]
  /\ creates = 0
  /\ pushes = 0

\* Process p goes to a place, and writes its segment as m.
Goes(p, place) == at' = [at EXCEPT ![p] = place]
Writes(p, m) == mem' = [mem EXCEPT ![seg[p]] = m]

-----------------------------------------------------------------------------
(* A client: create_shared_queue, pops, cleanup_shared_queue *)

NewSegment == CHOOSE s \in Segments : ~mem[s].made

\* Mutant: an existing object is replaced.
NewTarget == NewSegment

\* shm_open(name, O_CREAT | O_RDWR)
OpenTarget == IF name # 0 THEN name ELSE NewSegment

ShmOpen(c) ==
  /\ at[c] = "off"
  /\ creates < MaxCreates /\ \E s \in Segments : ~mem[s].made
  /\ name' = OpenTarget
  /\ seg' = [seg EXCEPT ![c] = OpenTarget]
  /\ mem' = [mem EXCEPT ![OpenTarget].made = TRUE]
  /\ opened' = [opened EXCEPT ![c] = unlinks]
  /\ creates' = creates + 1
  /\ Goes(c, "size")
  /\ UNCHANGED <<held, popped, unlinks, pushes>>

Truncate(c) ==
  /\ at[c] = "size"
  /\ Writes(c, [mem[seg[c]] EXCEPT !.sized = TRUE])
  /\ Goes(c, "head")
  /\ UNCHANGED <<name, seg, held, popped, unlinks, opened, bounds>>

\* Mutant: an existing queue keeps its head.
HeadAtCreate(m) == m.head

\* The four stores after mmap
HeadAfterCreate(m) == 0

StoreHead(c) ==
  /\ at[c] = "head"
  /\ Writes(c, [mem[seg[c]] EXCEPT !.head = HeadAfterCreate(mem[seg[c]]),
                                   !.gen = @ + 1, !.early = FALSE])
  /\ Goes(c, "tail")
  /\ UNCHANGED <<name, seg, held, popped, unlinks, opened, bounds>>

StoreTail(c) ==
  /\ at[c] = "tail"
  /\ Writes(c, [mem[seg[c]] EXCEPT !.tail = 0])
  /\ Goes(c, "capacity")
  /\ UNCHANGED <<name, seg, held, popped, unlinks, opened, bounds>>

StoreCapacity(c) ==
  /\ at[c] = "capacity"
  /\ Writes(c, [mem[seg[c]] EXCEPT !.capacity = Capacity])
  /\ Goes(c, "mask")
  /\ UNCHANGED <<name, seg, held, popped, unlinks, opened, bounds>>

StoreMask(c) ==
  /\ at[c] = "mask"
  /\ Writes(c, [mem[seg[c]] EXCEPT !.mask = Capacity - 1])
  /\ Goes(c, "up")
  /\ UNCHANGED <<name, seg, held, popped, unlinks, opened, bounds>>

\* index & mask; the mask is still 0, or one less than a power of two.
SlotOf(m, i) == i % (m.mask + 1)

PopLoad(c) ==
  LET m == mem[seg[c]] IN
  /\ at[c] = "up"
  /\ m.tail < m.head
  /\ held' = [held EXCEPT ![c] = [index |-> m.tail, gen |-> m.gen]]
  /\ popped' = [gen |-> m.slots[SlotOf(m, m.tail)], of |-> m.gen, early |-> m.early]
  /\ Goes(c, "pop")
  /\ UNCHANGED <<name, mem, seg, unlinks, opened, bounds>>

PopStore(c) ==
  /\ at[c] = "pop"
  /\ Writes(c, [mem[seg[c]] EXCEPT !.tail = held[c].index + 1])
  /\ Goes(c, "up")
  /\ UNCHANGED <<name, seg, held, popped, unlinks, opened, bounds>>

\* A signal or a lost connection: the threads are joined, the log is written.
Leave(c) ==
  /\ at[c] = "up"
  /\ Goes(c, "leaving")
  /\ UNCHANGED <<name, mem, seg, held, popped, unlinks, opened, bounds>>

\* cleanup_shared_queue: munmap, then shm_unlink of whatever has the name
Cleanup(c) ==
  /\ at[c] = "leaving"
  /\ name' = 0
  /\ unlinks' = unlinks + 1
  /\ seg' = [seg EXCEPT ![c] = 0]
  /\ Goes(c, "off")
  /\ UNCHANGED <<mem, held, popped, opened, bounds>>

\* A client ends without the cleanup: a system call of create fails, a later
\* step of main returns 1, or it is killed.
ClientEnds(c) ==
  /\ at[c] # "off"
  /\ seg' = [seg EXCEPT ![c] = 0]
  /\ Goes(c, "off")
  /\ UNCHANGED <<name, mem, held, popped, unlinks, opened, bounds>>

Client(c) ==
  \/ ShmOpen(c) \/ Truncate(c) \/ StoreHead(c) \/ StoreTail(c) \/ StoreCapacity(c)
  \/ StoreMask(c) \/ PopLoad(c) \/ PopStore(c) \/ Leave(c) \/ Cleanup(c)
  \/ ClientEnds(c)

-----------------------------------------------------------------------------
(* A capture process: open_shared_queue, pushes *)

\* A capture that finds no such name gives up at once.
Open(p) ==
  /\ at[p] = "off"
  /\ name # 0
  /\ seg' = [seg EXCEPT ![p] = name]
  /\ opened' = [opened EXCEPT ![p] = unlinks]
  /\ Goes(p, "idle")
  /\ UNCHANGED <<name, mem, held, popped, unlinks, bounds>>

\* Mutant: > for >=.
NoRoomLeft(m) == (m.head - m.tail) % Word > m.capacity

Full(m) == (m.head - m.tail) % Word >= m.capacity

\* The capture touches memory beyond the end of the object: SIGBUS.
PushFaults(p) ==
  /\ at[p] = "idle"
  /\ ~mem[seg[p]].sized
  /\ seg' = [seg EXCEPT ![p] = 0]
  /\ Goes(p, "off")
  /\ UNCHANGED <<name, mem, held, popped, unlinks, opened, bounds>>

\* The loads and the test; a full queue drops the event.
PushBegin(p) ==
  LET m == mem[seg[p]] IN
  /\ at[p] = "idle"
  /\ m.sized
  /\ pushes < MaxPushes
  /\ pushes' = pushes + 1
  /\ IF Full(m) THEN UNCHANGED <<at, held>>
     ELSE /\ held' = [held EXCEPT ![p] = [index |-> m.head, gen |-> m.gen]]
          /\ Goes(p, "push")
  /\ UNCHANGED <<name, mem, seg, popped, unlinks, opened, creates>>

PushEnd(p) ==
  LET m == mem[seg[p]] IN
  /\ at[p] = "push"
  /\ Writes(p, [m EXCEPT !.slots[SlotOf(m, held[p].index)] = held[p].gen,
                         !.head = held[p].index + 1,
                         !.early = @ \/ held[p].gen # m.gen \/ m.mask # Capacity - 1])
  /\ Goes(p, "idle")
  /\ UNCHANGED <<name, seg, held, popped, unlinks, opened, bounds>>

\* The capture is stopped or dies; it does not unmap or unlink anything.
CaptureEnds(p) ==
  /\ at[p] # "off"
  /\ seg' = [seg EXCEPT ![p] = 0]
  /\ Goes(p, "off")
  /\ UNCHANGED <<name, mem, held, popped, unlinks, opened, bounds>>

Capture(p) ==
  Open(p) \/ PushFaults(p) \/ PushBegin(p) \/ PushEnd(p) \/ CaptureEnds(p)

\* The last command of stop.sh: rm -f /dev/shm/ws_*
RemoveName ==
  /\ name # 0
  /\ name' = 0
  /\ unlinks' = unlinks + 1
  /\ UNCHANGED <<mem, at, seg, held, popped, opened, bounds>>

Next ==
  \/ RemoveName
  \/ \E c \in Clients : Client(c)
  \/ \E p \in Captures : Capture(p)

Spec == Init /\ [][Next]_vars

-----------------------------------------------------------------------------
(* Properties *)

\* A client pops an event of an earlier run, or memory that no push wrote, only
\* if a push that began before create reset the head, or before it stored the
\* mask, has ended since: not when a run that died left the segment full, or
\* when captures that outlive their client go on pushing.
OldOnlyByEarlyPush == popped.gen # popped.of => popped.early

\* No push is accepted before create has stored the capacity:
\* the zero of fresh memory reads as a full queue.
NothingAcceptedBeforeReady ==
  \A p \in Captures : at[p] = "push" => mem[seg[p]].capacity = Capacity

\* Only a removal of the name between their starts separates a
\* capture from a client: one that outlives a killed client is heard by the next.
OrphanOnlyByUnlink ==
  \A p \in Captures, c \in Clients :
    at[p] # "off" /\ at[c] # "off" /\ opened[p] = opened[c] => seg[p] = seg[c]
=============================================================================
