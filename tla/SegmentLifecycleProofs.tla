------------------------ MODULE SegmentLifecycleProofs ------------------------
(***************************************************************************)
(* Proofs about the shared-memory segment, for any number of clients,      *)
(* captures, segments, restarts and pushes, and for every capacity.        *)
(***************************************************************************)
EXTENDS SegmentLifecycle, TLAPS

USE ProcessAssumption, CapacityAssumption, BoundAssumption

-----------------------------------------------------------------------------
(* Types *)

Segment == [made : BOOLEAN, sized : BOOLEAN, head : Nat, tail : Nat,
            capacity : {0, Capacity}, mask : {0, Capacity - 1},
            slots : [0..Capacity - 1 -> Nat], gen : Nat, early : BOOLEAN]

ClientPlaces == {"off", "size", "head", "tail", "capacity", "mask", "up", "pop", "leaving"}
CapturePlaces == {"off", "idle", "push"}

TypeInv ==
  /\ name \in {0} \cup Segments
  /\ mem \in [Segments -> Segment]
  /\ at \in [Processes -> ClientPlaces \cup CapturePlaces]
  /\ \A c \in Clients : at[c] \in ClientPlaces
  /\ \A p \in Captures : at[p] \in CapturePlaces
  /\ seg \in [Processes -> {0} \cup Segments]
  /\ \A x \in Processes : at[x] # "off" => seg[x] \in Segments
  /\ held \in [Processes -> [index : Nat, gen : Nat]]
  /\ popped \in [gen : Nat, of : Nat, early : BOOLEAN]
  /\ unlinks \in Nat
  /\ opened \in [Processes -> Nat]

\* shm_open yields a segment: the one the name stands for, or a new one.
LEMMA TargetIsSegment ==
  ASSUME TypeInv, \E s \in Segments : ~mem[s].made
  PROVE  OpenTarget \in Segments
BY DEF TypeInv, OpenTarget, NewSegment

\* An index names a slot of the ring.
LEMMA SlotInRange ==
  ASSUME NEW i \in Nat
  PROVE  i % Capacity \in 0..Capacity - 1
OBVIOUS

LEMMA SlotOfSegment ==
  ASSUME NEW m \in Segment, NEW i \in Nat
  PROVE  /\ SlotOf(m, i) \in 0..Capacity - 1
         /\ m.mask = Capacity - 1 => SlotOf(m, i) = i % Capacity
<1>1. CASE m.mask = Capacity - 1
  <2>1. m.mask + 1 = Capacity
    BY <1>1
  <2> QED BY <1>1, <2>1, SlotInRange DEF SlotOf
<1>2. CASE m.mask = 0 /\ Capacity - 1 # 0
  BY <1>2 DEF SlotOf
<1> QED BY <1>1, <1>2 DEF Segment

\* One store changes a field of a segment: the value is still a segment.
LEMMA FieldsOfSegment ==
  ASSUME NEW m \in Segment, NEW i \in Nat
  PROVE  /\ [m EXCEPT !.made = TRUE] \in Segment
         /\ [m EXCEPT !.sized = TRUE] \in Segment
         /\ [m EXCEPT !.capacity = Capacity] \in Segment
         /\ [m EXCEPT !.mask = Capacity - 1] \in Segment
         /\ [m EXCEPT !.head = 0, !.gen = @ + 1, !.early = FALSE] \in Segment
         /\ [m EXCEPT !.tail = i] \in Segment
<1>1. [m EXCEPT !.made = TRUE] \in Segment
  BY DEF Segment
<1>2. [m EXCEPT !.sized = TRUE] \in Segment
  BY DEF Segment
<1>3. [m EXCEPT !.capacity = Capacity] \in Segment
  BY DEF Segment
<1>4. [m EXCEPT !.head = 0, !.gen = @ + 1, !.early = FALSE] \in Segment
  <2>1. m.gen + 1 \in Nat
    BY DEF Segment
  <2> QED BY <2>1, Zenon DEF Segment
<1>5. [m EXCEPT !.mask = Capacity - 1] \in Segment /\ [m EXCEPT !.tail = i] \in Segment
  BY DEF Segment
<1> QED BY <1>1, <1>2, <1>3, <1>4, <1>5

LEMMA SlotStored ==
  ASSUME NEW m \in Segment, NEW i \in Nat, NEW g \in Nat, NEW k \in 0..Capacity - 1,
         NEW e \in BOOLEAN
  PROVE  [m EXCEPT !.slots[k] = g, !.head = i, !.early = e] \in Segment
<1>1. [m.slots EXCEPT ![k] = g] \in [0..Capacity - 1 -> Nat]
  BY DEF Segment
<1> QED BY <1>1 DEF Segment

LEMMA TypeInvInit == Init => TypeInv
<1>1. Untouched \in Segment
  BY DEF Untouched, Segment
<1> QED
  BY <1>1 DEF Init, TypeInv, ClientPlaces, CapturePlaces, Processes

LEMMA TypeInvStep == TypeInv /\ [Next]_vars => TypeInv'
<1> SUFFICES ASSUME TypeInv, [Next]_vars PROVE TypeInv'
  OBVIOUS
<1> USE DEF TypeInv, Processes, ClientPlaces, CapturePlaces, bounds, Goes, Writes
<1>1. ASSUME NEW c \in Clients, ShmOpen(c) PROVE TypeInv'
  <2>1. OpenTarget \in Segments
    BY <1>1, TargetIsSegment DEF ShmOpen
  <2>2. [mem[OpenTarget] EXCEPT !.made = TRUE] \in Segment
    BY <2>1, FieldsOfSegment
  <2>3. mem' \in [Segments -> Segment]
    BY <1>1, <2>1, <2>2 DEF ShmOpen
  <2> QED BY <1>1, <2>1, <2>3 DEF ShmOpen
<1>2. ASSUME NEW c \in Clients,
             Truncate(c) \/ StoreHead(c) \/ StoreTail(c) \/ StoreCapacity(c) \/ StoreMask(c)
      PROVE  TypeInv'
  <2>1. mem[seg[c]] \in Segment
    BY <1>2 DEF Truncate, StoreHead, StoreTail, StoreCapacity, StoreMask
  <2>2. mem' \in [Segments -> Segment]
    <3>1. CASE Truncate(c)
      BY <3>1, <2>1, FieldsOfSegment DEF Truncate
    <3>2. CASE StoreHead(c)
      BY <3>2, <2>1, FieldsOfSegment DEF StoreHead, HeadAfterCreate
    <3>3. CASE StoreTail(c)
      BY <3>3, <2>1, FieldsOfSegment DEF StoreTail
    <3>4. CASE StoreCapacity(c)
      BY <3>4, <2>1, FieldsOfSegment DEF StoreCapacity
    <3>5. CASE StoreMask(c)
      BY <3>5, <2>1, FieldsOfSegment DEF StoreMask
    <3> QED BY <1>2, <3>1, <3>2, <3>3, <3>4, <3>5
  <2> QED BY <1>2, <2>2 DEF Truncate, StoreHead, StoreTail, StoreCapacity, StoreMask
<1>3. ASSUME NEW c \in Clients, PopLoad(c) PROVE TypeInv'
  <2>1. mem[seg[c]] \in Segment /\ mem[seg[c]].tail \in Nat /\ mem[seg[c]].gen \in Nat
    BY <1>3 DEF PopLoad, Segment
  <2>2. mem[seg[c]].slots[SlotOf(mem[seg[c]], mem[seg[c]].tail)] \in Nat
    BY <2>1, SlotOfSegment DEF Segment
  <2>3. held' \in [Processes -> [index : Nat, gen : Nat]]
    BY <1>3, <2>1, <2>2 DEF PopLoad
  <2>4. popped' \in [gen : Nat, of : Nat, early : BOOLEAN]
    BY <1>3, <2>1, <2>2 DEF PopLoad, Segment
  <2> QED BY <1>3, <2>3, <2>4 DEF PopLoad
<1>4. ASSUME NEW c \in Clients, PopStore(c) PROVE TypeInv'
  <2>1. mem[seg[c]] \in Segment /\ held[c].index + 1 \in Nat
    BY <1>4 DEF PopStore
  <2>2. mem' \in [Segments -> Segment]
    BY <1>4, <2>1, FieldsOfSegment DEF PopStore
  <2> QED BY <1>4, <2>1, <2>2 DEF PopStore
<1>5. ASSUME NEW c \in Clients, Leave(c) \/ Cleanup(c) \/ ClientEnds(c) PROVE TypeInv'
  BY <1>5 DEF Leave, Cleanup, ClientEnds
<1>6. ASSUME NEW p \in Captures, Open(p) \/ PushFaults(p) \/ CaptureEnds(p) PROVE TypeInv'
  BY <1>6 DEF Open, PushFaults, CaptureEnds
<1>7. ASSUME NEW p \in Captures, PushBegin(p) PROVE TypeInv'
  <2>1. mem[seg[p]].head \in Nat /\ mem[seg[p]].gen \in Nat
    BY <1>7 DEF PushBegin, Segment
  <2> QED BY <1>7, <2>1 DEF PushBegin
<1>8. ASSUME NEW p \in Captures, PushEnd(p) PROVE TypeInv'
  <2>1. mem[seg[p]] \in Segment /\ held[p].index \in Nat /\ held[p].gen \in Nat
    BY <1>8 DEF PushEnd
  <2>2. SlotOf(mem[seg[p]], held[p].index) \in 0..Capacity - 1
    BY <2>1, SlotOfSegment
  <2>3. mem' \in [Segments -> Segment]
    <3> DEFINE m == mem[seg[p]]
               e == m.early \/ held[p].gen # m.gen \/ m.mask # Capacity - 1
    <3>1. held[p].index + 1 \in Nat /\ e \in BOOLEAN
      BY <2>1 DEF Segment
    <3>2. mem' = [mem EXCEPT ![seg[p]] = [m EXCEPT
                    !.slots[SlotOf(m, held[p].index)] = held[p].gen,
                    !.head = held[p].index + 1, !.early = e]]
      BY <1>8, <2>1 DEF PushEnd, Segment
    <3> HIDE DEF m, e
    <3>3. [m EXCEPT !.slots[SlotOf(m, held[p].index)] = held[p].gen,
                    !.head = held[p].index + 1, !.early = e] \in Segment
      BY <2>1, <2>2, <3>1, SlotStored DEF m
    <3> QED BY <3>2, <3>3
  <2> QED BY <1>8, <2>3 DEF PushEnd
<1>9. CASE RemoveName
  BY <1>9 DEF RemoveName
<1>10. CASE UNCHANGED vars
  BY <1>10 DEF vars
<1> QED
  BY <1>1, <1>2, <1>3, <1>4, <1>5, <1>6, <1>7, <1>8, <1>9, <1>10
     DEF Next, Client, Capture

LEMMA TypeInvariant == Spec => []TypeInv
BY TypeInvInit, TypeInvStep, PTL DEF Spec

-----------------------------------------------------------------------------
(* Readiness, and who shares a segment with whom *)

\* A process that opened its segment after the latest removal of the name has
\* the segment the name stands for; two that opened theirs between the same
\* removals have the same one.
Opening ==
  /\ \A x \in Processes : opened[x] <= unlinks
  /\ \A x \in Processes : at[x] # "off" /\ opened[x] = unlinks => seg[x] = name
  /\ \A x, y \in Processes :
       at[x] # "off" /\ at[y] # "off" /\ opened[x] = opened[y] => seg[x] = seg[y]

\* The zero of fresh memory reads as a full queue.
LEMMA NotFullIsReady ==
  ASSUME NEW m \in Segment, ~Full(m)
  PROVE  m.capacity = Capacity
<1>1. m.head - m.tail \in Int /\ Word \in Nat \ {0}
  BY DEF Segment
<1>2. (m.head - m.tail) % Word >= 0
  BY <1>1
<1> QED BY <1>2 DEF Full, Segment

LEMMA AcceptedStep ==
  TypeInv /\ NothingAcceptedBeforeReady /\ [Next]_vars => NothingAcceptedBeforeReady'
<1> SUFFICES ASSUME TypeInv, NothingAcceptedBeforeReady, [Next]_vars,
                    NEW p \in Captures, at'[p] = "push"
             PROVE  mem'[seg'[p]].capacity = Capacity
  BY DEF NothingAcceptedBeforeReady
<1> USE DEF TypeInv, Processes, bounds, Goes, Writes
\* No step takes the capacity of a segment away.
<1>1. ASSUME NEW s \in Segments, mem[s].capacity = Capacity
      PROVE  mem'[s].capacity = Capacity
  <2>1. ASSUME NEW c \in Clients, ShmOpen(c) PROVE mem'[s].capacity = Capacity
    <3>1. OpenTarget \in Segments
      BY <2>1, TargetIsSegment DEF ShmOpen
    <3> QED BY <1>1, <2>1, <3>1 DEF ShmOpen, Segment
  <2>2. ASSUME NEW c \in Clients, Client(c), ~ShmOpen(c) PROVE mem'[s].capacity = Capacity
    <3>1. CASE Truncate(c)
      BY <1>1, <3>1 DEF Truncate, Segment
    <3>2. CASE StoreHead(c)
      BY <1>1, <3>2 DEF StoreHead, Segment
    <3>3. CASE StoreTail(c)
      BY <1>1, <3>3 DEF StoreTail, Segment
    <3>4. CASE StoreCapacity(c)
      BY <1>1, <3>4 DEF StoreCapacity, Segment
    <3>5. CASE StoreMask(c)
      BY <1>1, <3>5 DEF StoreMask, Segment
    <3>6. CASE PopStore(c)
      BY <1>1, <3>6 DEF PopStore, Segment
    <3>7. CASE PopLoad(c) \/ Leave(c) \/ Cleanup(c) \/ ClientEnds(c)
      BY <1>1, <3>7 DEF PopLoad, Leave, Cleanup, ClientEnds
    <3> QED BY <2>2, <3>1, <3>2, <3>3, <3>4, <3>5, <3>6, <3>7 DEF Client
  <2>3. ASSUME NEW q \in Captures, Capture(q) PROVE mem'[s].capacity = Capacity
    <3>1. CASE PushEnd(q)
      BY <1>1, <3>1 DEF PushEnd, Segment
    <3> QED BY <1>1, <2>3, <3>1 DEF Capture, Open, PushFaults, PushBegin, CaptureEnds
  <2> QED BY <1>1, <2>1, <2>2, <2>3 DEF Next, RemoveName, vars
<1>2. CASE at[p] = "push" /\ seg'[p] = seg[p]
  BY <1>1, <1>2 DEF NothingAcceptedBeforeReady
<1>3. CASE PushBegin(p)
  <2>1. mem[seg[p]] \in Segment /\ (at[p] = "idle" => ~Full(mem[seg[p]]))
    BY <1>3 DEF PushBegin
  <2>2. mem[seg[p]].capacity = Capacity
    BY <1>3, <2>1, NotFullIsReady DEF PushBegin
  <2> QED BY <1>3, <2>2 DEF PushBegin
<1>4. ASSUME NEW c \in Clients, Client(c) PROVE at[p] = "push" /\ seg'[p] = seg[p]
  BY <1>4 DEF Client, ShmOpen, Truncate, StoreHead, StoreTail, StoreCapacity, StoreMask,
              PopLoad, PopStore, Leave, Cleanup, ClientEnds
<1>5. ASSUME NEW q \in Captures, Capture(q), ~PushBegin(p)
      PROVE  at[p] = "push" /\ seg'[p] = seg[p]
  BY <1>5 DEF Capture, Open, PushFaults, PushBegin, PushEnd, CaptureEnds
<1>6. CASE RemoveName \/ UNCHANGED vars
  BY <1>2, <1>6 DEF RemoveName, vars
<1> QED BY <1>2, <1>3, <1>4, <1>5, <1>6 DEF Next

LEMMA OpeningStep == TypeInv /\ Opening /\ [Next]_vars => Opening'
<1> SUFFICES ASSUME TypeInv, Opening, [Next]_vars PROVE Opening'
  OBVIOUS
<1> USE DEF TypeInv, Opening, Processes, bounds, Goes, Writes
<1>1. ASSUME NEW c \in Clients, ShmOpen(c) PROVE Opening'
  <2>1. OpenTarget \in Segments
    BY <1>1, TargetIsSegment DEF ShmOpen
  <2>2. ASSUME NEW x \in Processes, at[x] # "off", opened[x] = unlinks
        PROVE  OpenTarget = seg[x]
    BY <2>2 DEF OpenTarget, Segments
  <2> QED BY <1>1, <2>1, <2>2 DEF ShmOpen
<1>2. ASSUME NEW c \in Clients, Client(c), ~ShmOpen(c) PROVE Opening'
  BY <1>2 DEF Client, Truncate, StoreHead, StoreTail, StoreCapacity, StoreMask,
              PopLoad, PopStore, Leave, Cleanup, ClientEnds
<1>3. ASSUME NEW p \in Captures, Capture(p) PROVE Opening'
  BY <1>3 DEF Capture, Open, PushFaults, PushBegin, PushEnd, CaptureEnds
<1>4. CASE RemoveName \/ UNCHANGED vars
  BY <1>4 DEF RemoveName, vars
<1> QED BY <1>1, <1>2, <1>3, <1>4 DEF Next

\* No push is accepted before create_shared_queue has stored the capacity, in
\* whatever order processes start, die and start again.
THEOREM NothingBeforeReady == Spec => []NothingAcceptedBeforeReady
<1>1. Init => NothingAcceptedBeforeReady
  BY DEF Init, NothingAcceptedBeforeReady, Processes
<1> QED BY <1>1, AcceptedStep, TypeInvariant, PTL DEF Spec

\* A capture and a client that run on different segments were separated by a
\* removal of the name: a killed client alone never orphans a capture.
THEOREM OrphansOnlyByUnlink == Spec => []OrphanOnlyByUnlink
<1>1. Init => Opening
  BY DEF Init, Opening, Processes
<1>2. Opening => OrphanOnlyByUnlink
  BY DEF Opening, OrphanOnlyByUnlink, Processes
<1> QED BY <1>1, <1>2, OpeningStep, TypeInvariant, PTL DEF Spec


-----------------------------------------------------------------------------
(* What a client finds in the queue *)

\* Every slot below index i was written in the present generation of queue m.
WrittenBelow(m, i) == \A j \in 0..i - 1 : m.slots[j % Capacity] = m.gen

\* A push under way may have begun before the latest reset, never after it.
Begun == \A p \in Captures : at[p] = "push" => held[p].gen <= mem[seg[p]].gen

\* As long as no early push has ended in a queue, the slots below its head and
\* below a push of its generation are written, and a client that pops reads
\* through the full mask.
Contents ==
  /\ \A s \in Segments : ~mem[s].early => WrittenBelow(mem[s], mem[s].head)
  /\ \A p \in Captures :
       at[p] = "push" /\ ~mem[seg[p]].early /\ held[p].gen = mem[seg[p]].gen
         => WrittenBelow(mem[seg[p]], held[p].index)
  /\ \A c \in Clients : at[c] \in {"up", "pop"} => mem[seg[c]].mask = Capacity - 1
  /\ OldOnlyByEarlyPush

\* The store of a push keeps what was written and adds the slot at its index.
LEMMA PushWrites ==
  ASSUME NEW m \in Segment, NEW h \in Nat, NEW i \in Nat, WrittenBelow(m, i),
         m.mask = Capacity - 1,
         NEW n, n = [m EXCEPT !.slots[SlotOf(m, h)] = m.gen, !.head = h + 1,
                    !.early = m.early]
  PROVE  /\ WrittenBelow(n, i)
         /\ i = h => WrittenBelow(n, h + 1)
<1> DEFINE k == h % Capacity
<1>1. SlotOf(m, h) = k /\ k \in 0..Capacity - 1
  BY SlotOfSegment, SlotInRange
<1>2. n.slots = [m.slots EXCEPT ![k] = m.gen] /\ n.gen = m.gen
  BY <1>1 DEF Segment
<1> HIDE DEF k
<1>3. m.slots \in [0..Capacity - 1 -> Nat]
  BY DEF Segment
<1>4. ASSUME NEW j \in Nat, m.slots[j % Capacity] = m.gen \/ j % Capacity = k
      PROVE  n.slots[j % Capacity] = n.gen
  <2>1. j % Capacity \in 0..Capacity - 1
    BY SlotInRange
  <2> QED BY <1>1, <1>2, <1>3, <1>4, <2>1
<1>5. WrittenBelow(n, i)
  BY <1>4 DEF WrittenBelow
<1>6. ASSUME i = h PROVE WrittenBelow(n, h + 1)
  <2> SUFFICES ASSUME NEW j \in 0..(h + 1) - 1 PROVE n.slots[j % Capacity] = n.gen
    BY DEF WrittenBelow
  <2>1. CASE j = h
    BY <1>4, <2>1 DEF k
  <2>2. CASE j # h
    BY <1>4, <1>6, <2>2 DEF WrittenBelow
  <2> QED BY <2>1, <2>2
<1> QED BY <1>5, <1>6

\* Segment n has the events, the head and the history of segment m.
SameEvents(n, m) ==
  /\ n.slots = m.slots /\ n.head = m.head /\ n.gen = m.gen /\ n.early = m.early
  /\ n.mask \in {m.mask, Capacity - 1}

LEMMA SameWritten ==
  ASSUME NEW n, NEW m, SameEvents(n, m), NEW i
  PROVE  WrittenBelow(m, i) <=> WrittenBelow(n, i)
BY DEF SameEvents, WrittenBelow

LEMMA BegunStep == TypeInv /\ Begun /\ [Next]_vars => Begun'
<1> SUFFICES ASSUME TypeInv, Begun, [Next]_vars, NEW p \in Captures, at'[p] = "push"
             PROVE  held'[p].gen <= mem'[seg'[p]].gen
  BY DEF Begun
<1> USE DEF TypeInv, Processes, bounds, Goes, Writes
\* No step takes the generation of a segment back.
<1>1. ASSUME NEW s \in Segments
      PROVE  mem'[s].gen \in {mem[s].gen, mem[s].gen + 1} /\ mem[s].gen \in Nat
  <2>0. mem[s] \in Segment /\ mem[s].gen \in Nat
    BY DEF Segment
  <2>1. ASSUME NEW c \in Clients, ShmOpen(c) PROVE mem'[s].gen = mem[s].gen
    <3>1. OpenTarget \in Segments
      BY <2>1, TargetIsSegment DEF ShmOpen
    <3> QED BY <2>0, <2>1, <3>1 DEF ShmOpen, Segment
  <2>2. ASSUME NEW c \in Clients, Client(c), ~ShmOpen(c)
        PROVE  mem'[s].gen \in {mem[s].gen, mem[s].gen + 1}
    <3>1. CASE Truncate(c)
      BY <2>0, <3>1 DEF Truncate, Segment
    <3>2. CASE StoreHead(c)
      BY <2>0, <3>2 DEF StoreHead, Segment
    <3>3. CASE StoreTail(c)
      BY <2>0, <3>3 DEF StoreTail, Segment
    <3>4. CASE StoreCapacity(c)
      BY <2>0, <3>4 DEF StoreCapacity, Segment
    <3>5. CASE StoreMask(c)
      BY <2>0, <3>5 DEF StoreMask, Segment
    <3>6. CASE PopStore(c)
      BY <2>0, <3>6 DEF PopStore, Segment
    <3>7. CASE PopLoad(c) \/ Leave(c) \/ Cleanup(c) \/ ClientEnds(c)
      BY <2>0, <3>7 DEF PopLoad, Leave, Cleanup, ClientEnds
    <3> QED BY <2>2, <3>1, <3>2, <3>3, <3>4, <3>5, <3>6, <3>7 DEF Client
  <2>3. ASSUME NEW q \in Captures, Capture(q) PROVE mem'[s].gen = mem[s].gen
    <3>1. CASE PushEnd(q)
      BY <2>0, <3>1 DEF PushEnd, Segment
    <3> QED BY <2>3, <3>1 DEF Capture, Open, PushFaults, PushBegin, CaptureEnds
  <2> QED BY <2>0, <2>1, <2>2, <2>3 DEF Next, RemoveName, vars
<1>2. CASE at[p] = "push" /\ seg'[p] = seg[p] /\ held'[p] = held[p]
  <2>1. /\ held[p].gen \in Nat /\ mem[seg[p]].gen \in Nat
        /\ mem'[seg[p]].gen \in {mem[seg[p]].gen, mem[seg[p]].gen + 1}
    BY <1>1, <1>2
  <2> QED BY <1>2, <2>1 DEF Begun
<1>3. CASE PushBegin(p)
  <2>1. mem[seg[p]].gen \in Nat
    BY <1>3 DEF PushBegin, Segment
  <2> QED BY <1>3, <2>1 DEF PushBegin
<1>4. ASSUME NEW c \in Clients, Client(c)
      PROVE  at[p] = "push" /\ seg'[p] = seg[p] /\ held'[p] = held[p]
  BY <1>4, ProcessAssumption
     DEF Client, ShmOpen, Truncate, StoreHead, StoreTail, StoreCapacity, StoreMask,
         PopLoad, PopStore, Leave, Cleanup, ClientEnds
<1>5. ASSUME NEW q \in Captures, Capture(q), ~PushBegin(p)
      PROVE  at[p] = "push" /\ seg'[p] = seg[p] /\ held'[p] = held[p]
  BY <1>5 DEF Capture, Open, PushFaults, PushBegin, PushEnd, CaptureEnds
<1>6. CASE RemoveName \/ UNCHANGED vars
  BY <1>2, <1>6 DEF RemoveName, vars
<1> QED BY <1>2, <1>3, <1>4, <1>5, <1>6 DEF Next

\* Stores that leave the events alone
LEMMA ContentsKept ==
  ASSUME TypeInv, Contents, UNCHANGED popped,
         \A s \in Segments : SameEvents(mem'[s], mem[s]),
         \A p \in Captures : at'[p] = "push" =>
           at[p] = "push" /\ seg'[p] = seg[p] /\ held'[p] = held[p],
         \A c \in Clients : at'[c] \in {"up", "pop"} =>
           /\ seg'[c] \in Segments
           /\ \/ at[c] \in {"up", "pop"} /\ seg'[c] = seg[c]
              \/ mem'[seg'[c]].mask = Capacity - 1
  PROVE  Contents'
<1> USE DEF TypeInv, Processes
<1>1. \A s \in Segments : ~mem'[s].early => WrittenBelow(mem'[s], mem'[s].head)
  BY SameWritten DEF Contents, SameEvents
<1>2. \A p \in Captures :
        at'[p] = "push" /\ ~mem'[seg'[p]].early /\ held'[p].gen = mem'[seg'[p]].gen
          => WrittenBelow(mem'[seg'[p]], held'[p].index)
  <2> SUFFICES ASSUME NEW p \in Captures, at'[p] = "push", ~mem'[seg'[p]].early,
                      held'[p].gen = mem'[seg'[p]].gen
               PROVE  WrittenBelow(mem'[seg[p]], held[p].index)
    OBVIOUS
  <2>1. seg[p] \in Segments /\ SameEvents(mem'[seg[p]], mem[seg[p]])
    OBVIOUS
  <2>2. WrittenBelow(mem[seg[p]], held[p].index)
    BY <2>1 DEF Contents, SameEvents
  <2> QED BY <2>1, <2>2, SameWritten
<1>3. \A c \in Clients : at'[c] \in {"up", "pop"} => mem'[seg'[c]].mask = Capacity - 1
  BY DEF Contents, SameEvents
<1> QED BY <1>1, <1>2, <1>3 DEF Contents, OldOnlyByEarlyPush

LEMMA ContentsStep == TypeInv /\ Begun /\ Contents /\ [Next]_vars => Contents'
<1> SUFFICES ASSUME TypeInv, Begun, Contents, [Next]_vars PROVE Contents'
  OBVIOUS
<1>0. \A x \in Processes : at[x] # "off" =>
        /\ seg[x] \in Segments /\ mem[seg[x]] \in Segment
        /\ mem[seg[x]].head \in Nat /\ mem[seg[x]].gen \in Nat
  BY DEF TypeInv, Segment
<1>a. \A x \in Processes : held[x].index \in Nat /\ held[x].gen \in Nat
  BY DEF TypeInv
<1>b. \A s \in Segments : mem[s] \in Segment /\ SameEvents(mem[s], mem[s])
  BY DEF TypeInv, SameEvents
<1> USE DEF Processes, bounds, Goes, Writes
<1>1. ASSUME NEW c \in Clients, ShmOpen(c) PROVE Contents'
  <2>1. OpenTarget \in Segments
    BY <1>1, TargetIsSegment DEF ShmOpen
  <2>2. \A s \in Segments : SameEvents(mem'[s], mem[s])
    BY <1>1, <1>b, <2>1 DEF ShmOpen, SameEvents, Segment, TypeInv
  <2>3. /\ \A p \in Captures : at'[p] = at[p] /\ seg'[p] = seg[p] /\ held'[p] = held[p]
        /\ \A d \in Clients : at'[d] \in {"up", "pop"} => at'[d] = at[d] /\ seg'[d] = seg[d]
    BY <1>1 DEF ShmOpen, TypeInv
  <2> QED BY <1>0, <1>1, <2>2, <2>3, ContentsKept DEF ShmOpen
<1>2. ASSUME NEW c \in Clients,
             Truncate(c) \/ StoreTail(c) \/ StoreCapacity(c) \/ StoreMask(c) \/ PopStore(c)
      PROVE  Contents'
  <2> DEFINE n == mem'[seg[c]]
  <2>1. at[c] # "off" /\ UNCHANGED <<seg, held, popped>>
    BY <1>2 DEF Truncate, StoreTail, StoreCapacity, StoreMask, PopStore
  <2>2. SameEvents(n, mem[seg[c]]) /\ (StoreMask(c) => n.mask = Capacity - 1)
    <3>1. CASE Truncate(c)
      BY <1>0, <3>1 DEF Truncate, StoreMask, SameEvents, Segment, TypeInv
    <3>2. CASE StoreTail(c)
      BY <1>0, <3>2 DEF StoreTail, StoreMask, SameEvents, Segment, TypeInv
    <3>3. CASE StoreCapacity(c)
      BY <1>0, <3>3 DEF StoreCapacity, StoreMask, SameEvents, Segment, TypeInv
    <3>4. CASE StoreMask(c)
      BY <1>0, <3>4 DEF StoreMask, SameEvents, Segment, TypeInv
    <3>5. CASE PopStore(c)
      BY <1>0, <3>5 DEF PopStore, StoreMask, SameEvents, Segment, TypeInv
    <3> QED BY <1>2, <3>1, <3>2, <3>3, <3>4, <3>5
  <2>3. \A s \in Segments : s # seg[c] => mem'[s] = mem[s]
    BY <1>2 DEF Truncate, StoreTail, StoreCapacity, StoreMask, PopStore, TypeInv
  <2>4. \A s \in Segments : SameEvents(mem'[s], mem[s])
    BY <1>b, <2>2, <2>3
  <2>5. /\ \A p \in Captures : at'[p] = at[p]
        /\ \A d \in Clients : at'[d] \in {"up", "pop"} =>
             \/ at[d] \in {"up", "pop"}
             \/ StoreMask(c) /\ d = c
    BY <1>2, ProcessAssumption DEF Truncate, StoreTail, StoreCapacity, StoreMask, PopStore, TypeInv
  <2> HIDE DEF n
  <2>6. \A d \in Clients : at'[d] \in {"up", "pop"} =>
          /\ seg'[d] \in Segments
          /\ at[d] \in {"up", "pop"} \/ mem'[seg'[d]].mask = Capacity - 1
    BY <1>0, <2>1, <2>2, <2>5 DEF n
  <2> QED BY <2>1, <2>4, <2>5, <2>6, ContentsKept
<1>3. ASSUME NEW c \in Clients, StoreHead(c) PROVE Contents'
  <2> DEFINE m == mem[seg[c]]
  <2>1. mem' = [mem EXCEPT ![seg[c]] =
                  [m EXCEPT !.head = 0, !.gen = @ + 1, !.early = FALSE]]
    BY <1>3 DEF StoreHead, HeadAfterCreate
  <2>2. seg[c] \in Segments /\ m \in Segment /\ m.gen \in Nat
    BY <1>0, <1>3 DEF StoreHead
  <2>3. /\ mem'[seg[c]].head = 0 /\ mem'[seg[c]].gen = m.gen + 1
        /\ mem'[seg[c]].mask = m.mask
    BY <2>1, <2>2 DEF TypeInv, Segment
  <2>4. \A s \in Segments : s # seg[c] => mem'[s] = mem[s]
    BY <2>1 DEF TypeInv
  <2> HIDE DEF m
  <2>5. UNCHANGED <<seg, held, popped>>
    BY <1>3 DEF StoreHead
  <2>6. \A x \in Processes : at'[x] \in {"push", "up", "pop"} => at'[x] = at[x]
    BY <1>3 DEF StoreHead, TypeInv
  <2>7. \A s \in Segments : ~mem'[s].early => WrittenBelow(mem'[s], mem'[s].head)
    <3>1. WrittenBelow(mem'[seg[c]], 0)
      BY DEF WrittenBelow
    <3> QED BY <2>3, <2>4, <3>1 DEF Contents
  <2>8. ASSUME NEW p \in Captures, at'[p] = "push", ~mem'[seg'[p]].early,
               held'[p].gen = mem'[seg'[p]].gen
        PROVE  WrittenBelow(mem'[seg'[p]], held'[p].index)
    <3>1. at[p] = "push" /\ held[p].gen <= mem[seg[p]].gen /\ seg[p] \in Segments
      BY <1>0, <2>6, <2>8 DEF Begun
    <3>2. seg[p] # seg[c]
      BY <1>a, <2>2, <2>3, <2>5, <2>8, <3>1 DEF m
    <3> QED BY <2>4, <2>5, <2>8, <3>1, <3>2 DEF Contents
  <2>9. \A d \in Clients : at'[d] \in {"up", "pop"} => mem'[seg'[d]].mask = Capacity - 1
    BY <1>0, <2>3, <2>4, <2>5, <2>6 DEF Contents, m
  <2> QED BY <2>5, <2>7, <2>8, <2>9 DEF Contents, OldOnlyByEarlyPush
<1>4. ASSUME NEW c \in Clients, PopLoad(c) PROVE Contents'
  <2> DEFINE m == mem[seg[c]]
  <2>1. m \in Segment /\ m.tail \in 0..m.head - 1 /\ m.mask = Capacity - 1
    BY <1>0, <1>4 DEF PopLoad, Contents, Segment
  <2>2. ~m.early => m.slots[SlotOf(m, m.tail)] = m.gen
    <3>1. ~m.early => WrittenBelow(m, m.head)
      BY <1>0, <1>4 DEF PopLoad, Contents
    <3>2. ~m.early => m.slots[m.tail % Capacity] = m.gen
      BY <2>1, <3>1 DEF WrittenBelow
    <3>3. SlotOf(m, m.tail) = m.tail % Capacity
      BY <2>1, SlotOfSegment DEF Segment
    <3> QED BY <3>2, <3>3
  <2>3. OldOnlyByEarlyPush'
    BY <1>4, <2>2 DEF PopLoad, OldOnlyByEarlyPush
  <2>4. /\ UNCHANGED <<mem, seg>>
        /\ \A p \in Captures : at'[p] = at[p] /\ held'[p] = held[p]
        /\ \A d \in Clients : at'[d] \in {"up", "pop"} => at[d] \in {"up", "pop"}
    BY <1>4, ProcessAssumption DEF PopLoad, TypeInv
  <2> QED BY <2>3, <2>4 DEF Contents, WrittenBelow
<1>5. ASSUME NEW c \in Clients, Leave(c) \/ Cleanup(c) \/ ClientEnds(c) PROVE Contents'
  <2>1. /\ UNCHANGED <<mem, held, popped>>
        /\ \A p \in Captures : at'[p] = at[p] /\ seg'[p] = seg[p]
        /\ \A d \in Clients : at'[d] \in {"up", "pop"} => at'[d] = at[d] /\ seg'[d] = seg[d]
    BY <1>5, ProcessAssumption DEF Leave, Cleanup, ClientEnds, TypeInv
  <2> QED BY <1>0, <1>b, <2>1, ContentsKept
<1>6. ASSUME NEW p \in Captures, Open(p) \/ PushFaults(p) \/ CaptureEnds(p) PROVE Contents'
  <2>1. /\ UNCHANGED <<mem, held, popped>>
        /\ \A x \in Processes :
             at'[x] \in {"push", "up", "pop"} => at'[x] = at[x] /\ seg'[x] = seg[x]
    BY <1>6 DEF Open, PushFaults, CaptureEnds, TypeInv
  <2> QED BY <1>0, <1>b, <2>1, ContentsKept
<1>7. ASSUME NEW p \in Captures, PushBegin(p) PROVE Contents'
  <2>1. /\ UNCHANGED <<mem, seg, popped>>
        /\ \A c \in Clients : at'[c] = at[c]
        /\ \A q \in Captures : at'[q] = "push" =>
             \/ at[q] = "push" /\ held'[q] = held[q]
             \/ q = p /\ at[p] = "idle" /\ held'[q].index = mem[seg[q]].head
    BY <1>7, ProcessAssumption DEF PushBegin, TypeInv
  <2> QED BY <1>0, <2>1 DEF Contents, OldOnlyByEarlyPush, WrittenBelow
<1>8. ASSUME NEW p \in Captures, PushEnd(p) PROVE Contents'
  <2> DEFINE m == mem[seg[p]]
             n == mem'[seg[p]]
             h == held[p].index
  <2>1. m \in Segment /\ h \in Nat /\ seg[p] \in Segments
    BY <1>0, <1>a, <1>8 DEF PushEnd
  <2>2. /\ n = [m EXCEPT !.slots[SlotOf(m, h)] = held[p].gen, !.head = h + 1,
                          !.early = @ \/ held[p].gen # m.gen \/ m.mask # Capacity - 1]
        /\ \A s \in Segments : s # seg[p] => mem'[s] = mem[s]
    BY <1>8, <2>1 DEF PushEnd, TypeInv
  <2> HIDE DEF m, n, h
  <2>3. n.gen = m.gen /\ n.mask = m.mask /\ n.head = h + 1
    BY <2>1, <2>2 DEF Segment
  <2>4. ASSUME ~n.early
        PROVE  /\ ~m.early /\ WrittenBelow(m, h) /\ WrittenBelow(n, h + 1)
               /\ \A i \in Nat : WrittenBelow(m, i) => WrittenBelow(n, i)
    <3>1. ~m.early /\ held[p].gen = m.gen /\ m.mask = Capacity - 1
      BY <2>1, <2>2, <2>4 DEF Segment
    <3>2. WrittenBelow(m, h)
      BY <1>8, <3>1 DEF PushEnd, Contents, m, h
    <3>3. n = [m EXCEPT !.slots[SlotOf(m, h)] = m.gen, !.head = h + 1, !.early = m.early]
      BY <2>1, <2>2, <3>1 DEF Segment
    <3> QED BY <2>1, <3>1, <3>2, <3>3, PushWrites
  <2>5. \A s \in Segments : ~mem'[s].early => WrittenBelow(mem'[s], mem'[s].head)
    BY <2>2, <2>3, <2>4 DEF Contents, n
  <2>6. UNCHANGED <<seg, held, popped>> /\ \A x \in Processes : at'[x] \in {at[x], "idle"}
    BY <1>8 DEF PushEnd, TypeInv
  <2>7. ASSUME NEW q \in Captures, at'[q] = "push", ~mem'[seg'[q]].early,
               held'[q].gen = mem'[seg'[q]].gen
        PROVE  WrittenBelow(mem'[seg'[q]], held'[q].index)
    <3>1. at[q] = "push" /\ seg[q] \in Segments
      BY <1>0, <2>6, <2>7
    <3>2. CASE seg[q] = seg[p]
      <4>1. WrittenBelow(m, held[q].index)
        BY <2>3, <2>4, <2>6, <2>7, <3>1, <3>2 DEF Contents, m, n
      <4> QED BY <1>a, <2>4, <2>6, <2>7, <3>2, <4>1 DEF n
    <3>3. CASE seg[q] # seg[p]
      BY <2>2, <2>6, <2>7, <3>1, <3>3 DEF Contents
    <3> QED BY <3>2, <3>3
  <2>8. ASSUME NEW c \in Clients, at'[c] \in {"up", "pop"}
        PROVE  mem'[seg'[c]].mask = Capacity - 1
    <3>1. at[c] \in {"up", "pop"} /\ seg[c] \in Segments /\ seg' = seg
      BY <1>0, <2>6, <2>8
    <3>2. mem[seg[c]].mask = Capacity - 1
      BY <3>1 DEF Contents
    <3>3. CASE seg[c] = seg[p]
      BY <2>3, <3>1, <3>2, <3>3 DEF m, n
    <3>4. CASE seg[c] # seg[p]
      BY <2>2, <3>1, <3>2, <3>4
    <3> QED BY <3>3, <3>4
  <2> QED BY <2>5, <2>6, <2>7, <2>8 DEF Contents, OldOnlyByEarlyPush
<1>9. CASE RemoveName \/ UNCHANGED vars
  BY <1>9 DEF RemoveName, vars, Contents, OldOnlyByEarlyPush, WrittenBelow
<1> QED
  BY <1>1, <1>2, <1>3, <1>4, <1>5, <1>6, <1>7, <1>8, <1>9 DEF Next, Client, Capture

\* In whatever order processes start, die and start again: a client pops an
\* event of an earlier run, or memory that no push wrote, only if a push that
\* began before the reset or before the mask was stored has ended since.
THEOREM OldEventsByEarlyPush == Spec => []OldOnlyByEarlyPush
<1>1. Init => Begun /\ Contents
  BY DEF Init, Begun, Contents, OldOnlyByEarlyPush, Untouched, WrittenBelow, Processes
<1>2. Contents => OldOnlyByEarlyPush
  BY DEF Contents
<1> QED BY <1>1, <1>2, BegunStep, ContentsStep, TypeInvariant, PTL DEF Spec
=============================================================================
