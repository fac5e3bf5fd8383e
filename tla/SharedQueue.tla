----------------------------- MODULE SharedQueue -----------------------------
(***************************************************************************)
(* The shared-memory ring of shared_events.h: shared_queue_push as every   *)
(* producer runs it (the WebSocket message handler, the eBPF loader and    *)
(* the DPDK capture, each in a process of its own) and shared_queue_pop as *)
(* the correlator thread runs it.  A step is one access to shared memory:  *)
(* the load of an index, half of the memcpy of a slot, the store of an     *)
(* index.  An event is abstracted to the number of the push that offered   *)
(* it; a slot has two halves, so that a torn copy can be told from a whole *)
(* one, and memory fresh from ftruncate holds zero.                        *)
(***************************************************************************)
EXTENDS Integers, Sequences

CONSTANTS Producers,  \* the threads that push
          Loaders,    \* those of a process other than the consumer's
          Capacity,   \* q->capacity, 1 << 20 in the program
          Word,       \* 2^64, the modulus of uint64_t
          MaxOffers   \* bound of the model: how many pushes are begun

ASSUME LoadersAssumption == Loaders \subseteq Producers

ASSUME CapacityAssumption == Capacity \in Nat \ {0}

\* create_shared_queue refuses any other capacity; & mask is then % capacity.
ASSUME PowerOfTwoAssumption == \E k \in 0..63 : Capacity = 2^k

\* The indices never wrap: that would take 2^64 pushes.
ASSUME BoundAssumption ==
  /\ MaxOffers \in Nat
  /\ Word \in Nat
  /\ MaxOffers + Capacity <= Word

VARIABLES
  head,      \* q->head: index of the next slot to fill
  tail,      \* q->tail: index of the next slot to read
  slots,     \* q->events
  pc,        \* where each producer is in shared_queue_push
  ev,        \* its event
  h,         \* its local copy of head
  cpc,       \* where the consumer is in shared_queue_pop
  ch,        \* its local copy of head
  ct,        \* its local copy of tail
  out,       \* the caller's buffer that the slot is copied to
  offered,   \* history: how many pushes were begun
  accepted,  \* history: the events whose push returned true, in that order
  popped,    \* history: what pop returned, in order
  dropped    \* history: how many pushes returned false

shared == <<head, tail, slots>>
producer == <<pc, ev, h>>
consumer == <<cpc, ch, ct, out>>
history == <<offered, accepted, popped, dropped>>
vars == <<head, tail, slots, pc, ev, h, cpc, ch, ct, out,
          offered, accepted, popped, dropped>>

-----------------------------------------------------------------------------
Offers == 1..MaxOffers
Indices == 0..MaxOffers
Cell == [lo : 0..MaxOffers, hi : 0..MaxOffers]
Blank == [lo |-> 0, hi |-> 0]
Whole(e) == [lo |-> e, hi |-> e]

\* a - b in uint64_t
Sub64(a, b) == IF a >= b THEN a - b ELSE a - b + Word

\* index & q->mask; the capacity is a power of two
SlotOf(i) == i % Capacity

\* Mutants: one event too many; one slot wasted; a signed difference.
FullOffByOne(i, t) == Sub64(i, t) > Capacity
FullEarly(i, t) == Sub64(i, t) >= Capacity - 1
FullSigned(i, t) == i - t >= Capacity

\* The test of push, on the indices it loaded
Full(i, t) == Sub64(i, t) >= Capacity

\* Mutants: > for >=; the newest event is held back.
EmptyOffByOne(t, i) == t > i
EmptyLate(t, i) == t + 1 >= i

\* The test of pop, on the indices it loaded
Empty(t, i) == t >= i

-----------------------------------------------------------------------------
Init ==
  /\ head = 0
  /\ tail = 0
  /\ slots = [i \in 0..Capacity - 1 |-> Blank]
  /\ pc = [p \in Producers |-> "idle"]
  /\ ev = [p \in Producers |-> 0]
  /\ h = [p \in Producers |-> 0]
  /\ cpc = "idle"
  /\ ch = 0
  /\ ct = 0
  /\ out = Blank
  /\ offered = 0
  /\ accepted = << >>
  /\ popped = << >>
  /\ dropped = 0

-----------------------------------------------------------------------------
(* shared_queue_push *)

\* The producer calls push and loads head.
PushLoadHead(p) ==
  /\ pc[p] = "idle"
  /\ offered < MaxOffers
  /\ offered' = offered + 1
  /\ ev' = [ev EXCEPT ![p] = offered + 1]
  /\ h' = [h EXCEPT ![p] = head]
  /\ pc' = [pc EXCEPT ![p] = "check"]
  /\ UNCHANGED <<shared, consumer, accepted, popped, dropped>>

\* It loads tail, finds the queue full and returns false.
PushFull(p) ==
  /\ pc[p] = "check"
  /\ Full(h[p], tail)
  /\ dropped' = dropped + 1
  /\ pc' = [pc EXCEPT ![p] = "idle"]
  /\ UNCHANGED <<shared, ev, h, consumer, offered, accepted, popped>>

\* It loads tail and finds room.
PushRoom(p) ==
  /\ pc[p] = "check"
  /\ ~Full(h[p], tail)
  /\ pc' = [pc EXCEPT ![p] = "lo"]
  /\ UNCHANGED <<shared, ev, h, consumer, history>>

\* memcpy to the slot, in two halves
PushCopyLo(p) ==
  /\ pc[p] = "lo"
  /\ slots' = [slots EXCEPT ![SlotOf(h[p])] = [@ EXCEPT !.lo = ev[p]]]
  /\ pc' = [pc EXCEPT ![p] = "hi"]
  /\ UNCHANGED <<head, tail, ev, h, consumer, history>>

PushCopyHi(p) ==
  /\ pc[p] = "hi"
  /\ slots' = [slots EXCEPT ![SlotOf(h[p])] = [@ EXCEPT !.hi = ev[p]]]
  /\ pc' = [pc EXCEPT ![p] = "publish"]
  /\ UNCHANGED <<head, tail, ev, h, consumer, history>>

\* The store of head; push returns true.
PushPublish(p) ==
  /\ pc[p] = "publish"
  /\ head' = h[p] + 1
  /\ accepted' = Append(accepted, ev[p])
  /\ pc' = [pc EXCEPT ![p] = "idle"]
  /\ UNCHANGED <<tail, slots, ev, h, consumer, offered, popped, dropped>>

\* A capture process dies inside push; it may be started again and push anew.
\* (The message handler shares its process with the consumer: when it dies the
\* queue is created again.)
ProducerCrash(p) ==
  /\ p \in Loaders
  /\ pc[p] # "idle"
  /\ pc' = [pc EXCEPT ![p] = "idle"]
  /\ UNCHANGED <<shared, ev, h, consumer, history>>

Push(p) ==
  \/ PushLoadHead(p)
  \/ PushFull(p)
  \/ PushRoom(p)
  \/ PushCopyLo(p)
  \/ PushCopyHi(p)
  \/ PushPublish(p)

-----------------------------------------------------------------------------
(* shared_queue_pop *)

PopLoadHead ==
  /\ cpc = "idle"
  /\ ch' = head
  /\ cpc' = "check"
  /\ UNCHANGED <<shared, producer, ct, out, history>>

\* It loads tail, finds the queue empty and returns false.
PopEmpty ==
  /\ cpc = "check"
  /\ Empty(tail, ch)
  /\ cpc' = "idle"
  /\ UNCHANGED <<shared, producer, ch, ct, out, history>>

PopFound ==
  /\ cpc = "check"
  /\ ~Empty(tail, ch)
  /\ ct' = tail
  /\ cpc' = "lo"
  /\ UNCHANGED <<shared, producer, ch, out, history>>

\* memcpy from the slot, in two halves
PopCopyLo ==
  /\ cpc = "lo"
  /\ out' = [out EXCEPT !.lo = slots[SlotOf(ct)].lo]
  /\ cpc' = "hi"
  /\ UNCHANGED <<shared, producer, ch, ct, history>>

PopCopyHi ==
  /\ cpc = "hi"
  /\ out' = [out EXCEPT !.hi = slots[SlotOf(ct)].hi]
  /\ cpc' = "commit"
  /\ UNCHANGED <<shared, producer, ch, ct, history>>

\* The store of tail; pop returns true with the event in out.
PopCommit ==
  /\ cpc = "commit"
  /\ tail' = ct + 1
  /\ popped' = Append(popped, out)
  /\ cpc' = "idle"
  /\ UNCHANGED <<head, slots, producer, ch, ct, out, offered, accepted, dropped>>

Pop ==
  \/ PopLoadHead
  \/ PopEmpty
  \/ PopFound
  \/ PopCopyLo
  \/ PopCopyHi
  \/ PopCommit

Next ==
  \/ \E p \in Producers : Push(p) \/ ProducerCrash(p)
  \/ Pop

Spec == Init /\ [][Next]_vars

\* The correlator thread calls pop for as long as the program runs.
FairSpec == Spec /\ WF_vars(Pop)

-----------------------------------------------------------------------------
(* Properties *)

\* Every variable stays in its domain; in particular the indices stay below
\* the number of pushes, so uint64_t never wraps.
TypeOK ==
  /\ head \in Indices
  /\ tail \in Indices
  /\ slots \in [0..Capacity - 1 -> Cell]
  /\ pc \in [Producers -> {"idle", "check", "lo", "hi", "publish"}]
  /\ ev \in [Producers -> 0..MaxOffers]
  /\ h \in [Producers -> Indices]
  /\ cpc \in {"idle", "check", "lo", "hi", "commit"}
  /\ ch \in Indices
  /\ ct \in Indices
  /\ out \in Cell
  /\ offered \in 0..MaxOffers
  /\ accepted \in Seq(Offers)
  /\ popped \in Seq(Cell)
  /\ dropped \in Nat

\* However many producers race, the ring never claims to hold more events
\* than it has slots: a push that checked the capacity against an old tail
\* is only too cautious.
NeverOverCapacity == head - tail <= Capacity

\* However many producers race, pop never returns memory that no push wrote:
\* head only passes a slot after a memcpy to it.
PoppedWasWritten ==
  \A i \in DOMAIN popped : popped[i].lo # 0 /\ popped[i].hi # 0

\* The events between tail and head, oldest first
Ring == [i \in 1..(head - tail) |-> slots[SlotOf(tail + i - 1)]]

\* Every event whose push returned true was either popped or is in the ring,
\* once, whole, and in the order of the pushes; nothing else is.
NothingLostNothingTorn ==
  popped \o Ring = [i \in 1..Len(accepted) |-> Whole(accepted[i])]

\* A producer and the consumer are never inside a memcpy of the same slot.
NoSlotRace ==
  \A p \in Producers :
    pc[p] \in {"lo", "hi"} /\ cpc \in {"lo", "hi"} => SlotOf(h[p]) # SlotOf(ct)

\* Once head has fallen behind tail and no push is under way that has passed
\* the capacity test, the queue is dead: every later push sees a huge unsigned
\* difference and drops its event, every later pop finds the queue empty.
Wedged ==
  /\ head < tail
  /\ \A p \in Producers : pc[p] = "idle" \/ (pc[p] = "check" /\ h[p] = head)
  /\ cpc = "idle" \/ (cpc = "check" /\ ch = head)

WedgedIsForever ==
  [][Wedged => Wedged' /\ UNCHANGED <<head, tail, accepted, popped>>]_vars

\* Every event whose push returned true is popped, as long as the correlator
\* thread keeps polling.
AcceptedIsPopped ==
  \A n \in Offers : (Len(accepted) >= n) ~> (Len(popped) >= n)

\* The ring implements the bounded queue of EventFifo.
Fifo == INSTANCE EventFifo WITH
          Events <- {Whole(e) : e \in Offers},
          queue <- Ring, taken <- popped, refused <- dropped

ImplementsFifo == Fifo!Spec
=============================================================================
