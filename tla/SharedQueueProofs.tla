-------------------------- MODULE SharedQueueProofs --------------------------
(***************************************************************************)
(* Proofs about the shared event ring, for every capacity, every set of    *)
(* producers and every number of pushes below the wrap of uint64_t.        *)
(***************************************************************************)
EXTENDS SharedQueue, SequenceTheorems, TLAPS

USE CapacityAssumption, BoundAssumption

-----------------------------------------------------------------------------
(* Slots *)

\* An index always names a slot of the ring.
LEMMA SlotInRange ==
  ASSUME NEW i \in Nat
  PROVE  SlotOf(i) \in 0..Capacity - 1 /\ SlotOf(i) <= i
BY DEF SlotOf

\* Indices less than a lap apart name different slots.
LEMMA SlotInjective ==
  ASSUME NEW i \in Nat, NEW j \in Nat, i < j, j - i < Capacity
  PROVE  SlotOf(i) # SlotOf(j)
<1> DEFINE qi == i \div Capacity
           qj == j \div Capacity
<1>1. i = Capacity * qi + SlotOf(i) /\ qi \in Int
  BY DEF SlotOf
<1>2. j = Capacity * qj + SlotOf(j) /\ qj \in Int
  BY DEF SlotOf
<1>3. SUFFICES ASSUME SlotOf(i) = SlotOf(j) PROVE FALSE
  OBVIOUS
<1>4. PICK d \in Int : d = qj - qi
  BY <1>1, <1>2
<1>5. j - i = Capacity * d
  <2>1. SlotOf(i) \in Int
    BY SlotInRange
  <2> QED BY <1>1, <1>2, <1>3, <1>4, <2>1
<1>6. ASSUME d >= 1 PROVE FALSE
  <2>1. Capacity * d >= Capacity
    BY <1>6
  <2> QED BY <2>1, <1>5
<1>7. Capacity * d <= 0
  BY <1>6
<1> QED BY <1>5, <1>7

-----------------------------------------------------------------------------
(* Any number of producers *)

\* The indices that a push or a pop holds were really loaded: a push holds an
\* index below the number of pushes, the consumer holds the tail of the ring.
HeldIndices ==
  /\ head <= offered
  /\ ch <= offered
  /\ tail <= offered
  /\ \A p \in Producers :
       pc[p] # "idle" => h[p] < offered /\ ev[p] \in 1..offered
  /\ cpc \in {"lo", "hi", "commit"} => ct = tail /\ ct < ch

\* A push that passed the capacity test still has room, whatever the consumer
\* and the other producers did since.
RoomKept ==
  /\ head - tail <= Capacity
  /\ \A p \in Producers :
       pc[p] \in {"lo", "hi", "publish"} => h[p] - tail < Capacity

IndexInv == TypeOK /\ HeldIndices /\ RoomKept

LEMMA IndexInvInit == Init => IndexInv
BY DEF Init, IndexInv, TypeOK, HeldIndices, RoomKept, Indices, Cell, Blank

LEMMA IndexInvStep == IndexInv /\ [Next]_vars => IndexInv'
<1> SUFFICES ASSUME IndexInv, [Next]_vars PROVE IndexInv'
  OBVIOUS
<1> USE DEF IndexInv, TypeOK, HeldIndices, RoomKept, Indices, Offers, Cell,
            shared, producer, consumer, history
<1>1. ASSUME NEW p \in Producers, PushLoadHead(p) PROVE IndexInv'
  <2>1. TypeOK'
    BY <1>1, SMTT(20) DEF PushLoadHead
  <2>2. HeldIndices'
    BY <1>1, SMTT(20) DEF PushLoadHead
  <2>3. RoomKept'
    BY <1>1 DEF PushLoadHead
  <2> QED BY <2>1, <2>2, <2>3
<1>2. ASSUME NEW p \in Producers, PushFull(p) PROVE IndexInv'
  <2>1. TypeOK'
    BY <1>2, SMTT(20) DEF PushFull
  <2>2. HeldIndices'
    BY <1>2 DEF PushFull
  <2>3. RoomKept'
    BY <1>2 DEF PushFull
  <2> QED BY <2>1, <2>2, <2>3
<1>3. ASSUME NEW p \in Producers, PushRoom(p) PROVE IndexInv'
  <2>1. h[p] - tail < Capacity
    BY <1>3 DEF PushRoom, Full, Sub64
  <2> QED BY <1>3, <2>1 DEF PushRoom
<1>4. ASSUME NEW p \in Producers, PushCopyLo(p) PROVE IndexInv'
  <2>1. SlotOf(h[p]) \in 0..Capacity - 1
    BY SlotInRange, SMTT(20)
  <2> QED BY <1>4, <2>1 DEF PushCopyLo
<1>5. ASSUME NEW p \in Producers, PushCopyHi(p) PROVE IndexInv'
  <2>1. SlotOf(h[p]) \in 0..Capacity - 1
    BY SlotInRange, SMTT(20)
  <2> QED BY <1>5, <2>1 DEF PushCopyHi
<1>6. ASSUME NEW p \in Producers, PushPublish(p) PROVE IndexInv'
  <2>1. accepted' \in Seq(Offers)
    BY <1>6, AppendProperties DEF PushPublish
  <2>2. h[p] + 1 \in Indices /\ h[p] + 1 <= offered
    <3>1. h[p] < offered
      BY <1>6 DEF PushPublish
    <3>2. h[p] \in Indices /\ offered \in Indices
      OBVIOUS
    <3> QED BY <3>1, <3>2
  <2>3. TypeOK'
    BY <1>6, <2>1, <2>2 DEF PushPublish
  <2>4. HeldIndices'
    BY <1>6, <2>2 DEF PushPublish
  <2>5. RoomKept'
    <3>1. /\ h[p] - tail < Capacity /\ head' = h[p] + 1
          /\ UNCHANGED <<h, tail>>
      BY <1>6 DEF PushPublish
    <3>2. PICK a \in Int, b \in Int : a = h[p] /\ b = tail
      OBVIOUS
    <3>3. (head - tail <= Capacity)'
      <4>1. head' = a + 1 /\ tail' = b /\ a - b < Capacity
        BY <3>1, <3>2
      <4>2. (a + 1) - b <= Capacity
        BY <4>1
      <4> QED BY <4>1, <4>2
    <3>4. \A q \in Producers : pc'[q] \in {"lo", "hi", "publish"} => pc'[q] = pc[q]
      BY <1>6 DEF PushPublish
    <3> QED BY <3>1, <3>3, <3>4
  <2> QED BY <2>3, <2>4, <2>5
<1>7. ASSUME NEW p \in Producers, ProducerCrash(p) PROVE IndexInv'
  BY <1>7 DEF ProducerCrash
<1>8. CASE PopLoadHead
  BY <1>8 DEF PopLoadHead
<1>9. CASE PopEmpty
  BY <1>9 DEF PopEmpty
<1>10. CASE PopFound
  BY <1>10 DEF PopFound, Empty
<1>11. CASE PopCopyLo
  <2>1. ct \in Nat
    OBVIOUS
  <2>2. SlotOf(ct) \in 0..Capacity - 1
    BY <2>1, SlotInRange
  <2> QED BY <1>11, <2>2 DEF PopCopyLo
<1>12. CASE PopCopyHi
  <2>1. ct \in Nat
    OBVIOUS
  <2>2. SlotOf(ct) \in 0..Capacity - 1
    BY <2>1, SlotInRange
  <2> QED BY <1>12, <2>2 DEF PopCopyHi
<1>13. CASE PopCommit
  <2>1. popped' \in Seq(Cell)
    BY <1>13, AppendProperties DEF PopCommit
  <2>2. ct = tail /\ ct + 1 \in Indices /\ ct + 1 <= offered
    BY <1>13 DEF PopCommit
  <2>3. TypeOK'
    BY <1>13, <2>1, <2>2 DEF PopCommit
  <2>4. HeldIndices'
    BY <1>13, <2>2 DEF PopCommit
  <2>5. RoomKept'
    BY <1>13, <2>2, SMTT(20) DEF PopCommit
  <2> QED BY <2>3, <2>4, <2>5
<1>14. CASE UNCHANGED vars
  BY <1>14 DEF vars
<1> QED
  BY <1>1, <1>2, <1>3, <1>4, <1>5, <1>6, <1>7, <1>8, <1>9, <1>10, <1>11,
     <1>12, <1>13, <1>14 DEF Next, Push, Pop

LEMMA IndexInvariant == Spec => []IndexInv
BY IndexInvInit, IndexInvStep, PTL DEF Spec

\* The type invariant: whatever the producers do, every index and every copy
\* stays in its domain.
THEOREM TypeCorrect == Spec => []TypeOK
<1>1. IndexInv => TypeOK
  BY DEF IndexInv
<1> QED BY <1>1, IndexInvariant, PTL

\* shared_queue_push never lets the ring claim more events than it has slots,
\* even when any number of producers race.
THEOREM CapacityRespected == Spec => []NeverOverCapacity
<1>1. IndexInv => NeverOverCapacity
  BY DEF IndexInv, RoomKept, NeverOverCapacity
<1> QED BY <1>1, IndexInvariant, PTL

-----------------------------------------------------------------------------
(* No pop of unwritten memory, with any number of producers *)

\* In the first lap an index names the slot of the same number.
LEMMA SlotOfFirstLap ==
  ASSUME NEW i \in Nat, i < Capacity
  PROVE  SlotOf(i) = i
BY DEF SlotOf

Written(i) == slots[i].lo # 0 /\ slots[i].hi # 0

\* Every slot that an index below n names has been written.
WrittenUpTo(n) == \A i \in 0..Capacity - 1 : i < n => Written(i)

\* Whoever holds an index knows that every slot below it was written; a push
\* that is about to publish has written the slot of its own index as well.
WrittenInv ==
  /\ WrittenUpTo(head)
  /\ WrittenUpTo(ch)
  /\ \A p \in Producers :
       /\ pc[p] # "idle" => WrittenUpTo(h[p])
       /\ pc[p] = "hi" => slots[SlotOf(h[p])].lo # 0
       /\ pc[p] = "publish" => Written(SlotOf(h[p]))
  /\ cpc \in {"hi", "commit"} => out.lo # 0
  /\ cpc = "commit" => out.hi # 0
  /\ PoppedWasWritten

LEMMA WrittenInvInit == Init => WrittenInv
BY DEF Init, WrittenInv, WrittenUpTo, PoppedWasWritten

LEMMA WrittenInvStep == IndexInv /\ WrittenInv /\ [Next]_vars => WrittenInv'
<1> SUFFICES ASSUME IndexInv, WrittenInv, [Next]_vars PROVE WrittenInv'
  OBVIOUS
<1> USE DEF IndexInv, TypeOK, HeldIndices, Indices, Cell, WrittenInv,
            WrittenUpTo, Written, PoppedWasWritten,
            shared, producer, consumer, history
<1>1. ASSUME NEW p \in Producers, PushLoadHead(p) PROVE WrittenInv'
  BY <1>1 DEF PushLoadHead
<1>2. ASSUME NEW p \in Producers, PushFull(p) PROVE WrittenInv'
  BY <1>2 DEF PushFull
<1>3. ASSUME NEW p \in Producers, PushRoom(p) PROVE WrittenInv'
  BY <1>3 DEF PushRoom
<1>4. ASSUME NEW p \in Producers, PushCopyLo(p) PROVE WrittenInv'
  <2>1. ev[p] # 0
    <3>1. pc[p] = "lo"
      BY <1>4 DEF PushCopyLo
    <3>2. ev[p] \in 1..offered /\ offered \in Nat
      BY <3>1
    <3> QED BY <3>2
  <2>2. \A q \in Producers : SlotOf(h[q]) \in 0..Capacity - 1
    <3>1. \A q \in Producers : h[q] \in Nat
      OBVIOUS
    <3> QED BY <3>1, SlotInRange
  <2>3. \A i \in 0..Capacity - 1 :
          /\ slots'[i].hi = slots[i].hi
          /\ slots[i].lo # 0 => slots'[i].lo # 0
    BY <1>4, <2>1, <2>2 DEF PushCopyLo
  <2>4. slots'[SlotOf(h[p])].lo # 0
    BY <1>4, <2>1, <2>2 DEF PushCopyLo
  <2>5. /\ pc[p] = "lo" /\ pc' = [pc EXCEPT ![p] = "hi"]
        /\ UNCHANGED <<head, ch, h, cpc, out, popped>>
    BY <1>4 DEF PushCopyLo
  <2>6. WrittenUpTo(head)' /\ WrittenUpTo(ch)'
    BY <2>3, <2>5
  <2>7. \A q \in Producers : pc'[q] # "idle" => WrittenUpTo(h[q])'
    BY <2>3, <2>5
  <2>8. ASSUME NEW q \in Producers
        PROVE  /\ pc'[q] = "hi" => slots'[SlotOf(h[q])].lo # 0
               /\ pc'[q] = "publish" => (Written(SlotOf(h[q])))'
    BY <2>2, <2>3, <2>4, <2>5
  <2>9. /\ cpc' \in {"hi", "commit"} => out'.lo # 0
        /\ cpc' = "commit" => out'.hi # 0
        /\ PoppedWasWritten'
    BY <2>5
  <2> QED BY <2>5, <2>6, <2>7, <2>8, <2>9
<1>5. ASSUME NEW p \in Producers, PushCopyHi(p) PROVE WrittenInv'
  <2>1. ev[p] # 0
    <3>1. pc[p] = "hi"
      BY <1>5 DEF PushCopyHi
    <3>2. ev[p] \in 1..offered /\ offered \in Nat
      BY <3>1
    <3> QED BY <3>2
  <2>2. \A q \in Producers : SlotOf(h[q]) \in 0..Capacity - 1
    <3>1. \A q \in Producers : h[q] \in Nat
      OBVIOUS
    <3> QED BY <3>1, SlotInRange
  <2>3. \A i \in 0..Capacity - 1 :
          /\ slots'[i].lo = slots[i].lo
          /\ slots[i].hi # 0 => slots'[i].hi # 0
    BY <1>5, <2>1, <2>2 DEF PushCopyHi
  <2>4. slots'[SlotOf(h[p])].hi # 0
    BY <1>5, <2>1, <2>2 DEF PushCopyHi
  <2>5. /\ pc[p] = "hi" /\ pc' = [pc EXCEPT ![p] = "publish"]
        /\ UNCHANGED <<head, ch, h, cpc, out, popped>>
    BY <1>5 DEF PushCopyHi
  <2>6. WrittenUpTo(head)' /\ WrittenUpTo(ch)'
    BY <2>3, <2>5
  <2>7. \A q \in Producers : pc'[q] # "idle" => WrittenUpTo(h[q])'
    BY <2>3, <2>5
  <2>8. ASSUME NEW q \in Producers
        PROVE  /\ pc'[q] = "hi" => slots'[SlotOf(h[q])].lo # 0
               /\ pc'[q] = "publish" => (Written(SlotOf(h[q])))'
    BY <2>2, <2>3, <2>4, <2>5
  <2>9. /\ cpc' \in {"hi", "commit"} => out'.lo # 0
        /\ cpc' = "commit" => out'.hi # 0
        /\ PoppedWasWritten'
    BY <2>5
  <2> QED BY <2>5, <2>6, <2>7, <2>8, <2>9
<1>6. ASSUME NEW p \in Producers, PushPublish(p) PROVE WrittenInv'
  <2>1. WrittenUpTo(h[p] + 1)
    <3> SUFFICES ASSUME NEW i \in 0..Capacity - 1, i < h[p] + 1 PROVE Written(i)
      OBVIOUS
    <3>1. CASE i < h[p]
      BY <3>1, <1>6 DEF PushPublish
    <3>2. CASE i = h[p]
      BY <3>2, <1>6, SlotOfFirstLap, SMTT(20) DEF PushPublish
    <3> QED BY <3>1, <3>2
  <2> QED BY <1>6, <2>1 DEF PushPublish
<1>7. ASSUME NEW p \in Producers, ProducerCrash(p) PROVE WrittenInv'
  BY <1>7 DEF ProducerCrash
<1>8. CASE PopLoadHead
  BY <1>8 DEF PopLoadHead
<1>9. CASE PopEmpty
  BY <1>9 DEF PopEmpty
<1>10. CASE PopFound
  BY <1>10 DEF PopFound
<1>11. ASSUME cpc \in {"lo", "hi"} PROVE Written(SlotOf(ct))
  <2>1. ct \in Nat /\ ct < ch
    BY <1>11
  <2>2. SlotOf(ct) \in 0..Capacity - 1 /\ SlotOf(ct) <= ct
    BY <2>1, SlotInRange
  <2>3. SlotOf(ct) < ch
    <3>1. ch \in Nat
      OBVIOUS
    <3> QED BY <2>1, <2>2, <3>1
  <2>4. WrittenUpTo(ch)
    OBVIOUS
  <2> QED BY <2>2, <2>3, <2>4 DEF WrittenUpTo
<1>12. CASE PopCopyLo
  BY <1>11, <1>12 DEF PopCopyLo
<1>13. CASE PopCopyHi
  BY <1>11, <1>13 DEF PopCopyHi
<1>14. CASE PopCommit
  <2>1. PoppedWasWritten'
    <3>1. /\ popped \in Seq(Cell) /\ out \in Cell
          /\ popped' = Append(popped, out)
          /\ out.lo # 0 /\ out.hi # 0
      BY <1>14 DEF PopCommit
    <3>2. /\ Len(popped') = Len(popped) + 1
          /\ \A i \in 1..Len(popped) : popped'[i] = popped[i]
          /\ popped'[Len(popped) + 1] = out
      BY <3>1, AppendProperties
    <3>3. DOMAIN popped = 1..Len(popped) /\ Len(popped) \in Nat
      BY <3>1, LenProperties
    <3>4. DOMAIN popped' = 1..(Len(popped) + 1)
      BY <3>1, <3>2, AppendProperties, LenProperties
    <3>5. ASSUME NEW i \in 1..(Len(popped) + 1)
          PROVE  popped'[i].lo # 0 /\ popped'[i].hi # 0
      <4>1. CASE i \in 1..Len(popped)
        <5>1. popped'[i] = popped[i]
          BY <3>2, <4>1
        <5>2. popped[i].lo # 0 /\ popped[i].hi # 0
          BY <3>3, <4>1
        <5> QED BY <5>1, <5>2
      <4>2. CASE i = Len(popped) + 1
        BY <3>1, <3>2, <4>2
      <4>3. i \in 1..Len(popped) \/ i = Len(popped) + 1
        BY <3>3
      <4> QED BY <4>1, <4>2, <4>3
    <3> QED BY <3>4, <3>5 DEF PoppedWasWritten
  <2> QED BY <1>14, <2>1 DEF PopCommit
<1>15. CASE UNCHANGED vars
  BY <1>15 DEF vars
<1> QED
  BY <1>1, <1>2, <1>3, <1>4, <1>5, <1>6, <1>7, <1>8, <1>9, <1>10, <1>12,
     <1>13, <1>14, <1>15 DEF Next, Push, Pop

\* shared_queue_pop never hands out memory that no push wrote, even when any
\* number of producers race and some of them die inside a push.
THEOREM OnlyWrittenIsPopped == Spec => []PoppedWasWritten
<1>1. WrittenInv => PoppedWasWritten
  BY DEF WrittenInv
<1> QED BY <1>1, IndexInvariant, WrittenInvInit, WrittenInvStep, PTL DEF Spec

-----------------------------------------------------------------------------
(* The dead queue *)

\* Racing producers can leave head behind tail.  From then on no event is ever
\* accepted or popped again: the state is not one that the queue recovers from.
THEOREM WedgedStaysWedged == Spec => WedgedIsForever
<1> DEFINE Stuck == Wedged' /\ UNCHANGED <<head, tail, accepted, popped>>
<1>1. IndexInv /\ [Next]_vars => [Wedged => Stuck]_vars
  <2> SUFFICES ASSUME IndexInv, Next, Wedged PROVE Stuck
    OBVIOUS
  <2> USE DEF IndexInv, TypeOK, HeldIndices, Indices, Wedged,
              shared, producer, consumer, history
  <2>1. ASSUME NEW p \in Producers, PushLoadHead(p) PROVE Stuck
    BY <2>1 DEF PushLoadHead
  <2>2. ASSUME NEW p \in Producers, PushFull(p) PROVE Stuck
    BY <2>2 DEF PushFull
  <2>3. ASSUME NEW p \in Producers, PushRoom(p) PROVE FALSE
    <3>1. h[p] = head /\ head \in Indices /\ tail \in Indices
      BY <2>3 DEF PushRoom
    <3>2. Full(h[p], tail)
      BY <3>1 DEF Full, Sub64
    <3> QED BY <2>3, <3>2 DEF PushRoom
  <2>4. ASSUME NEW p \in Producers, ProducerCrash(p) PROVE Stuck
    BY <2>4 DEF ProducerCrash
  <2>5. ASSUME NEW p \in Producers,
               PushCopyLo(p) \/ PushCopyHi(p) \/ PushPublish(p) PROVE FALSE
    BY <2>5 DEF PushCopyLo, PushCopyHi, PushPublish
  <2>6. CASE PopLoadHead
    BY <2>6 DEF PopLoadHead
  <2>7. CASE PopEmpty
    BY <2>7 DEF PopEmpty
  <2>8. ASSUME PopFound \/ PopCopyLo \/ PopCopyHi \/ PopCommit PROVE FALSE
    BY <2>8 DEF PopFound, PopCopyLo, PopCopyHi, PopCommit, Empty
  <2> QED
    BY <2>1, <2>2, <2>3, <2>4, <2>5, <2>6, <2>7, <2>8 DEF Next, Push, Pop
<1> QED BY <1>1, IndexInvariant, PTL DEF Spec, WedgedIsForever

-----------------------------------------------------------------------------
(* One producer: the ring is the bounded queue of EventFifo.  The premise    *)
(* SingleProducer is needed: with two producers TLC finds lost events and a  *)
(* queue that refuses although it is empty.                                  *)

SingleProducer == \A p, q \in Producers : p = q

\* The lengths of the two histories are the two indices.
Counts ==
  /\ Len(accepted) = head
  /\ Len(popped) = tail
  /\ tail <= head
  /\ ch <= head

\* What was accepted was popped whole, or lies whole in its slot.
Contents ==
  /\ \A i \in 1..tail : popped[i] = Whole(accepted[i])
  /\ \A i \in Indices :
       tail <= i /\ i < head => slots[SlotOf(i)] = Whole(accepted[i + 1])

\* The push under way fills the slot after the last one.
PushUnderWay ==
  \A p \in Producers :
    /\ pc[p] # "idle" => h[p] = head
    /\ pc[p] \in {"hi", "publish"} => slots[SlotOf(head)].lo = ev[p]
    /\ pc[p] = "publish" => slots[SlotOf(head)].hi = ev[p]

\* The pop under way copies the oldest event.
PopUnderWay ==
  /\ cpc \in {"hi", "commit"} => out.lo = accepted[tail + 1]
  /\ cpc = "commit" => out.hi = accepted[tail + 1]

FifoInv == Counts /\ Contents /\ PushUnderWay /\ PopUnderWay

LEMMA FifoInvInit == Init => FifoInv
BY DEF Init, FifoInv, Counts, Contents, PushUnderWay, PopUnderWay, Indices

\* The slot being filled is not one of those that hold an event.
LEMMA FreeSlot ==
  ASSUME IndexInv, FifoInv, NEW p \in Producers,
         pc[p] \in {"lo", "hi", "publish"}
  PROVE  /\ h[p] = head /\ head - tail < Capacity
         /\ SlotOf(head) \in 0..Capacity - 1
         /\ \A i \in Indices :
              tail <= i /\ i < head => SlotOf(i) # SlotOf(head)
<1>1. h[p] = head /\ head \in Nat /\ tail \in Nat /\ Indices \subseteq Nat
  BY DEF IndexInv, TypeOK, FifoInv, PushUnderWay, Indices
<1>2. head - tail < Capacity
  BY <1>1 DEF IndexInv, RoomKept
<1>3. SlotOf(head) \in 0..Capacity - 1
  BY <1>1, SlotInRange
<1>4. ASSUME NEW i \in Indices, tail <= i, i < head
      PROVE  SlotOf(i) # SlotOf(head)
  <2>1. i \in Nat
    BY <1>1
  <2>2. head - i < Capacity
    BY <1>1, <1>2, <1>4, <2>1
  <2> QED BY <2>1, <2>2, <1>1, <1>4, SlotInjective
<1> QED BY <1>1, <1>2, <1>3, <1>4

LEMMA FifoInvStep ==
  SingleProducer /\ IndexInv /\ FifoInv /\ [Next]_vars => FifoInv'
<1> SUFFICES ASSUME SingleProducer, IndexInv, FifoInv, [Next]_vars
             PROVE  FifoInv'
  OBVIOUS
<1> USE DEF SingleProducer, FifoInv, shared, producer, consumer, history
<1>0. /\ head \in Nat /\ tail \in Nat /\ ch \in Nat /\ ct \in Nat
      /\ accepted \in Seq(Offers) /\ popped \in Seq(Cell)
      /\ out \in Cell /\ slots \in [0..Capacity - 1 -> Cell]
      /\ pc \in [Producers -> {"idle", "check", "lo", "hi", "publish"}]
      /\ h \in [Producers -> Indices] /\ ev \in [Producers -> 0..MaxOffers]
      /\ cpc \in {"lo", "hi", "commit"} => ct = tail /\ ct < ch
      /\ Indices \subseteq Nat
  BY DEF IndexInv, TypeOK, HeldIndices, Indices
<1>1. ASSUME NEW p \in Producers, PushLoadHead(p) PROVE FifoInv'
  <2>1. Counts' /\ Contents' /\ PopUnderWay'
    BY <1>1 DEF PushLoadHead, Counts, Contents, PopUnderWay
  <2>2. PushUnderWay'
    BY <1>0, <1>1 DEF PushLoadHead, PushUnderWay
  <2> QED BY <2>1, <2>2
<1>2. ASSUME NEW p \in Producers, PushFull(p) PROVE FifoInv'
  <2>1. Counts' /\ Contents' /\ PopUnderWay'
    BY <1>2 DEF PushFull, Counts, Contents, PopUnderWay
  <2>2. PushUnderWay'
    BY <1>0, <1>2 DEF PushFull, PushUnderWay
  <2> QED BY <2>1, <2>2
<1>3. ASSUME NEW p \in Producers, PushRoom(p) PROVE FifoInv'
  <2>1. Counts' /\ Contents' /\ PopUnderWay'
    BY <1>3 DEF PushRoom, Counts, Contents, PopUnderWay
  <2>2. PushUnderWay'
    BY <1>0, <1>3 DEF PushRoom, PushUnderWay
  <2> QED BY <2>1, <2>2
<1>4. ASSUME NEW p \in Producers, PushCopyLo(p) PROVE FifoInv'
  <2>1. pc[p] \in {"lo", "hi", "publish"}
    BY <1>4 DEF PushCopyLo
  <2>2. /\ h[p] = head /\ SlotOf(head) \in 0..Capacity - 1
        /\ \A i \in Indices :
             tail <= i /\ i < head => SlotOf(i) # SlotOf(head)
    BY <2>1, FreeSlot
  <2>3. /\ slots' = [slots EXCEPT ![SlotOf(head)] = [@ EXCEPT !.lo = ev[p]]]
        /\ pc' = [pc EXCEPT ![p] = "hi"]
        /\ UNCHANGED <<head, tail, ev, h, consumer, history>>
    BY <1>4, <2>2 DEF PushCopyLo
  <2>4. Counts' /\ PopUnderWay'
    BY <2>3 DEF Counts, PopUnderWay
  <2>5. Contents'
    BY <1>0, <2>2, <2>3 DEF Contents
  <2>6. slots'[SlotOf(head)].lo = ev[p]
    BY <1>0, <2>2, <2>3 DEF Cell
  <2>7. PushUnderWay'
    BY <1>0, <2>2, <2>3, <2>6 DEF PushUnderWay
  <2> QED BY <2>4, <2>5, <2>7
<1>5. ASSUME NEW p \in Producers, PushCopyHi(p) PROVE FifoInv'
  <2>1. pc[p] = "hi"
    BY <1>5 DEF PushCopyHi
  <2>2. /\ h[p] = head /\ SlotOf(head) \in 0..Capacity - 1
        /\ \A i \in Indices :
             tail <= i /\ i < head => SlotOf(i) # SlotOf(head)
    BY <2>1, FreeSlot
  <2>3. /\ slots' = [slots EXCEPT ![SlotOf(head)] = [@ EXCEPT !.hi = ev[p]]]
        /\ pc' = [pc EXCEPT ![p] = "publish"]
        /\ UNCHANGED <<head, tail, ev, h, consumer, history>>
    BY <1>5, <2>2 DEF PushCopyHi
  <2>4. Counts' /\ PopUnderWay'
    BY <2>3 DEF Counts, PopUnderWay
  <2>5. Contents'
    BY <1>0, <2>2, <2>3 DEF Contents
  <2>6. slots'[SlotOf(head)].hi = ev[p] /\ slots'[SlotOf(head)].lo = ev[p]
    BY <1>0, <2>1, <2>2, <2>3 DEF Cell, PushUnderWay
  <2>7. PushUnderWay'
    BY <1>0, <2>2, <2>3, <2>6 DEF PushUnderWay
  <2> QED BY <2>4, <2>5, <2>7
<1>6. ASSUME NEW p \in Producers, PushPublish(p) PROVE FifoInv'
  <2>1. pc[p] = "publish" /\ h[p] = head
    BY <1>6 DEF PushPublish, PushUnderWay
  <2>2. /\ head' = head + 1
        /\ accepted' = Append(accepted, ev[p])
        /\ pc' = [pc EXCEPT ![p] = "idle"]
        /\ UNCHANGED <<tail, slots, ev, h, consumer, offered, popped, dropped>>
    BY <1>6, <2>1 DEF PushPublish
  <2>3. ev[p] \in Offers
    <3>1. ev[p] \in 1..offered /\ offered \in 0..MaxOffers
      BY <2>1 DEF IndexInv, HeldIndices, TypeOK
    <3> QED BY <3>1 DEF Offers
  <2>4. /\ Len(accepted') = head + 1
        /\ \A i \in 1..head : accepted'[i] = accepted[i]
        /\ accepted'[head + 1] = ev[p]
    <3>1. accepted \in Seq(Offers) /\ Len(accepted) = head
      BY <1>0 DEF Counts
    <3>2. accepted' = Append(accepted, ev[p])
      BY <2>2
    <3>3. /\ Len(Append(accepted, ev[p])) = Len(accepted) + 1
          /\ \A i \in 1..Len(accepted) : Append(accepted, ev[p])[i] = accepted[i]
          /\ Append(accepted, ev[p])[Len(accepted) + 1] = ev[p]
      BY <2>3, <3>1, AppendProperties
    <3> QED BY <3>1, <3>2, <3>3, Zenon
  <2>5. slots[SlotOf(head)] = Whole(ev[p])
    <3>1. SlotOf(head) \in 0..Capacity - 1
      BY <1>0, SlotInRange
    <3>2. slots[SlotOf(head)] \in Cell
      BY <1>0, <3>1
    <3>3. slots[SlotOf(head)].lo = ev[p] /\ slots[SlotOf(head)].hi = ev[p]
      BY <2>1 DEF PushUnderWay
    <3> QED BY <3>2, <3>3 DEF Cell, Whole
  <2>6. Counts'
    BY <1>0, <2>2, <2>4 DEF Counts
  <2>7. Contents'
    <3>1. \A i \in 1..tail : popped[i] = Whole(accepted'[i])
      BY <1>0, <2>4 DEF Contents, Counts
    <3>2. ASSUME NEW i \in Indices, tail <= i, i < head + 1
          PROVE  slots[SlotOf(i)] = Whole(accepted'[i + 1])
      <4>1. CASE i < head
        BY <1>0, <2>4, <3>2, <4>1 DEF Contents
      <4>2. CASE i = head
        BY <2>4, <2>5, <4>2
      <4> QED BY <1>0, <3>2, <4>1, <4>2
    <3> QED BY <2>2, <3>1, <3>2 DEF Contents, Indices
  <2>8. PushUnderWay'
    BY <1>0, <2>2 DEF PushUnderWay
  <2>9. PopUnderWay'
    BY <1>0, <2>2, <2>4 DEF PopUnderWay, Counts
  <2> QED BY <2>6, <2>7, <2>8, <2>9
<1>7. ASSUME NEW p \in Producers, ProducerCrash(p) PROVE FifoInv'
  <2>1. Counts' /\ Contents' /\ PopUnderWay'
    BY <1>7 DEF ProducerCrash, Counts, Contents, PopUnderWay
  <2>2. PushUnderWay'
    BY <1>0, <1>7 DEF ProducerCrash, PushUnderWay
  <2> QED BY <2>1, <2>2
<1>8. CASE PopLoadHead
  BY <1>0, <1>8 DEF PopLoadHead, Counts, Contents, PushUnderWay, PopUnderWay
<1>9. CASE PopEmpty
  BY <1>9 DEF PopEmpty, Counts, Contents, PushUnderWay, PopUnderWay
<1>10. CASE PopFound
  BY <1>10 DEF PopFound, Counts, Contents, PushUnderWay, PopUnderWay
<1>11. ASSUME cpc \in {"lo", "hi", "commit"}
       PROVE  /\ ct = tail /\ tail < head
              /\ slots[SlotOf(ct)] = Whole(accepted[tail + 1])
  <2>1. ct = tail /\ tail < head
    BY <1>0, <1>11 DEF Counts
  <2>2. tail \in Indices
    BY DEF IndexInv, TypeOK
  <2> QED BY <1>0, <2>1, <2>2 DEF Contents
<1>12. CASE PopCopyLo
  <2>1. Counts' /\ Contents' /\ PushUnderWay'
    BY <1>12 DEF PopCopyLo, Counts, Contents, PushUnderWay
  <2>2. PopUnderWay'
    BY <1>0, <1>11, <1>12 DEF PopCopyLo, PopUnderWay, Whole, Cell
  <2> QED BY <2>1, <2>2
<1>13. CASE PopCopyHi
  <2>1. Counts' /\ Contents' /\ PushUnderWay'
    BY <1>13 DEF PopCopyHi, Counts, Contents, PushUnderWay
  <2>2. PopUnderWay'
    BY <1>0, <1>11, <1>13 DEF PopCopyHi, PopUnderWay, Whole, Cell
  <2> QED BY <2>1, <2>2
<1>14. CASE PopCommit
  <2>1. /\ tail' = tail + 1 /\ tail < head
        /\ popped' = Append(popped, out)
        /\ cpc' = "idle"
        /\ UNCHANGED <<head, slots, producer, ch, accepted>>
    BY <1>11, <1>14 DEF PopCommit
  <2>2. out = Whole(accepted[tail + 1])
    BY <1>0, <1>14 DEF PopCommit, PopUnderWay, Cell, Whole
  <2>3. /\ Len(popped') = tail + 1
        /\ \A i \in 1..tail : popped'[i] = popped[i]
        /\ popped'[tail + 1] = out
    BY <1>0, <2>1, AppendProperties DEF Counts
  <2>4. Counts'
    BY <1>0, <2>1, <2>3 DEF Counts
  <2>5. Contents'
    <3>1. ASSUME NEW i \in 1..tail + 1 PROVE popped'[i] = Whole(accepted[i])
      <4>1. CASE i \in 1..tail
        BY <2>3, <4>1 DEF Contents
      <4>2. CASE i = tail + 1
        BY <2>2, <2>3, <4>2
      <4> QED BY <1>0, <4>1, <4>2
    <3>2. \A i \in Indices :
            tail + 1 <= i /\ i < head => slots[SlotOf(i)] = Whole(accepted[i + 1])
      BY <1>0 DEF Contents
    <3> QED BY <2>1, <3>1, <3>2 DEF Contents
  <2>6. PushUnderWay' /\ PopUnderWay'
    BY <2>1 DEF PushUnderWay, PopUnderWay
  <2> QED BY <2>4, <2>5, <2>6
<1>15. CASE UNCHANGED vars
  BY <1>15 DEF vars, Counts, Contents, PushUnderWay, PopUnderWay
<1> QED
  BY <1>1, <1>2, <1>3, <1>4, <1>5, <1>6, <1>7, <1>8, <1>9, <1>10, <1>12,
     <1>13, <1>14, <1>15 DEF Next, Push, Pop

LEMMA FifoInvariant == SingleProducer /\ Spec => []FifoInv
<1> SUFFICES ASSUME SingleProducer PROVE Spec => []FifoInv
  OBVIOUS
<1>1. IndexInv /\ FifoInv /\ [Next]_vars => FifoInv'
  BY FifoInvStep
<1> QED BY <1>1, IndexInvariant, FifoInvInit, PTL DEF Spec

-----------------------------------------------------------------------------
(* What the invariant gives *)

\* The ring as a sequence: its length and its elements.
RingIs ==
  /\ Ring \in Seq(Cell)
  /\ Len(Ring) = head - tail
  /\ \A i \in 1..(head - tail) : Ring[i] = Whole(accepted[tail + i])

LEMMA RingContents == IndexInv /\ FifoInv => RingIs
<1> SUFFICES ASSUME IndexInv, FifoInv PROVE RingIs
  OBVIOUS
<1>1. head \in Indices /\ tail \in Indices /\ tail <= head
  BY DEF IndexInv, TypeOK, FifoInv, Counts
<1>2. head - tail \in Nat
  BY <1>1 DEF Indices
<1>3. ASSUME NEW i \in 1..(head - tail)
      PROVE  /\ Ring[i] = Whole(accepted[tail + i])
             /\ slots[SlotOf(tail + i - 1)] \in Cell
  <2>1. tail + i - 1 \in Indices /\ tail <= tail + i - 1 /\ tail + i - 1 < head
    BY <1>1, <1>3 DEF Indices
  <2>2. slots[SlotOf(tail + i - 1)] = Whole(accepted[(tail + i - 1) + 1])
    BY <2>1 DEF FifoInv, Contents
  <2>3. (tail + i - 1) + 1 = tail + i
    BY <1>1, <1>3 DEF Indices
  <2>4. tail + i - 1 \in Nat
    BY <2>1 DEF Indices
  <2>5. SlotOf(tail + i - 1) \in 0..Capacity - 1
    BY <2>4, SlotInRange
  <2>6. slots[SlotOf(tail + i - 1)] \in Cell
    BY <2>5 DEF IndexInv, TypeOK
  <2> QED BY <1>3, <2>2, <2>3, <2>6 DEF Ring
<1>4. Ring \in [1..(head - tail) -> Cell]
  BY <1>3 DEF Ring
<1>5. Ring \in Seq(Cell) /\ Len(Ring) = head - tail
  BY <1>2, <1>4
<1> QED BY <1>3, <1>5 DEF RingIs

LEMMA RingContentsNext == IndexInv' /\ FifoInv' => RingIs'
BY RingContents, PTL

\* With one producer no event that shared_queue_push accepted is
\* lost, repeated, torn or reordered on its way to shared_queue_pop.
THEOREM NoLossNoTear ==
  SingleProducer /\ Spec => []NothingLostNothingTorn
<1>1. ASSUME IndexInv, FifoInv PROVE NothingLostNothingTorn
  <2> DEFINE A == [i \in 1..Len(accepted) |-> Whole(accepted[i])]
  <2>1. /\ accepted \in Seq(Offers) /\ popped \in Seq(Cell)
        /\ Len(accepted) = head /\ Len(popped) = tail
        /\ head \in Nat /\ tail \in Nat /\ tail <= head
        /\ \A i \in 1..tail : popped[i] = Whole(accepted[i])
    BY <1>1 DEF IndexInv, TypeOK, FifoInv, Counts, Contents, Indices
  <2>2. \A i \in 1..head : accepted[i] \in Offers
    BY <2>1, ElementOfSeq
  <2>3. \A i \in 1..head : Whole(accepted[i]) \in Cell
    BY <2>2 DEF Whole, Cell, Offers
  <2>4. A \in Seq(Cell) /\ Len(A) = head
        /\ \A i \in 1..head : A[i] = Whole(accepted[i])
    BY <2>1, <2>3
  <2>5. /\ popped \o Ring \in Seq(Cell)
        /\ Len(popped \o Ring) = head
        /\ \A i \in 1..head : (popped \o Ring)[i] =
             IF i <= tail THEN popped[i] ELSE Ring[i - tail]
    <3>1. Ring \in Seq(Cell) /\ Len(Ring) = head - tail
      BY <1>1, RingContents DEF RingIs
    <3>2. Len(popped) + Len(Ring) = head
      BY <2>1, <3>1
    <3> QED BY <2>1, <3>1, <3>2, ConcatProperties
  <2>6. ASSUME NEW i \in 1..head PROVE (popped \o Ring)[i] = A[i]
    <3>1. CASE i <= tail
      BY <2>1, <2>4, <2>5, <3>1
    <3>2. CASE tail < i
      <4>1. i - tail \in 1..(head - tail) /\ tail + (i - tail) = i
        BY <2>1, <3>2
      <4>2. Ring[i - tail] = Whole(accepted[i])
        BY <1>1, <4>1, RingContents DEF RingIs
      <4>3. ~(i <= tail)
        BY <2>1, <3>2
      <4> QED BY <2>4, <2>5, <4>2, <4>3
    <3>3. i <= tail \/ tail < i
      BY <2>1
    <3> QED BY <3>1, <3>2, <3>3
  <2>7. popped \o Ring = A
    BY <2>4, <2>5, <2>6, SeqEqual
  <2> QED BY <2>7 DEF NothingLostNothingTorn
<1> QED BY <1>1, IndexInvariant, FifoInvariant, PTL

\* With one producer push and pop never copy the same slot at the
\* same moment, so neither memcpy races with the other.
THEOREM NoRace == SingleProducer /\ Spec => []NoSlotRace
<1>1. ASSUME IndexInv, FifoInv PROVE NoSlotRace
  <2> SUFFICES ASSUME NEW p \in Producers, pc[p] \in {"lo", "hi"},
                      cpc \in {"lo", "hi"}
               PROVE  SlotOf(h[p]) # SlotOf(ct)
    BY DEF NoSlotRace
  <2>1. h[p] = head /\ \A i \in Indices :
          tail <= i /\ i < head => SlotOf(i) # SlotOf(head)
    BY <1>1, FreeSlot
  <2>2. ct = tail /\ ct \in Indices /\ tail <= ct /\ ct < head
    BY <1>1 DEF IndexInv, TypeOK, HeldIndices, FifoInv, Counts, Indices
  <2> QED BY <2>1, <2>2
<1> QED BY <1>1, IndexInvariant, FifoInvariant, PTL

-----------------------------------------------------------------------------
(* Refinement of EventFifo *)

\* A step that moves no index and writes no slot that holds an event leaves
\* the abstract queue alone.
LEMMA RingKept ==
  ASSUME head' = head, tail' = tail, head \in Indices, tail \in Indices,
         \A i \in Indices :
           tail <= i /\ i < head => slots'[SlotOf(i)] = slots[SlotOf(i)]
  PROVE  Ring' = Ring
<1>1. \A i \in 1..(head - tail) :
        slots'[SlotOf(tail + i - 1)] = slots[SlotOf(tail + i - 1)]
  <2> TAKE i \in 1..(head - tail)
  <2>1. tail + i - 1 \in Indices /\ tail <= tail + i - 1 /\ tail + i - 1 < head
    BY DEF Indices
  <2> QED BY <2>1
<1>2. Ring' = [i \in 1..(head - tail) |-> slots'[SlotOf(tail + i - 1)]]
  BY DEF Ring, SlotOf
<1> QED BY <1>1, <1>2 DEF Ring

LEMMA FifoInitially == Init => Fifo!Init
<1> SUFFICES ASSUME Init PROVE Fifo!Init
  OBVIOUS
<1>1. head - tail = 0 /\ popped = << >> /\ dropped = 0
  BY DEF Init
<1>2. Ring = << >>
  BY <1>1 DEF Ring
<1> QED BY <1>1, <1>2 DEF Fifo!Init

LEMMA FifoStep ==
  ASSUME SingleProducer, IndexInv, IndexInv', FifoInv, FifoInv', [Next]_vars
  PROVE  [Fifo!Next]_Fifo!vars
<1> USE DEF shared, producer, consumer, history
<1>0. head \in Indices /\ tail \in Indices /\ tail <= head /\ head \in Nat
      /\ tail \in Nat /\ Len(accepted) = head /\ accepted \in Seq(Offers)
  BY DEF IndexInv, TypeOK, Indices, FifoInv, Counts
<1>1. ASSUME UNCHANGED <<head, tail, slots, popped, dropped>>
      PROVE  UNCHANGED Fifo!vars
  <2>1. Ring' = Ring
    BY <1>1 DEF Ring
  <2> QED BY <1>1, <2>1 DEF Fifo!vars
<1>2. ASSUME NEW p \in Producers, PushFull(p) PROVE Fifo!Refuse
  <2>1. Ring' = Ring
    BY <1>2 DEF PushFull, Ring
  <2>2. h[p] = head /\ Full(h[p], tail)
    BY <1>2 DEF PushFull, FifoInv, PushUnderWay
  <2>3. head - tail >= Capacity /\ head - tail <= Capacity
    BY <1>0, <2>2 DEF Full, Sub64, IndexInv, RoomKept
  <2>4. Len(Ring) = Capacity
    BY <1>0, <2>3, RingContents DEF RingIs
  <2> QED BY <1>2, <2>1, <2>4 DEF PushFull, Fifo!Refuse
<1>3. ASSUME NEW p \in Producers, PushCopyLo(p) \/ PushCopyHi(p)
      PROVE  UNCHANGED Fifo!vars
  <2>1. pc[p] \in {"lo", "hi", "publish"}
    BY <1>3 DEF PushCopyLo, PushCopyHi
  <2>2. /\ h[p] = head /\ SlotOf(head) \in 0..Capacity - 1
        /\ \A i \in Indices :
             tail <= i /\ i < head => SlotOf(i) # SlotOf(head)
    BY <2>1, FreeSlot
  <2>3. slots \in [0..Capacity - 1 -> Cell]
    BY DEF IndexInv, TypeOK
  <2>4. \A i \in Indices :
          tail <= i /\ i < head => slots'[SlotOf(i)] = slots[SlotOf(i)]
    <3> TAKE i \in Indices
    <3> HAVE tail <= i /\ i < head
    <3>1. SlotOf(i) # SlotOf(h[p])
      BY <2>2
    <3>2. SlotOf(i) \in 0..Capacity - 1
      <4>1. i \in Nat
        BY DEF Indices
      <4> QED BY <4>1, SlotInRange
    <3> QED BY <1>3, <2>3, <3>1, <3>2 DEF PushCopyLo, PushCopyHi
  <2>5. UNCHANGED <<head, tail, popped, dropped>>
    BY <1>3 DEF PushCopyLo, PushCopyHi
  <2>6. Ring' = Ring
    BY <1>0, <2>4, <2>5, RingKept
  <2> QED BY <2>5, <2>6 DEF Fifo!vars
<1>4. ASSUME NEW p \in Producers, PushPublish(p)
      PROVE  \E e \in {Whole(o) : o \in Offers} : Fifo!Put(e)
  <2>1. pc[p] = "publish" /\ h[p] = head
    BY <1>4 DEF PushPublish, FifoInv, PushUnderWay
  <2>2. /\ head' = head + 1 /\ accepted' = Append(accepted, ev[p])
        /\ UNCHANGED <<tail, slots, popped, dropped>>
    BY <1>4, <2>1 DEF PushPublish
  <2>3. ev[p] \in Offers
    <3>1. ev[p] \in 1..offered /\ offered \in 0..MaxOffers
      BY <2>1 DEF IndexInv, HeldIndices, TypeOK
    <3> QED BY <3>1 DEF Offers
  <2>4. Len(Ring) < Capacity
    <3>1. head - tail < Capacity
      BY <2>1, FreeSlot
    <3> QED BY <3>1, RingContents DEF RingIs
  <2>5. Whole(ev[p]) \in Cell
    BY <2>3 DEF Whole, Cell, Offers
  <2>6. Ring' = Append(Ring, Whole(ev[p]))
    <3>1. /\ Ring' \in Seq(Cell) /\ Len(Ring') = head + 1 - tail
          /\ \A i \in 1..(head + 1 - tail) : Ring'[i] = Whole(accepted'[tail + i])
      <4>1. /\ Ring' \in Seq(Cell)
            /\ Len(Ring') = head' - tail'
            /\ \A i \in 1..(head' - tail') : Ring'[i] = Whole(accepted'[tail' + i])
        BY RingContentsNext DEF RingIs, Cell, Whole
      <4>2. head' = head + 1 /\ tail' = tail
        BY <2>2
      <4>3. head' - tail' = head + 1 - tail
        BY <1>0, <4>2
      <4> QED BY <4>1, <4>2, <4>3
    <3>2. /\ Ring \in Seq(Cell) /\ Len(Ring) = head - tail
          /\ \A i \in 1..(head - tail) : Ring[i] = Whole(accepted[tail + i])
      BY RingContents DEF RingIs
    <3>3. /\ \A i \in 1..head : accepted'[i] = accepted[i]
          /\ accepted'[head + 1] = ev[p]
      BY <1>0, <2>2, <2>3, AppendProperties
    <3>4. /\ Append(Ring, Whole(ev[p])) \in Seq(Cell)
          /\ Len(Append(Ring, Whole(ev[p]))) = head - tail + 1
          /\ \A i \in 1..(head - tail) : Append(Ring, Whole(ev[p]))[i] = Ring[i]
          /\ Append(Ring, Whole(ev[p]))[head - tail + 1] = Whole(ev[p])
      BY <2>5, <3>2, AppendProperties
    <3>5. ASSUME NEW i \in 1..(head + 1 - tail)
          PROVE  Ring'[i] = Append(Ring, Whole(ev[p]))[i]
      <4>1. CASE i \in 1..(head - tail)
        <5>1. tail + i \in 1..head
          BY <1>0, <4>1
        <5> QED BY <3>1, <3>2, <3>3, <3>4, <3>5, <4>1, <5>1
      <4>2. CASE i = head - tail + 1
        <5>1. tail + i = head + 1
          BY <1>0, <4>2
        <5> QED BY <3>1, <3>3, <3>4, <3>5, <4>2, <5>1
      <4>3. i \in 1..(head - tail) \/ i = head - tail + 1
        BY <1>0
      <4> QED BY <4>1, <4>2, <4>3
    <3>6. head - tail + 1 = head + 1 - tail
      BY <1>0
    <3> QED BY <3>1, <3>4, <3>5, <3>6, SeqEqual
  <2>7. Fifo!Put(Whole(ev[p]))
    BY <2>2, <2>4, <2>6 DEF Fifo!Put
  <2> QED BY <2>3, <2>7
<1>5. ASSUME PopCommit PROVE Fifo!Take
  <2>1. /\ ct = tail /\ ct < head
        /\ tail' = tail + 1 /\ popped' = Append(popped, out)
        /\ UNCHANGED <<head, slots, accepted, dropped>>
    BY <1>5 DEF PopCommit, IndexInv, TypeOK, HeldIndices, FifoInv, Counts, Indices
  <2>2. /\ Ring \in Seq(Cell) /\ Len(Ring) = head - tail
        /\ \A i \in 1..(head - tail) : Ring[i] = Whole(accepted[tail + i])
    BY RingContents DEF RingIs
  <2>3. 1 \in 1..(head - tail) /\ Len(Ring) > 0
    BY <1>0, <2>1, <2>2
  <2>4. Ring # << >>
    BY <2>3
  <2>5. Head(Ring) = Whole(accepted[tail + 1])
    BY <2>2, <2>3
  <2>6. out = Whole(accepted[tail + 1])
    <3>1. out \in Cell /\ out.lo = accepted[tail + 1] /\ out.hi = accepted[tail + 1]
      BY <1>5 DEF PopCommit, FifoInv, PopUnderWay, IndexInv, TypeOK
    <3> QED BY <3>1 DEF Cell, Whole
  <2>7. Ring' = Tail(Ring)
    <3>1. /\ Ring' \in Seq(Cell) /\ Len(Ring') = head - (tail + 1)
          /\ \A i \in 1..(head - (tail + 1)) : Ring'[i] = Whole(accepted[tail + 1 + i])
      <4>1. /\ Ring' \in Seq(Cell)
            /\ Len(Ring') = head' - tail'
            /\ \A i \in 1..(head' - tail') : Ring'[i] = Whole(accepted'[tail' + i])
        BY RingContentsNext DEF RingIs, Cell, Whole
      <4> QED BY <2>1, <4>1
    <3>2. /\ Tail(Ring) \in Seq(Cell) /\ Len(Tail(Ring)) = Len(Ring) - 1
          /\ \A i \in 1..Len(Tail(Ring)) : Tail(Ring)[i] = Ring[i + 1]
      BY <2>2, <2>4, HeadTailProperties
    <3>3. Len(Ring') = Len(Tail(Ring)) /\ Len(Ring') = head - tail - 1
      BY <1>0, <2>2, <3>1, <3>2
    <3>4. ASSUME NEW i \in 1..Len(Ring') PROVE Ring'[i] = Tail(Ring)[i]
      <4>1. /\ i + 1 \in 1..(head - tail) /\ i \in 1..(head - (tail + 1))
            /\ tail + (i + 1) = tail + 1 + i
        BY <1>0, <3>3, <3>4
      <4> QED BY <2>2, <3>1, <3>2, <3>3, <3>4, <4>1
    <3> QED BY <3>1, <3>2, <3>3, <3>4, SeqEqual
  <2> QED BY <2>1, <2>4, <2>5, <2>6, <2>7 DEF Fifo!Take
<1>6. ASSUME NEW p \in Producers, PushLoadHead(p) \/ PushRoom(p) \/ ProducerCrash(p)
      PROVE  UNCHANGED <<head, tail, slots, popped, dropped>>
  BY <1>6 DEF PushLoadHead, PushRoom, ProducerCrash
<1>7. ASSUME PopLoadHead \/ PopEmpty \/ PopFound \/ PopCopyLo \/ PopCopyHi
      PROVE  UNCHANGED <<head, tail, slots, popped, dropped>>
  BY <1>7 DEF PopLoadHead, PopEmpty, PopFound, PopCopyLo, PopCopyHi
<1>8. CASE UNCHANGED vars
  BY <1>1, <1>8 DEF vars
<1>9. CASE Next
  BY <1>1, <1>2, <1>3, <1>4, <1>5, <1>6, <1>7, <1>9
     DEF Next, Push, Pop, Fifo!Next
<1> QED BY <1>8, <1>9

\* With one producer the lock-free ring is the bounded first-in
\* first-out queue its users take it for: push either appends or refuses
\* because Capacity events wait, pop takes the oldest.
THEOREM RefinesFifo == SingleProducer /\ Spec => ImplementsFifo
<1> SUFFICES ASSUME SingleProducer PROVE Spec => ImplementsFifo
  OBVIOUS
<1>1. IndexInv /\ IndexInv' /\ FifoInv /\ FifoInv' /\ [Next]_vars
        => [Fifo!Next]_Fifo!vars
  BY FifoStep
<1>2. Spec => []FifoInv
  BY FifoInvariant
<1> QED
  BY <1>1, <1>2, FifoInitially, IndexInvariant, PTL
     DEF Spec, ImplementsFifo, Fifo!Spec
=============================================================================
