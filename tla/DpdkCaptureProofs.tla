-------------------------- MODULE DpdkCaptureProofs --------------------------
(***************************************************************************)
(* Proofs about the DPDK capture, for every set of packets, every size of  *)
(* the pool and of a burst.                                                *)
(***************************************************************************)
EXTENDS DpdkCapture, SequenceTheorems, TLAPS

-----------------------------------------------------------------------------
(* The parser, for any packet *)

LEMMA PktLenCut ==
  ASSUME NEW p \in Packets
  PROVE  /\ PktLen(p) \in Nat /\ PktLen(p) <= p.len
         /\ p.len < Word16 => PktLen(p) = p.len
BY PacketAssumption, SizeAssumption DEF PktLen

\* No test of the parser lets it read past the length it was given.
LEMMA ParserReadsInside ==
  ASSUME NEW p \in Packets
  PROVE  Reads(p) \subseteq 0..p.len - 1
<1>1. Offset(p) \in {14, 18} /\ Ihl(p) \in 0..60
  BY PacketAssumption DEF Offset, Ihl
<1> USE PktLenCut
<1>0. p.len \in Nat
  BY PacketAssumption
<1>2. LongEnough(p) => {12, 13, 16, 17} \subseteq 0..p.len - 1
  BY <1>0 DEF LongEnough
<1>3. HasIpHeader(p) => {Offset(p), Offset(p) + 9} \subseteq 0..p.len - 1
  BY <1>0, <1>1 DEF HasIpHeader
<1>4. parse_tcp_packet(p) => TcpOffset(p)..TcpOffset(p) + 7 \subseteq 0..p.len - 1
  BY <1>0, <1>1 DEF parse_tcp_packet, TcpOffset
<1> QED
  BY <1>2, <1>3, <1>4 DEF Reads, HasIhl

\* The parser takes a packet only if a TCP header is there, and then where it is.
LEMMA ParserExact ==
  ASSUME NEW p \in Packets
  PROVE  LET present == p.ipv4 /\ p.tcp /\ p.ihl >= 5 /\ TcpHeaderAt(p) + 20 <= p.len
         IN  /\ parse_tcp_packet(p) => present /\ TcpOffset(p) = TcpHeaderAt(p)
             /\ present /\ p.len < Word16 => parse_tcp_packet(p)
<1>1. TcpOffset(p) = TcpHeaderAt(p) /\ Offset(p) \in {14, 18} /\ Ihl(p) = 4 * p.ihl
  BY PacketAssumption DEF TcpOffset, TcpHeaderAt, Offset, Ihl
<1>2. TcpHeaderAt(p) = Offset(p) + Ihl(p) /\ p.ihl \in Int /\ p.len \in Nat
  BY PacketAssumption DEF TcpHeaderAt, Offset, Ihl
<1> QED
  BY <1>1, <1>2, PktLenCut DEF parse_tcp_packet, HasIhl, HasIpHeader, LongEnough

-----------------------------------------------------------------------------
(* The inductive invariant *)

Mbufs == [p : Packets, at : Nat]
Events == [ts_nic_ns : Nat, of : Mbufs]

CaptureType ==
  /\ clock \in Nat /\ pool \in Nat /\ called \in Nat
  /\ nic \in Seq(Mbufs) /\ bufs \in Seq(Mbufs) /\ events \in Seq(Events)
  /\ place = "handle" <=> bufs # << >>

\* Arrivals increase on the card and in the burst, from the events to the
\* burst and from both to the card.
CardOrder ==
  /\ \A i \in 1..Len(nic) : nic[i].at <= clock
  /\ \A i, j \in 1..Len(nic) : i < j => nic[i].at < nic[j].at
BurstOrder ==
  /\ \A i \in 1..Len(bufs) : bufs[i].at <= clock
  /\ \A i, j \in 1..Len(bufs) : i < j => bufs[i].at < bufs[j].at
BurstBeforeCard == \A i \in 1..Len(bufs), j \in 1..Len(nic) : bufs[i].at < nic[j].at
EventsBeforeBurst ==
  \A i \in 1..Len(events), j \in 1..Len(bufs) : events[i].of.at < bufs[j].at
EventsBeforeCard ==
  \A i \in 1..Len(events), j \in 1..Len(nic) : events[i].of.at < nic[j].at

ArrivalOrder ==
  CardOrder /\ BurstOrder /\ BurstBeforeCard /\ EventsBeforeBurst /\ EventsBeforeCard

\* Every stamp is in the past: handling a packet takes time.
StampOrder ==
  /\ \A i \in 1..Len(events) : events[i].of.at <= events[i].ts_nic_ns
  /\ \A i \in 1..Len(events) : events[i].ts_nic_ns < clock
  /\ \A i, j \in 1..Len(events) :
       j < i => /\ events[j].of.at < events[i].of.at
                /\ events[j].ts_nic_ns < events[i].ts_nic_ns

\* What these orders are about are numbers.
Numbers ==
  /\ clock \in Nat /\ Len(nic) \in Nat /\ Len(bufs) \in Nat /\ Len(events) \in Nat
  /\ \A i \in 1..Len(nic) : nic[i].at \in Nat
  /\ \A i \in 1..Len(bufs) : bufs[i].at \in Nat
  /\ \A i \in 1..Len(events) : events[i].of.at \in Nat /\ events[i].ts_nic_ns \in Nat

CaptureInv == CaptureType /\ NoMbufLeak /\ ArrivalOrder /\ StampOrder

LEMMA Fields ==
  /\ \A m \in Mbufs : m.p \in Packets /\ m.at \in Nat
  /\ \A e \in Events : e.of \in Mbufs /\ e.ts_nic_ns \in Nat
BY DEF Mbufs, Events

LEMMA OfNumbers == CaptureType => Numbers
<1> SUFFICES ASSUME CaptureType PROVE Numbers
  OBVIOUS
<1>1. /\ \A i \in 1..Len(nic) : nic[i] \in Mbufs
      /\ \A i \in 1..Len(bufs) : bufs[i] \in Mbufs
      /\ \A i \in 1..Len(events) : events[i] \in Events
  BY DEF CaptureType
<1>2. clock \in Nat /\ Len(nic) \in Nat /\ Len(bufs) \in Nat /\ Len(events) \in Nat
  BY DEF CaptureType
<1> QED BY <1>1, <1>2, Fields DEF Numbers

LEMMA CaptureInvInit == Init => CaptureInv
BY SizeAssumption
   DEF Init, CaptureInv, CaptureType, NoMbufLeak, StampOrder, ArrivalOrder, CardOrder,
       BurstOrder, BurstBeforeCard, EventsBeforeBurst, EventsBeforeCard

LEMMA CaptureInvStep == CaptureInv /\ [Next]_vars => CaptureInv'
<1> SUFFICES ASSUME CaptureInv, [Next]_vars PROVE CaptureInv'
  OBVIOUS
<1>0. /\ CaptureType /\ NoMbufLeak /\ StampOrder /\ Numbers /\ ArrivalOrder
      /\ CardOrder /\ BurstOrder /\ BurstBeforeCard /\ EventsBeforeBurst /\ EventsBeforeCard
  BY OfNumbers DEF CaptureInv, ArrivalOrder
<1> USE DEF CaptureInv, wire, statistics
<1>1. CASE Arrive
  <2>1. CASE UNCHANGED <<pool, nic>>
    <3>1. clock' = clock + 1 /\ UNCHANGED <<place, pool, nic, bufs, called, events>>
      BY <1>1, <2>1 DEF Arrive
    <3>2. CaptureType'
      BY <3>1 DEF CaptureType
    <3>3. ArrivalOrder'
      BY <1>0, <3>1 DEF Numbers, ArrivalOrder, CardOrder, BurstOrder, BurstBeforeCard,
                        EventsBeforeBurst, EventsBeforeCard
    <3>4. StampOrder'
      BY <1>0, <3>1 DEF StampOrder, Numbers
    <3> QED BY <3>1, <3>2, <3>3, <3>4 DEF NoMbufLeak
  <2>2. CASE /\ pool' = pool - 1 /\ pool # 0
             /\ \E p \in Packets : nic' = Append(nic, [p |-> p, at |-> clock'])
    <3>1. PICK p \in Packets : nic' = Append(nic, [p |-> p, at |-> clock'])
      BY <2>2
    <3> DEFINE m == [p |-> p, at |-> clock + 1]
    <3>2. /\ clock' = clock + 1 /\ m \in Mbufs /\ nic' = Append(nic, m)
          /\ UNCHANGED <<place, bufs, called, events>>
      BY <1>1, <3>1 DEF Arrive, Mbufs, CaptureType
    <3>3. /\ nic' \in Seq(Mbufs) /\ Len(nic') = Len(nic) + 1
          /\ \A i \in 1..Len(nic) : nic'[i] = nic[i]
          /\ nic'[Len(nic) + 1].at = clock + 1
      BY <3>2 DEF CaptureType
    <3>4. CaptureType'
      BY <2>2, <3>2, <3>3 DEF CaptureType
    <3>5. NoMbufLeak'
      BY <2>2, <3>2, <3>3 DEF CaptureType, NoMbufLeak
    <3>6. ArrivalOrder'
      <4>1. CardOrder'
        BY <1>0, <3>2, <3>3 DEF Numbers, CardOrder
      <4>2. BurstOrder'
        BY <1>0, <3>2, <3>3 DEF Numbers, BurstOrder
      <4>3. BurstBeforeCard'
        BY <1>0, <3>2, <3>3 DEF Numbers, BurstBeforeCard, BurstOrder
      <4>4. EventsBeforeBurst'
        BY <1>0, <3>2, <3>3 DEF Numbers, EventsBeforeBurst
      <4>5. EventsBeforeCard'
        BY <1>0, <3>2, <3>3 DEF Numbers, EventsBeforeCard, StampOrder
      <4> QED BY <4>1, <4>2, <4>3, <4>4, <4>5 DEF ArrivalOrder
    <3>7. StampOrder'
      BY <1>0, <3>2, SMTT(20) DEF StampOrder, Numbers
    <3> QED BY <3>4, <3>5, <3>6, <3>7
  <2> QED BY <1>1, <2>1, <2>2 DEF Arrive
<1>2. CASE Burst
  <2> DEFINE n == IF Len(nic) < BurstSize THEN Len(nic) ELSE BurstSize
  <2>1. n \in 0..Len(nic) /\ Len(nic) \in Nat /\ bufs = << >> /\ Len(bufs) = 0
    BY <1>2, SizeAssumption DEF Burst, CaptureType
  <2>2. /\ place' = IF n = 0 THEN "test" ELSE "handle"
        /\ UNCHANGED <<clock, pool, called, events>>
    BY <1>2 DEF Burst
  <2>3. bufs' = SubSeq(nic, 1, n) /\ nic' = SubSeq(nic, n + 1, Len(nic))
    BY <1>2 DEF Burst
  <2> HIDE DEF n
  <2>4. /\ bufs' \in Seq(Mbufs) /\ Len(bufs') = n
        /\ \A i \in 1..n : bufs'[i] = nic[i]
    BY <2>1, <2>3 DEF CaptureType
  <2>5. /\ nic' \in Seq(Mbufs) /\ Len(nic') = Len(nic) - n
        /\ \A i \in 1..Len(nic) - n : nic'[i] = nic[n + i]
    BY <2>1, <2>3 DEF CaptureType
  <2>6. CaptureType'
    <3>1. bufs' = << >> <=> n = 0
      BY <2>1, <2>4, EmptySeq
    <3> QED BY <2>2, <2>4, <2>5, <3>1 DEF CaptureType
  <2>7. NoMbufLeak'
    <3>1. pool \in Nat /\ pool + Len(nic) + 0 = PoolSize
      BY <1>0, <2>1 DEF CaptureType, NoMbufLeak
    <3> QED BY <2>1, <2>2, <2>4, <2>5, <3>1 DEF NoMbufLeak
  <2>8. ArrivalOrder'
    <3>0. /\ \A i \in 1..Len(bufs') : i \in 1..Len(nic) /\ bufs'[i] = nic[i]
          /\ \A i \in 1..Len(nic') : n + i \in 1..Len(nic) /\ nic'[i] = nic[n + i]
          /\ \A i \in 1..Len(bufs'), j \in 1..Len(nic') : i < n + j
          /\ n \in Nat /\ Len(nic') \in Nat /\ Len(bufs') \in Nat
      BY <2>1, <2>4, <2>5
    <3>1. CardOrder'
      <4>1. ASSUME NEW i \in 1..Len(nic') PROVE nic'[i].at <= clock'
        BY <1>0, <2>2, <3>0 DEF CardOrder
      <4>2. ASSUME NEW i \in 1..Len(nic'), NEW j \in 1..Len(nic'), i < j
            PROVE  nic'[i].at < nic'[j].at
        <5>1. n + i < n + j
          BY <3>0, <4>2
        <5> QED BY <1>0, <3>0, <5>1 DEF CardOrder
      <4> QED BY <4>1, <4>2 DEF CardOrder
    <3>2. BurstOrder'
      BY <1>0, <2>2, <3>0 DEF Numbers, CardOrder, BurstOrder
    <3>3. BurstBeforeCard'
      BY <1>0, <2>2, <3>0 DEF Numbers, CardOrder, BurstBeforeCard
    <3>4. EventsBeforeBurst'
      BY <1>0, <2>2, <3>0 DEF Numbers, EventsBeforeCard, EventsBeforeBurst
    <3>5. EventsBeforeCard'
      BY <1>0, <2>2, <3>0 DEF Numbers, EventsBeforeCard
    <3> QED BY <3>1, <3>2, <3>3, <3>4, <3>5 DEF ArrivalOrder
  <2>9. StampOrder'
    BY <2>2 DEF StampOrder
  <2> QED BY <2>6, <2>7, <2>8, <2>9
<1>3. CASE Handle
  <2> DEFINE m == Head(bufs)
  <2>1. /\ bufs # << >> /\ bufs' = Tail(bufs) /\ pool' = pool + 1 /\ clock' = clock + 1
        /\ place' = IF Len(bufs) = 1 THEN "report" ELSE "handle"
        /\ UNCHANGED <<nic, called>>
    BY <1>3 DEF Handle, Freed, CaptureType
  <2>2. /\ m \in Mbufs /\ m = bufs[1] /\ Len(bufs) >= 1
        /\ bufs' \in Seq(Mbufs) /\ Len(bufs') = Len(bufs) - 1
        /\ \A i \in 1..Len(bufs) - 1 : bufs'[i] = bufs[i + 1]
    BY <2>1 DEF CaptureType
  <2>3. NoMbufLeak'
    BY <2>1, <2>2 DEF CaptureType, NoMbufLeak
  <2>4. \A i \in 1..Len(events) : events[i].of.at < bufs[1].at
    BY <1>0, <2>2 DEF EventsBeforeBurst, Numbers
  <2>5. clock' = clock + 1 /\ UNCHANGED nic
    BY <2>1
  <2>6. CardOrder'
    BY <1>0, <2>5 DEF Numbers, CardOrder
  <2>7. \A i \in 1..Len(bufs') : i + 1 \in 1..Len(bufs) /\ bufs'[i] = bufs[i + 1]
    BY <2>2
  <2>8. BurstOrder'
    <3>1. ASSUME NEW i \in 1..Len(bufs') PROVE bufs'[i].at <= clock'
      BY <1>0, <2>5, <2>7 DEF Numbers, BurstOrder
    <3>2. ASSUME NEW i \in 1..Len(bufs'), NEW j \in 1..Len(bufs'), i < j
          PROVE  bufs'[i].at < bufs'[j].at
      <4>1. i + 1 < j + 1
        BY <2>2, <3>2
      <4> QED BY <1>0, <2>7, <4>1 DEF BurstOrder
    <3> QED BY <3>1, <3>2 DEF BurstOrder
  <2>9. BurstBeforeCard'
    BY <1>0, <2>5, <2>7 DEF BurstBeforeCard
  <2>10. CASE UNCHANGED events
    <3>1. CaptureType'
      BY <2>1, <2>2, <2>10 DEF CaptureType
    <3>2. ArrivalOrder'
      <4>1. EventsBeforeBurst'
        BY <1>0, <2>1, <2>2, <2>10 DEF Numbers, EventsBeforeBurst
      <4>2. EventsBeforeCard'
        BY <1>0, <2>1, <2>2, <2>10 DEF Numbers, EventsBeforeCard
      <4> QED BY <2>6, <2>8, <2>9, <4>1, <4>2 DEF ArrivalOrder
    <3>3. StampOrder'
      BY <1>0, <2>1, <2>10 DEF StampOrder, Numbers
    <3> QED BY <2>3, <3>1, <3>2, <3>3
  <2>11. CASE events' = Append(events, [ts_nic_ns |-> Stamp, of |-> m])
    <3> DEFINE e == [ts_nic_ns |-> clock, of |-> m]
               n == Len(events)
    <3>1. e \in Events /\ events' = Append(events, e)
      BY <2>2, <2>11 DEF Events, Stamp, CaptureType
    <3>2. /\ events' \in Seq(Events) /\ Len(events') = n + 1
          /\ \A i \in 1..n : events'[i] = events[i]
          /\ events'[n + 1].ts_nic_ns = clock
          /\ events'[n + 1].of.at = bufs[1].at
      BY <2>2, <3>1 DEF CaptureType
    <3>3. n \in Nat /\ \A i \in 1..Len(events') : i \in 1..n \/ i = n + 1
      BY <1>0, <3>2 DEF Numbers
    <3> HIDE DEF m, e, n
    <3>4. CaptureType'
      <4>1. bufs' = << >> <=> Len(bufs) = 1
        BY <2>2, EmptySeq
      <4>2. pool' \in Nat /\ clock' \in Nat /\ called' \in Nat /\ nic' \in Seq(Mbufs)
        BY <1>0, <2>1 DEF CaptureType
      <4>3. place' = "handle" <=> bufs' # << >>
        BY <2>1, <4>1
      <4> QED BY <2>2, <3>2, <4>2, <4>3 DEF CaptureType
    <3>5. EventsBeforeBurst'
      <4> SUFFICES ASSUME NEW i \in 1..Len(events'), NEW j \in 1..Len(bufs')
                   PROVE  events'[i].of.at < bufs'[j].at
        BY DEF EventsBeforeBurst
      <4>1. j + 1 \in 1..Len(bufs) /\ 1 \in 1..Len(bufs) /\ bufs'[j] = bufs[j + 1]
            /\ bufs[1].at < bufs[j + 1].at
        BY <1>0, <2>2 DEF BurstOrder, Numbers
      <4> QED BY <1>0, <3>2, <3>3, <4>1 DEF EventsBeforeBurst, n
    <3>6. EventsBeforeCard'
      <4> SUFFICES ASSUME NEW i \in 1..Len(events'), NEW j \in 1..Len(nic)
                   PROVE  events'[i].of.at < nic[j].at
        BY <2>1 DEF EventsBeforeCard
      <4> QED BY <1>0, <2>2, <3>2, <3>3, SMTT(20) DEF EventsBeforeCard, BurstBeforeCard, Numbers, n
    <3>7. StampOrder'
      <4>1. bufs[1].at <= clock /\ bufs[1].at \in Nat /\ clock \in Nat
        BY <1>0, <2>2 DEF BurstOrder, Numbers
      <4>2. ASSUME NEW i \in 1..Len(events')
            PROVE  events'[i].of.at <= events'[i].ts_nic_ns /\ events'[i].ts_nic_ns < clock'
        <5>1. CASE i \in 1..n
          <6>1. events'[i] = events[i] /\ i \in 1..Len(events)
            BY <3>2, <5>1 DEF n
          <6> QED BY <1>0, <2>5, <6>1 DEF StampOrder, Numbers
        <5>2. CASE i = n + 1
          BY <2>5, <3>2, <4>1, <5>2
        <5> QED BY <3>3, <5>1, <5>2
      <4>3. ASSUME NEW i \in 1..Len(events'), NEW j \in 1..Len(events'), j < i
            PROVE  /\ events'[j].of.at < events'[i].of.at
                   /\ events'[j].ts_nic_ns < events'[i].ts_nic_ns
        <5>1. j \in 1..n
          BY <3>2, <3>3, <4>3
        <5> QED BY <1>0, <2>4, <3>2, <3>3, <4>3, <5>1 DEF StampOrder, n
      <4> QED BY <4>2, <4>3 DEF StampOrder
    <3>8. ArrivalOrder'
      BY <2>6, <2>8, <2>9, <3>5, <3>6 DEF ArrivalOrder
    <3> QED BY <2>3, <3>4, <3>7, <3>8
  <2> QED BY <1>3, <2>10, <2>11 DEF Handle
<1>4. CASE signal_handler \/ Start \/ LoopTest \/ Report \/ Shutdown \/ Ended \/ UNCHANGED vars
  <2>1. /\ UNCHANGED <<clock, pool, nic, bufs, events>>
        /\ place' = "handle" <=> place = "handle"
        /\ called' \in {called, clock}
    BY <1>4 DEF signal_handler, Start, LoopTest, Report, Shutdown, Ended, vars
  <2>2. CaptureType' /\ NoMbufLeak'
    BY <2>1 DEF CaptureType, NoMbufLeak
  <2>3. ArrivalOrder'
    BY <1>0, <2>1 DEF ArrivalOrder, CardOrder, BurstOrder, BurstBeforeCard,
                      EventsBeforeBurst, EventsBeforeCard
  <2>4. StampOrder'
    BY <1>0, <2>1 DEF StampOrder
  <2> QED BY <2>2, <2>3, <2>4
<1> QED
  BY <1>1, <1>2, <1>3, <1>4 DEF Next, Capture

LEMMA CaptureInvariant == Spec => []CaptureInv
BY CaptureInvInit, CaptureInvStep, PTL DEF Spec

-----------------------------------------------------------------------------
(* Theorems *)

\* The parser never reads outside a packet, for all packets there are.
THEOREM NoReadOutside == Spec => []ReadsInside
<1>1. CaptureInv => ReadsInside
  BY ParserReadsInside, Fields DEF CaptureInv, CaptureType, ReadsInside
<1> QED
  BY <1>1, CaptureInvariant, PTL

\* It finds the TCP header exactly where it is, for all packets there are.
THEOREM HeaderFoundExactly == Spec => []ParsesExactly
<1>1. CaptureInv => ParsesExactly
  BY ParserExact, Fields DEF CaptureInv, CaptureType, ParsesExactly
<1> QED
  BY <1>1, CaptureInvariant, PTL

\* The loop gives every buffer back.
THEOREM BuffersKept == Spec => []NoMbufLeak
BY CaptureInvariant, PTL DEF CaptureInv

\* Stamps follow arrivals, in their order.
THEOREM StampsInOrder == Spec => []StampsFollowArrivals
<1>1. CaptureInv => StampsFollowArrivals
  <2> SUFFICES ASSUME CaptureInv, NEW i \in 1..Len(events)
               PROVE  /\ events[i].ts_nic_ns >= events[i].of.at
                      /\ \A j \in 1..i - 1 : /\ events[j].of.at < events[i].of.at
                                             /\ events[j].ts_nic_ns < events[i].ts_nic_ns
    BY DEF StampsFollowArrivals, CaptureInv, CaptureType
  <2>1. Numbers /\ StampOrder
    BY OfNumbers DEF CaptureInv
  <2>2. \A j \in 1..i - 1 : j \in 1..Len(events) /\ j < i
    BY <2>1 DEF Numbers
  <2> QED BY <2>1, <2>2 DEF Numbers, StampOrder
<1> QED
  BY <1>1, CaptureInvariant, PTL
=============================================================================
