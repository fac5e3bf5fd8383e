----------------------------- MODULE DpdkCapture -----------------------------
(***************************************************************************)
(* dpdk_capture.cpp: the packet parser, and the loop that takes bursts     *)
(* from the network card, stamps every packet, pushes an event for every   *)
(* TCP packet and gives the buffer back to the pool.  A packet is what the *)
(* parser tells apart: its length, a VLAN tag, IPv4 or not, the length of  *)
(* the IP header in words, TCP or not.  The clock ticks when a packet      *)
(* arrives and when one has been handled.                                  *)
(***************************************************************************)
EXTENDS Integers, Sequences

CONSTANTS Packets,     \* the packets that occur
          Word16,      \* 2^16, the range of pkt_len
          PoolSize,    \* nb_mbufs, 8192 in the program
          BurstSize,   \* 32 in the program
          Second,      \* one second, in ticks of the clock
          MaxPackets   \* bound of the model: packets that arrive

ASSUME PacketAssumption ==
  Packets \subseteq [len : Nat, vlan : BOOLEAN, ipv4 : BOOLEAN, ihl : 0..15, tcp : BOOLEAN]
ASSUME SizeAssumption ==
  Word16 \in Nat \ {0} /\ {PoolSize, BurstSize, Second, MaxPackets} \subseteq Nat

-----------------------------------------------------------------------------
(* parse_tcp_packet, test by test *)

\* The argument pkt_len is a uint16_t; DPDK's length has 32 bits.
PktLen(p) == p.len % Word16
Ihl(p) == p.ihl * 4

\* Mutant: the VLAN tag is not skipped.
NoTag(p) == 14

Offset(p) == IF p.vlan THEN 18 ELSE 14

TcpOffset(p) == Offset(p) + Ihl(p)

LongEnough(p) == PktLen(p) >= 54
HasIpHeader(p) == LongEnough(p) /\ p.ipv4 /\ PktLen(p) >= Offset(p) + 20
HasIhl(p) == HasIpHeader(p) /\ Ihl(p) >= 20

\* Mutant: the options of the IP header are forgotten in the last test.
NoOptions(p) == HasIhl(p) /\ p.tcp /\ PktLen(p) >= Offset(p) + 40

parse_tcp_packet(p) == HasIhl(p) /\ p.tcp /\ PktLen(p) >= TcpOffset(p) + 20

\* The bytes of the packet the parser reads on its way
Reads(p) ==
  UNION {IF LongEnough(p) THEN {12, 13} ELSE {},
         IF LongEnough(p) /\ p.vlan THEN {16, 17} ELSE {},
         IF HasIpHeader(p) THEN {Offset(p)} ELSE {},
         IF HasIhl(p) THEN {Offset(p) + 9} ELSE {},
         IF parse_tcp_packet(p) THEN TcpOffset(p)..TcpOffset(p) + 7 ELSE {}}

-----------------------------------------------------------------------------
VARIABLES
  clock,
  place,       \* where the capture is
  g_running,
  pool,        \* free buffers
  nic,         \* packets the card has received, with their arrival
  bufs,        \* the rest of the burst
  called,      \* when rte_eth_rx_burst was called
  total_packets, total_tcp, last_report_tsc,
  printed,     \* the statistics printed last
  events,      \* history: the events offered to the shared queue
  arrived      \* history: packets that came

vars == <<clock, place, g_running, pool, nic, bufs, called, total_packets,
          total_tcp, last_report_tsc, printed, events, arrived>>
wire == <<nic, arrived>>
statistics == <<last_report_tsc, printed>>

Init ==
  /\ clock = 0
  /\ place = "start" /\ g_running = TRUE
  /\ pool = PoolSize
  /\ nic = << >> /\ bufs = << >>
  /\ called = 0
  /\ total_packets = 0 /\ total_tcp = 0 /\ last_report_tsc = 0
  /\ printed = [packets |-> 0, tcp |-> 0, rate |-> 0]
  /\ events = << >> /\ arrived = 0

signal_handler ==
  /\ place # "exited"
  /\ g_running' = FALSE
  /\ UNCHANGED <<clock, place, pool, wire, bufs, called, total_packets, total_tcp,
                 statistics, events>>

\* EAL, queue, port, pool: all of them, or return 1 at the first that fails
Start ==
  /\ place = "start"
  /\ place' \in {"test", "exited"}
  /\ UNCHANGED <<clock, g_running, pool, wire, bufs, called, total_packets, total_tcp,
                 statistics, events>>

\* The started card stores a packet in a free buffer; without one it is lost.
Arrive ==
  /\ place \in {"test", "burst", "handle", "report"}
  /\ arrived < MaxPackets
  /\ arrived' = arrived + 1
  /\ clock' = clock + 1
  /\ IF pool = 0 THEN UNCHANGED <<pool, nic>>
     ELSE /\ pool' = pool - 1
          /\ \E p \in Packets : nic' = Append(nic, [p |-> p, at |-> clock'])
  /\ UNCHANGED <<place, g_running, bufs, called, total_packets, total_tcp, statistics,
                 events>>

\* while (g_running)
LoopTest ==
  /\ place = "test"
  /\ place' = IF g_running THEN "burst" ELSE "shutdown"
  /\ called' = clock
  /\ UNCHANGED <<clock, g_running, pool, wire, bufs, total_packets, total_tcp, statistics,
                 events>>

\* rte_eth_rx_burst; an empty burst goes back to the test at once.
Burst ==
  LET n == IF Len(nic) < BurstSize THEN Len(nic) ELSE BurstSize IN
  /\ place = "burst"
  /\ place' = IF n = 0 THEN "test" ELSE "handle"
  /\ bufs' = SubSeq(nic, 1, n)
  /\ nic' = SubSeq(nic, n + 1, Len(nic))
  /\ total_packets' = total_packets + n
  /\ UNCHANGED <<clock, g_running, pool, arrived, called, total_tcp, statistics, events>>

\* Mutant: one stamp for the burst, taken before it is asked for.
StampBefore == called

\* clock_gettime, inside the loop over the burst
Stamp == clock

\* Mutant: the buffer of a packet that is not TCP is not freed.
FreedIfTcp(p) == IF parse_tcp_packet(p) THEN 1 ELSE 0

\* rte_pktmbuf_free, whatever the packet was
Freed(p) == 1

Handle ==
  LET m == Head(bufs) IN
  /\ place = "handle"
  /\ clock' = clock + 1
  /\ IF parse_tcp_packet(m.p)
       THEN /\ total_tcp' = total_tcp + 1
            /\ events' = Append(events, [ts_nic_ns |-> Stamp, of |-> m])
       ELSE UNCHANGED <<total_tcp, events>>
  /\ pool' = pool + Freed(m.p)
  /\ bufs' = Tail(bufs)
  /\ place' = IF Len(bufs) = 1 THEN "report" ELSE "handle"
  /\ UNCHANGED <<g_running, wire, called, total_packets, statistics>>

\* After a burst: statistics, if a second has passed; what is printed as the
\* rate is the number of packets that were not TCP.
Report ==
  /\ place = "report"
  /\ place' = "test"
  /\ IF clock - last_report_tsc > Second
       THEN /\ printed' = [packets |-> total_packets, tcp |-> total_tcp,
                           rate |-> total_packets - total_tcp]
            /\ last_report_tsc' = clock
       ELSE UNCHANGED statistics
  /\ UNCHANGED <<clock, g_running, pool, wire, bufs, called, total_packets, total_tcp,
                 events>>

\* Stop and close the port, clean up the EAL.
Shutdown ==
  /\ place = "shutdown"
  /\ place' = "exited"
  /\ UNCHANGED <<clock, g_running, pool, wire, bufs, called, total_packets, total_tcp,
                 statistics, events>>

Capture == Start \/ LoopTest \/ Burst \/ Handle \/ Report \/ Shutdown

Ended == place = "exited" /\ UNCHANGED vars

Next == Capture \/ Arrive \/ signal_handler \/ Ended

Spec == Init /\ [][Next]_vars

-----------------------------------------------------------------------------
(* Properties *)

\* The parser never reads a byte outside the packet, whatever the headers say
\* and also when the length is cut to 16 bits.
ReadsInside ==
  \A i \in DOMAIN bufs : Reads(bufs[i].p) \subseteq 0..bufs[i].p.len - 1

\* The parser finds the TCP header exactly where the headers before it end, in
\* every IPv4 packet with at most one VLAN tag that is no later fragment; only
\* packets of 64 KiB or more may be passed over.
TcpHeaderAt(p) == 14 + (IF p.vlan THEN 4 ELSE 0) + 4 * p.ihl

ParsesExactly ==
  \A i \in DOMAIN bufs :
    LET p == bufs[i].p
        present == p.ipv4 /\ p.tcp /\ p.ihl >= 5 /\ TcpHeaderAt(p) + 20 <= p.len
    IN  /\ parse_tcp_packet(p) => present /\ TcpOffset(p) = TcpHeaderAt(p)
        /\ present /\ p.len < Word16 => parse_tcp_packet(p)

\* Every buffer is free, on the card or in the burst: the pool never runs dry
\* for good, whatever mix of packets arrives.
NoMbufLeak == pool + Len(nic) + Len(bufs) = PoolSize

\* A NIC stamp is never earlier than the packet's arrival, and stamps come in
\* the order of the arrivals, so that the correlator can look for the last one
\* before a kernel event.
StampsFollowArrivals ==
  \A i \in DOMAIN events :
    /\ events[i].ts_nic_ns >= events[i].of.at
    /\ \A j \in 1..i - 1 : /\ events[j].of.at < events[i].of.at
                           /\ events[j].ts_nic_ns < events[i].ts_nic_ns
=============================================================================
