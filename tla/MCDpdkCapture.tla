---------------------------- MODULE MCDpdkCapture ----------------------------
\* Packets for TLC, around the limits of the parser: not TCP; not IPv4; one that is
\* just too short and one that just fits, with a VLAN tag, with the longest IP
\* options, and with both; one whose length is cut to 16 bits.
EXTENDS DpdkCapture

Tcp(len, vlan, ihl) ==
  [len |-> len, vlan |-> vlan, ipv4 |-> TRUE, ihl |-> ihl, tcp |-> TRUE]

LimitPackets ==
  {[Tcp(60, FALSE, 5) EXCEPT !.tcp = FALSE], [Tcp(60, TRUE, 5) EXCEPT !.ipv4 = FALSE],
   Tcp(53, FALSE, 5), Tcp(54, FALSE, 5),
   Tcp(57, TRUE, 5), Tcp(58, TRUE, 5), Tcp(78, FALSE, 15), Tcp(94, FALSE, 15),
   Tcp(98, TRUE, 15), Tcp(60, FALSE, 4), Tcp(65590, FALSE, 5)}
=============================================================================
