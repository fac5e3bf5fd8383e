\* Bursts of up to 2 from a pool of 2, three packets around the parser's limits.
SPECIFICATION Spec
CONSTANTS
  Packets <- LimitPackets
  Word16 = 65536
  PoolSize = 2
  BurstSize = 2
  Second = 3
  MaxPackets = 3
INVARIANTS
  ReadsInside
  ParsesExactly
  NoMbufLeak
  StampsFollowArrivals
