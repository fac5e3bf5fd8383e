\* Two clients, one after the other or at the same time; two segments.
SPECIFICATION Spec
CONSTANTS
  Clients = {c1, c2}
  Captures = {ebpf, dpdk}
  Capacity = 2
  Word = 16
  MaxSegments = 2
  MaxCreates = 2
  MaxPushes = 3
INVARIANTS
  
  NothingAcceptedBeforeReady
  OrphanOnlyByUnlink
\* Every process may be off with the bounds used up.
CHECK_DEADLOCK FALSE
