\* The three producers of the program: client, eBPF loader, DPDK capture.
SPECIFICATION Spec
CONSTANTS
  Producers = {ws, ebpf, dpdk}
  Loaders = {ebpf, dpdk}
  Capacity = 2
  Word = 64
  MaxOffers = 4
SYMMETRY LoaderSymmetry
INVARIANTS
  NeverOverCapacity
  PoppedWasWritten
PROPERTIES
  WedgedIsForever
