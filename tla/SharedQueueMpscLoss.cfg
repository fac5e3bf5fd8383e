\* The client and one capture process push to the same ring.
SPECIFICATION Spec
CONSTANTS
  Producers = {ws, ebpf}
  Loaders = {ebpf}
  Capacity = 2
  Word = 64
  MaxOffers = 4
INVARIANTS
  NothingLostNothingTorn
