\* One producer, which may die inside a push and be started again. The client's
\* own message handler, which dies only with the consumer, is the case without.
SPECIFICATION FairSpec
CONSTANTS
  Producers = {producer}
  Loaders = {producer}
  Capacity = 2
  Word = 64
  MaxOffers = 6
INVARIANTS
  NothingLostNothingTorn
  NoSlotRace
PROPERTIES
  ImplementsFifo
  AcceptedIsPopped
