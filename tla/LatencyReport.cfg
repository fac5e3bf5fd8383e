\* Three ticks to a millisecond; the system clock is up to one tick off.
SPECIFICATION Spec
CONSTANTS
  Boot = 4
  Ms = 3
  Word = 64
  MaxSkew = 1
  MaxTime = 6
INVARIANTS
  TotalIsTrueLatency
  PartsCover
  BnNicIsNetworkTime
\* One message is followed.
CHECK_DEADLOCK FALSE
