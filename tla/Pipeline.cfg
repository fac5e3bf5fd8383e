SPECIFICATION PSpec
CONSTANTS
  Window = 2
  Batch = 2
  CntWord = 5
  Times = {1, 2, 3, 4, 5, 6}
  TcpSeqs = {0}
  MaxEvents = 5
  MaxMessages = 2
  MaxForeign = 1
INVARIANT OwnReceiveUnlessForeign
\* The system stops when the bounds are reached.
CHECK_DEADLOCK FALSE
