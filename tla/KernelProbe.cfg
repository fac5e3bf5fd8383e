\* Two threads, a map with room for one: an entry left behind fills it.
SPECIFICATION Spec
CONSTANTS
  Threads = {1, 2}
  MaxCtx = 1
  RingSize = 1
  MaxTime = 4
INVARIANTS
  OwnStamp
  StampReportedOnce
  LeakOnlyUnseen
  StampSurvivesCopy
