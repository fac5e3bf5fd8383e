\* Five lines, a flush at every second one.
SPECIFICATION FairSpec
CONSTANTS
  FlushEvery = 2
  MaxLines = 5
INVARIANTS
  FileIsPrefix
  EveryLineSomewhere
  CompleteAtClose
  LossBounded
  WriteNeverWaits
PROPERTIES
  CloseTerminates
