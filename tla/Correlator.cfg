\* Windows of two events, a pass after every second one, a counter that wraps
\* off the beat.
SPECIFICATION Spec
CONSTANTS
  Window = 2
  Batch = 2
  CntWord = 5
  Times = {1, 2, 3}
  TcpSeqs = {0, 1}
  MaxEvents = 5
INVARIANTS
  WindowsBounded
  NoUserEventSkipped
  MatchIsNearest
PROPERTIES
  MatchNeverWorsens
