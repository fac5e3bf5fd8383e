\* Up to three signals and three messages.
SPECIFICATION NFairSpec
CONSTANTS
  MaxSignals = 3
  MaxReceived = 3
INVARIANTS
  ConnectedEndsOnlyBySignal
PROPERTY
  HeardSignalEnds
