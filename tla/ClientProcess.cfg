\* All arguments of length up to two, lists of pairs around the limit, room for
\* two published messages, and a restart of the subscriber.
SPECIFICATION CFairSpec
CONSTANTS
  MaxArgs = 2
  MaxFetched = 3
  MaxQueued = 1
  MAX_SUBSCRIPTIONS = 2
  HighWaterMark = 4
  MaxMessages = 3
  MaxRestarts = 1
INVARIANTS
  NoUseAfterRelease
  AllJoinedAtExit
  PairsMatchUnlessCut
PROPERTIES
  SignalEndsProcess
  LostConnectionEndsProcess
