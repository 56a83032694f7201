\* Start-up and shutdown with three connections and two C-c.
SPECIFICATION FairSpec
CONSTANTS
  MaxConnections = 3
  MaxPresses = 2
  StdinSpeaks = TRUE
  AcceptFails = TRUE
INVARIANTS TypeOK FreedLast OneLateAtMost
PROPERTIES ShutdownEnds
