\* A TCP client and its handler over streams that merge messages.
SPECIFICATION FairSpec
CONSTANTS
  Coalescing = TRUE
  Lines = {"auth", "join", "msg", "bye", "byewords", "badbye", "local", "blank", "empty"}
  MaxLines = 4
  Pasting = TRUE
  Interruptible = TRUE
  MaxSaid = 1
  Stopping = TRUE
INVARIANTS TypeOK RightReply NeverRefused
PROPERTIES UnlocksAgain ByeTakesOut
