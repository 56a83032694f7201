\* The network delivers in time and in order, the server only answers.
SPECIFICATION FairSpec
CONSTANTS
  Retry = 1
  Byte = 8
  Word = 16
  Lines <- AllLines
  MaxLines = 3
  Says <- Silent
  MaxSaid = 0
  Lossy = FALSE
  Duplicating = FALSE
  Ordered = TRUE
  Slow = FALSE
  Resends = FALSE
  Interruptible = FALSE
PROPERTIES UnlocksAgain
