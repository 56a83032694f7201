\* Every line, every message of the server, C-c; datagrams come once, in any order or never.
SPECIFICATION Spec
CONSTANTS
  Retry = 2
  Byte = 4
  Word = 6
  Lines <- AllLines
  MaxLines = 2
  Says <- AllSays
  MaxSaid = 1
  Lossy = FALSE
  Duplicating = FALSE
  Ordered = FALSE
  Slow = TRUE
  Resends = FALSE
  Interruptible = TRUE
INVARIANTS ReplyIsForRequest
