\* Datagrams come again, late, out of order or never; both sides resend.
SPECIFICATION Spec
CONSTANTS
  Retry = 2
  Byte = 4
  Word = 6
  Lines <- Requests
  MaxLines = 2
  Says <- Chats
  MaxSaid = 1
  Lossy = FALSE
  Duplicating = TRUE
  Ordered = FALSE
  Slow = TRUE
  Resends = TRUE
  Interruptible = FALSE
INVARIANTS TypeOK ConfirmedMeansDelivered OpenMeansAccepted
PROPERTIES InOrder
