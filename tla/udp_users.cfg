\* UDP users that come, go and come again, over a network that repeats and reorders.
SPECIFICATION Spec
CONSTANTS
  p1 = p1
  p2 = p2
  p3 = p3
  s1 = s1
  s2 = s2
  a = a
  General = General
  None = None
  Peers <- Everybody
  Port <- PortOf
  Local <- Near
  Descriptors <- Sockets
  Names <- Channels
  MaxList = 2
  Byte = 10
  Word = 100
  MaxSent = 4
  MaxStarts = 3
INVARIANTS TypeOK UsersDistinct EntriesOwned RightAnswer
PROPERTIES Undisturbed
SYMMETRY Symmetry
CHECK_DEADLOCK FALSE
