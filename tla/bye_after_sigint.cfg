\* C-c while a handler is in add_client.
SPECIFICATION FairSpec
CONSTANTS
  t1 = t1
  t2 = t2
  u1 = u1
  u2 = u2
  a = a
  b = b
  General = General
  NoName = NoName
  NoSocket = NoSocket
  UdpThread = UdpThread
  Blank = Blank
  Free = Free
  Sockets <- AllSockets
  TcpClients <- OneTcp
  UdpClients <- NoClients
  Names <- OnlyGeneral
  MaxUsers = 1
  MaxChannels = 1
  Kinds = {"AUTH"}
  Early = {"AUTH"}
  Interruptible = TRUE
  Leaving = FALSE
PROPERTIES ByeAfterSigint
CHECK_DEADLOCK FALSE
