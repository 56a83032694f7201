\* Every handler finishes.  A channel has room for one of the two clients, the list for one channel.
SPECIFICATION FairSpec
CONSTANTS
  t1 = t1
  t2 = t2
  u1 = u1
  u2 = u2
  a = a
  b = b
  General = General
  NoName = NoName
  NoSocket = NoSocket
  UdpThread = UdpThread
  Blank = Blank
  Free = Free
  Sockets <- AllSockets
  TcpClients <- TwoTcp
  UdpClients <- NoClients
  Names <- TwoNames
  MaxUsers = 1
  MaxChannels = 1
  Kinds = {"AUTH", "JOIN", "BYE"}
  Early = {"AUTH"}
  Interruptible = FALSE
  Leaving = FALSE
INVARIANTS UniqueNames
PROPERTIES Answered
VIEW Essential
