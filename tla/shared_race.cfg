\* Two TCP clients that talk.
SPECIFICATION Spec
CONSTANTS
  t1 = t1
  t2 = t2
  u1 = u1
  u2 = u2
  a = a
  b = b
  General = General
  NoName = NoName
  NoSocket = NoSocket
  UdpThread = UdpThread
  Blank = Blank
  Free = Free
  Sockets <- AllSockets
  TcpClients <- TwoTcp
  UdpClients <- NoClients
  Names <- OneName
  MaxUsers = 2
  MaxChannels = 2
  Kinds = {"AUTH", "MSG"}
  Early = {"AUTH"}
  Interruptible = FALSE
  Leaving = FALSE
INVARIANTS SendsItsOwn
