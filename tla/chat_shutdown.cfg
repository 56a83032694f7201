\* C-c while handlers are at work.  The system may really stop here: see the run bye_after_sigint.
SPECIFICATION Spec
CONSTANTS
  t1 = t1
  t2 = t2
  u1 = u1
  u2 = u2
  a = a
  b = b
  General = General
  NoName = NoName
  NoSocket = NoSocket
  UdpThread = UdpThread
  Blank = Blank
  Free = Free
  Sockets <- AllSockets
  TcpClients <- TwoTcp
  UdpClients <- NoClients
  Names <- OneName
  MaxUsers = 2
  MaxChannels = 2
  Kinds = {"AUTH", "JOIN", "BYE"}
  Early = {"AUTH"}
  Interruptible = TRUE
  Leaving = FALSE
INVARIANTS Inv
PROPERTIES ListFrozen ByeToAllWhoStay
VIEW Essential
CHECK_DEADLOCK FALSE
