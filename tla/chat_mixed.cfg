\* TCP and UDP clients that authenticate before they talk.
SPECIFICATION Spec
CONSTANTS
  t1 = t1
  t2 = t2
  u1 = u1
  u2 = u2
  a = a
  b = b
  General = General
  NoName = NoName
  NoSocket = NoSocket
  UdpThread = UdpThread
  Blank = Blank
  Free = Free
  Sockets <- AllSockets
  TcpClients <- OneTcp
  UdpClients <- TwoUdp
  Names <- OneName
  MaxUsers = 3
  MaxChannels = 2
  Kinds = {"AUTH", "JOIN", "MSG", "BYE", "ERR", "CONFIRM", "UNKNOWN"}
  Early = {"AUTH", "BYE"}
  Interruptible = FALSE
  Leaving = FALSE
INVARIANTS RightRoom Departed
PROPERTIES ImplementsRooms
VIEW Essential
SYMMETRY Symmetry
