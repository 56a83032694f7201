\* Messages at any time, peers that vanish; the second channel overruns the list; C-c at any moment.
\* The system may really stop here: see the run bye_after_sigint.
SPECIFICATION Spec
CONSTANTS
  t1 = t1
  t2 = t2
  u1 = u1
  u2 = u2
  a = a
  b = b
  General = General
  NoName = NoName
  NoSocket = NoSocket
  UdpThread = UdpThread
  Blank = Blank
  Free = Free
  Sockets <- AllSockets
  TcpClients <- OneTcp
  UdpClients <- OneUdp
  Names <- OneName
  MaxUsers = 2
  MaxChannels = 1
  Kinds = {"AUTH", "JOIN", "BYE", "CONFIRM", "UNKNOWN"}
  Early = {"AUTH", "JOIN", "BYE", "CONFIRM", "UNKNOWN"}
  Interruptible = TRUE
  Leaving = TRUE
INVARIANTS TypeOK HoldersWork ListedOnce
PROPERTIES MembersStable
VIEW Essential
CHECK_DEADLOCK FALSE
