CONSTANTS
  p = p
  q = q
  x = x
  y = y
  Process <- Two
  Socket <- SomeSockets
  IP <- OneIP
  BindPort <- AllPorts
  DestPort = {1, 2}
  Fragments = 2
  MaxSockets = 1
  MaxData = 2
  MaxSends = 1
SPECIFICATION SocketsSpec
CHECK_DEADLOCK FALSE
INVARIANTS
  QueueExists
  PortFIFO
PROPERTIES
  NoStealing
  SomeoneReceives
