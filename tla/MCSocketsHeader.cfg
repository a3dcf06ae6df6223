CONSTANTS
  p = p
  q = q
  x = x
  y = y
  Process <- Two
  Socket = {1}
  IP <- MCIP
  BindPort <- TwoPorts
  DestPort = {1, 2}
  Fragments = 2
  MaxSockets = 1
  MaxData = 0
  MaxSends = 1
SPECIFICATION SocketsSpec
CHECK_DEADLOCK FALSE
INVARIANT HeaderMatches
