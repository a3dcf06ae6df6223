----------------------------- MODULE MCSockets -----------------------------
EXTENDS Sockets

CONSTANTS p, q, x, y

Two == {p, q}
MCIP == {x, y}
OneIP == {x}

\* Create_Socket gives out 1 only.
SomeSockets == {1, 5}

\* -1 is the value the code takes for "no port", and 65537 is 1 in 16 bits.
AllPorts == {-1, 1, 2, 65537}
TwoPorts == {1, 2}
=============================================================================
