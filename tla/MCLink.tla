------------------------------- MODULE MCLink -------------------------------
(* Three machines on the switch.                                           *)
EXTENDS Link

Three == 0 .. 2

\* Machine 0 and machine 1 send each other more than a socket holds, machine 1 also
\* to all, and machine 2 gets what the switch floods.
TwoEach == [m \in Machine |-> IF m = 2 THEN 0 ELSE 2]
MixedTraffic == {<<0, 1>>, <<1, 0>>, <<1, Broadcast>>}
=============================================================================
