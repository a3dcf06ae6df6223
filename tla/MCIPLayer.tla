----------------------------- MODULE MCIPLayer -----------------------------
(* Two threads of machine 0 and one of machine 2 send to machine 1.        *)
EXTENDS IPLayer

CONSTANTS a, b, c

MCThread == {a, b, c}
MCHost == [t \in MCThread |-> IF t = c THEN 2 ELSE 0]

\* One, two and three fragments; the last is Kernel::NetworkTest's datagram.
MCSize == {100, 1481, 3008}

\* The values of rand are different.
MCIdentification == [n \in 1 .. MaxDatagrams |-> n]

\* The threads of machine 0 are alike.
Symmetry == Permutations({a, b})
=============================================================================
