-------------------------- MODULE MCProcessTable --------------------------
EXTENDS ProcessTable

CONSTANTS p, q

MCProgram == {p, q}
MCPages == [x \in MCProgram |-> IF x = p THEN 1 ELSE 2]
=============================================================================
