-------------------------- MODULE ExternalLinkWriterMC --------------------------
(* Two processes; the first has a name more, so that it can complete a     *)
(* call although a killed one with its id has left a file.                 *)
EXTENDS ExternalLinkWriter

CONSTANTS p1, p2, n1, n2, n3

MCProcesses == {p1, p2}
MCNames == [p \in MCProcesses |-> IF p = p1 THEN {n1, n2, n3} ELSE {n1, n2}]
=============================================================================
