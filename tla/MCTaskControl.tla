---------------------------- MODULE MCTaskControl ----------------------------
(* Two nodes, of which a outranks b, and two work modes.                   *)
EXTENDS TaskControl, TLC

CONSTANTS a, b, L1, L2

MCPriority == [n \in Node |-> IF n = a THEN 1 ELSE 0]
MCIp       == [n \in Node |-> IF n = a THEN 10 ELSE 20]
MCSymmetry == Permutations(Label)
=============================================================================
