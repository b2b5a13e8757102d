---------------------------- MODULE MCHeartbeat ----------------------------
(* Two nodes, as the service is designed for; a outranks b.               *)
EXTENDS Heartbeat

CONSTANTS a, b

MCPriority == [n \in Node |-> IF n = a THEN 1 ELSE 0]
MCIp       == [n \in Node |-> IF n = a THEN 10 ELSE 20]
=============================================================================
