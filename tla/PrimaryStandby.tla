--------------------------- MODULE PrimaryStandby ---------------------------
(***************************************************************************)
(* What the heartbeat service promises to the services that ask it for     *)
(* IsPrimary(): a set of nodes whose roles change independently, where a   *)
(* Primary steps down only for a node that outranks it and that has        *)
(* claimed to be Primary.  Time, threads and datagrams are left out; of    *)
(* the network only the set of outstanding claims is kept.                 *)
(*                                                                         *)
(* Heartbeat.tla implements this specification (see its Abs instance).     *)
(***************************************************************************)
EXTENDS Naturals

CONSTANTS
  Node,        \* the nodes of the cluster
  Priority,    \* configured priority of a node, the larger wins
  Ip           \* address of a node as a number, the smaller wins a tie

VARIABLES
  role,        \* role of each node; "Down" when its service does not run
  claims       \* nodes whose claim to be Primary may still be acted upon

vars == <<role, claims>>

Roles == {"Down", "Unknown", "Primary", "Standby"}

(* Roles are those of HeartbeatService::Role, or "Down".                   *)
TypeOK ==
  /\ role \in [Node -> Roles]
  /\ claims \in SUBSET Node

(* Node m outranks node n.                                                 *)
Superior(m, n) ==
  \/ Priority[m] > Priority[n]
  \/ Priority[m] = Priority[n] /\ Ip[m] < Ip[n]

Primaries == {n \in Node : role[n] = "Primary"}

-----------------------------------------------------------------------------
Init ==
  /\ role = [n \in Node |-> "Down"]
  /\ claims = {}

(* Claims are forgotten at any time (the datagrams that carry them are     *)
(* read or lost), and only a Primary makes a new one.                      *)
ClaimsLapse ==
  /\ claims' \in SUBSET (claims \cup Primaries')
  /\ Primaries' \subseteq claims'

Become(n, from, r) ==
  /\ role[n] \in from
  /\ role' = [role EXCEPT ![n] = r]
  /\ ClaimsLapse

Join(n)     == \E r \in {"Unknown", "Primary", "Standby"} : Become(n, {"Down"}, r)
Decide(n)   == \E r \in {"Primary", "Standby"} : Become(n, {"Unknown"}, r)
TakeOver(n) == Become(n, {"Standby"}, "Primary")
Leave(n)    == Become(n, Roles, "Down")

Yield(n) ==
  /\ \E m \in claims : Superior(m, n)
  /\ Become(n, {"Primary"}, "Standby")

Forget == UNCHANGED role /\ ClaimsLapse

Next ==
  \/ \E n \in Node : \/ Join(n)
                     \/ Decide(n)
                     \/ TakeOver(n)
                     \/ Yield(n)
                     \/ Leave(n)
  \/ Forget

Spec == Init /\ [][Next]_vars

=============================================================================
