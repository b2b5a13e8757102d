----------------------------- MODULE MCInventory ------------------------------
(* A switch board and two ordinary ones, one of which is in a slot that    *)
(* the chassis does not report, and two stacks.                            *)
EXTENDS Inventory

CONSTANTS h1, h2

MCHome == [t \in {1, 2} |-> IF t = 1 THEN 1 ELSE 6]

Whole(address, slot, status) ==
  [form |-> "whole", address |-> address, slot |-> slot, status |-> status]

Damaged == [Whole(0, 0, 0) EXCEPT !.form = "damaged"]

(* A board named by its slot, by its address, by the address of another,   *)
(* two in one batch, the first by an address that nobody has, a batch that *)
(* cannot be parsed to its end, and slots that the chassis has no board    *)
(* in.  The first finds a board without an address, if there is one.       *)
MCAlerts ==
  {<<Whole(0, 1, 1)>>, <<Whole(1, 0, 0)>>, <<Whole(6, 1, 2)>>,
   <<Whole(15, 5, 1), Whole(1, 6, 0)>>, <<Whole(1, 1, 2), Damaged>>,
   <<Whole(0, 15, 0), Whole(1, 15, 0)>>}
=============================================================================
