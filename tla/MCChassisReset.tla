--------------------------- MODULE MCChassisReset ---------------------------
(* Chassis and slots are numbers, so the instances need no model values.   *)
EXTENDS ChassisReset

(* Boards of a chassis from the first one on, after a gap, and none.       *)
MCFlagSets == {<<{1, 2}, {3}>>, <<{2, 3}, {}>>}

(* Whatever boards a request may flag.                                     *)
MCAllFlags == [1 .. NumChassis -> SUBSET (1 .. NumSlots)]
=============================================================================
