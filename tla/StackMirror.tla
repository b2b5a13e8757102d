----------------------------- MODULE StackMirror ------------------------------
(***************************************************************************)
(* What the collector promises about the business stacks (the comments of  *)
(* CollectStackInfo): the store is replaced as a whole by what one answer  *)
(* of the platform names, and kept when the platform does not answer.      *)
(***************************************************************************)
CONSTANT Stacks

VARIABLES
  source,   \* the stacks the platform has
  answer,   \* the answer the collector has got and not stored yet, in a set
  mirror    \* the stacks of the store

vars == <<source, answer, mirror>>

Init ==
  /\ source \subseteq Stacks
  /\ answer = {}
  /\ mirror = {}

(* Stacks are created, deployed and removed at the platform.               *)
Change ==
  /\ source' \in SUBSET Stacks
  /\ UNCHANGED <<answer, mirror>>

(* The platform answers; a damaged answer names some of its stacks only.   *)
Fetch ==
  /\ answer = {}
  /\ \E got \in SUBSET source : answer' = {got}
  /\ UNCHANGED <<source, mirror>>

Replace ==
  /\ answer = {mirror'}
  /\ answer' = {}
  /\ UNCHANGED source

Next == Change \/ Fetch \/ Replace

Spec == Init /\ [][Next]_vars
=============================================================================
