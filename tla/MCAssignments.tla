--------------------------- MODULE MCAssignments ----------------------------
(* One assignment of each kind. *)
EXTENDS Assignments, TLC

MCTargetType ==
  [a \in Assignments |-> IF a = "agent" THEN "AGENT_VERSION" ELSE "WORKFLOW_VERSION"]

Symmetry == Permutations(Requests)
=============================================================================
