---------------------- MODULE MCWorkflowReconciliation ----------------------
(* Small workflow definitions for TLC. *)
EXTENDS WorkflowReconciliation, TLC

(* Passes are interchangeable. *)
Symmetry == Permutations(Passes)

(* An agent beside a branch that may pass over a wait. *)
ParallelNodes == {"fork", "agent", "route", "wait", "join"}
ParallelTypes ==
  [fork |-> "PARALLEL", agent |-> "AGENT", route |-> "BRANCH", wait |-> "WAIT",
   join |-> "JOIN"]
ParallelPredecessors ==
  [fork |-> {}, agent |-> {"fork"}, route |-> {"fork"}, wait |-> {"route"},
   join |-> {"agent", "route", "wait"}]

(* An agent beside a branch that selects an approval followed by a wait, a *)
(* wait that cannot be armed, or neither.                                  *)
MixedNodes == {"fork", "agent", "route", "approval", "wait", "unarmed", "join"}
MixedTypes ==
  [fork |-> "PARALLEL", agent |-> "AGENT", route |-> "BRANCH",
   approval |-> "APPROVAL", wait |-> "WAIT", unarmed |-> "WAIT", join |-> "JOIN"]
MixedPredecessors ==
  [fork |-> {}, agent |-> {"fork"}, route |-> {"fork"}, approval |-> {"route"},
   wait |-> {"approval"}, unarmed |-> {"route"},
   join |-> {"agent", "route", "wait", "unarmed"}]
=============================================================================
