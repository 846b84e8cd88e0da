CONSTANTS
  Nodes <- ParallelNodes
  NodeType <- ParallelTypes
  Predecessors <- ParallelPredecessors
  TerminalKey = "join"
  Unarmable = {}
  Passes = {p1, p2}
  None = None
  MaxFaults = 1
SPECIFICATION Spec
CHECK_DEADLOCK FALSE
SYMMETRY Symmetry
INVARIANTS
  TypeOK
  RowsFollowGraph
  InputsAreFinal
  OutcomesAreEarned
  VerdictMatchesNodes
PROPERTIES
  FollowsWorkflowStateMachines
  ImplementsNodeSuspension
