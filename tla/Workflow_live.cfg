CONSTANTS
  Nodes <- MixedNodes
  NodeType <- MixedTypes
  Predecessors <- MixedPredecessors
  TerminalKey = "join"
  Unarmable = {"unarmed"}
  Passes = {p1}
  None = None
  MaxFaults = 2
SPECIFICATION FairSpec
CHECK_DEADLOCK FALSE
PROPERTIES
  NeverStalls
  FailureEndsWorkflow
  LostEnqueueRepaired
