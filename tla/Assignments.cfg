CONSTANTS
  Assignments = {"agent", "workflow"}
  TargetType <- MCTargetType
  Requests = {q1, q2, q3}
  Readers = {g1}
  MaxFaults = 1
  None = None
SPECIFICATION Spec
SYMMETRY Symmetry
CHECK_DEADLOCK FALSE
INVARIANTS OutcomeIsOfLinked OneAgentRun
