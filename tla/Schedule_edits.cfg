SPECIFICATION Spec
CONSTANTS
  Schedules = {s1}
  Replicas = {r1}
  Recoverers = {}
  Editors = {e1}
  Callers = {r1}
  Jobs <- MCOccurrences
  MaxTries = 3
  MaxQueueFaults = 0
  MaxTime = 3
  MaxEdits = 2
  None = None
INVARIANTS CoalesceOne
CHECK_DEADLOCK FALSE
