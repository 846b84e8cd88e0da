SPECIFICATION FairSpec
CONSTANTS
  Schedules = {s1}
  Replicas = {r1, r2}
  Recoverers = {c1}
  Editors = {}
  Callers = {r1, r2, c1}
  Jobs <- MCOccurrences
  MaxTries = 3
  MaxQueueFaults = 1
  MaxTime = 1
  MaxEdits = 0
  None = None
INVARIANTS DispatchedIsDelivered
PROPERTIES OccurrenceDelivered
CHECK_DEADLOCK FALSE
