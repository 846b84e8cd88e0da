CONSTANTS
  Runs = {r1}
  Attempts = {a1, a2, a3}
  Workers = {w1}
  Recoverers = {p1}
  None = None
  CheckpointedRuns = {r1}
  AutoRecoveredRuns = {r1}
  MaxRecoveryAttempts = 1
  MaxFaults = 0
SPECIFICATION Spec
CHECK_DEADLOCK FALSE
INVARIANT RecoveryAttemptsLimited
