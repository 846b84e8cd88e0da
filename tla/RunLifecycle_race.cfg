CONSTANTS
  Runs = {r1}
  Attempts = {a1, a2, a3}
  Workers = {w1, w2}
  Recoverers = {p1, p2}
  None = None
  CheckpointedRuns = {r1}
  AutoRecoveredRuns = {r1}
  MaxRecoveryAttempts = 2
  MaxFaults = 1
SPECIFICATION Spec
CHECK_DEADLOCK FALSE
SYMMETRY Symmetry
INVARIANTS
  TypeOK
  OneActiveAttempt
  SuccessorsFollowFailures
  RunMatchesLatestAttempt
  AttemptExecutedByOneHandler
  SuccessorNeedsCheckpoint
PROPERTIES
  LeaseArbitrates
