CONSTANTS
  Runs = {r1}
  Attempts = {a1, a2}
  Workers = {w1}
  Recoverers = {p1}
  None = None
  CheckpointedRuns = {r1}
  AutoRecoveredRuns = {r1}
  MaxRecoveryAttempts = 1
  MaxFaults = 2
SPECIFICATION FairSpec
CHECK_DEADLOCK FALSE
PROPERTIES
  FollowsStateMachines
  ExpiredLeaseSettled
  LostDeliveryRepaired
  InterruptedRunDispatched
