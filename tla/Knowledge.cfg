CONSTANTS
  Ordinals = {1, 2}
  Deliveries = {d1, d2}
  Retries = {q1, q2}
  MaxStalls = 1
  MaxFaults = 1
  None = None
SPECIFICATION FairSpec
CHECK_DEADLOCK FALSE
INVARIANTS ReadyIsComplete
PROPERTIES ReadyStays IngestionEnds
