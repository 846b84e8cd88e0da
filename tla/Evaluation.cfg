CONSTANTS
  Cases = {1, 2}
  MaxAttempts = 2
  Workers = {w1, w2}
  Readers = {g1}
  MaxStalls = 1
  MaxFaults = 2
  None = None
SPECIFICATION FairSpec
CHECK_DEADLOCK FALSE
INVARIANTS VerdictMatchesResults OutcomesAreEarned GateIsFinal
 
