CONSTANTS
  Calls = {"write", "read", "again"}
  Batches <- MCBatches
  Id <- MCId
  Fingerprint <- MCFingerprint
  IdempotencyClass <- MCClass
  Nullable = {"again"}
  MaxAttempts = 3
  MaxModelInvocations = 2
  MaxToolInvocations = 2
  None = None
SPECIFICATION Spec
CHECK_DEADLOCK FALSE
INVARIANTS OwnedWritesAtMostOnce EffectsAreCheckpointed ResultsAreOfTheirCalls
