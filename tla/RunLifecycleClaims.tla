-------------------------- MODULE RunLifecycleClaims --------------------------
(* What a test of the repository says of the execution path and the code    *)
(* does not do.                                                             *)
EXTENDS RunLifecycle

(* checkpoint-recovery-batch2-acceptance.test.ts: "recovery limit exhaustion *)
(* prevents further scheduling".  The interruption of each successor writes *)
(* recoveryAttemptCount: 0 again.                                           *)
RecoveryAttemptsLimited ==
  \A r \in Runs : Cardinality(AttemptsOf(r)) <= 1 + MaxRecoveryAttempts
=============================================================================
